SPECIFICATION Spec
CONSTANTS
    Requests = {"r1", "r2", "r3"}
    Ops = {"o1", "o2", "o3"}
    Workloads <- MCMixed
    Stores = {"s1"}
    Refs = {"order", "other order"}
    Hashes = {"h1", "h2"}
    FraudStores = {"s1"}
    FakeStores = {}
    AnyStore = AnyStore
    NoProviderId = NoProviderId
    NoResponse = NoResponse
    MaxTxns = 2
    Faults = TRUE
INVARIANTS TypeOK ChargedOncePerOrder DeniedNeverCharged AnswerMatchesLedger LedgerNotAheadOfZoop RefusedButAliveIsMarked NoticesFollowLedger
PROPERTIES LedgerSpec ReplayIsStable
CHECK_DEADLOCK FALSE
