SPECIFICATION Spec
CONSTANTS
    Requests = {"r1"}
    Ops = {"o1", "o2", "o3"}
    Workloads <- MCCancelTwice
    Stores = {"s1"}
    Refs = {"order", "other order"}
    Hashes = {"h1", "h2"}
    FraudStores = {}
    FakeStores = {}
    AnyStore = AnyStore
    NoProviderId = NoProviderId
    NoResponse = NoResponse
    MaxTxns = 1
    Faults = FALSE
INVARIANTS RefundedOnce
CHECK_DEADLOCK FALSE
