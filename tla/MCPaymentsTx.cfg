SPECIFICATION FairSpec
CONSTANTS
    PaymentIds = {p1}
    Stores = {s1}
    Refs = {r1}
    AnyStore = AnyStore
    ProviderIds = {}
    NoProviderId = NoProviderId
    Callers = {c1, c2}
    NoTx = NoTx
    Targets = {"authorized", "captured"}
    MaxCharges = 1
INVARIANTS TypeOK OutboxMatchesEvents SeenIsCurrent
PROPERTIES LedgerSpec EveryCallEnds
CHECK_DEADLOCK FALSE
