SPECIFICATION Spec
CONSTANTS
    Requests = {"r1"}
    Ops = {}
    Workloads <- MCOneClick
    Stores = {"s1"}
    Refs = {"order", "other order"}
    Hashes = {"h1", "h2"}
    FraudStores = {"s1"}
    FakeStores = {}
    AnyStore = AnyStore
    NoProviderId = NoProviderId
    NoResponse = NoResponse
    MaxTxns = 1
    Faults = FALSE
INVARIANTS DenialIsReflected
CHECK_DEADLOCK FALSE
