SPECIFICATION FairSpec
CONSTANTS
    Requests = {"r1", "r2"}
    Ops = {}
    Workloads <- MCCardAndPix
    Stores = {"s1"}
    Refs = {"order", "other order"}
    Hashes = {"h1", "h2"}
    FraudStores = {"s1"}
    FakeStores = {}
    AnyStore = AnyStore
    NoProviderId = NoProviderId
    NoResponse = NoResponse
    MaxTxns = 1
    Faults = FALSE
PROPERTIES ChargeLeavesApprovedRisk PaidIsRecorded
CHECK_DEADLOCK FALSE
