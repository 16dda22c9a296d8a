SPECIFICATION Spec
CONSTANTS
    Runs = {"u1", "u2", "u3"}
    RunIds = {"t1", "t2", "t3"}
    LateCalls = {"capture", "cancel"}
    Store = "homolog"
    AnyStore = AnyStore
    NoProviderId = NoProviderId
    NoResponse = NoResponse
    MaxKeys = 2
    Sessions <- MCSessions
INVARIANTS TypeOK ReportIsTrue OnlyALostKeyFails DoubleIsAskedAsZoop
PROPERTIES LostChargeStays
CHECK_DEADLOCK FALSE
