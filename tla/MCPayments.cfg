SPECIFICATION MCSpec
CONSTANTS
    PaymentIds = {p1, p2}
    Stores = {s1, s2}
    Refs = {r1}
    AnyStore = AnyStore
    ProviderIds = {}
    NoProviderId = NoProviderId
    MaxCharges = 1
    MaxChargedPayments = 1
INVARIANTS TypeOK HistoryIsPath StatusEnteredOnce
PROPERTIES CollectedIsKept
SYMMETRY MCSymmetry
CHECK_DEADLOCK FALSE
