SPECIFICATION Spec
CONSTANTS
    Requests = {"r1", "r2"}
    OldStore = "shop"
    Orders = {"1001"}
    Hashes = {"h1", "h2"}
    FraudStores = {"shop"}
    Names = {"Acme", "Acme - z1", "Acme - z2"}
    Slugs = {"acme", "acme-z1", "acme-z2"}
    Slugify <- MCSlugify
    NoSlug = NoSlug
    Sellers = {"z1", "z2", "fake"}
    KnownSellers = {"z1", "z2"}
    FakeSeller = "fake"
    NoSeller = NoSeller
    DisplayName <- MCDisplayName
    LongName <- MCLongName
    None = None
    AnyStore = AnyStore
    NoProviderId = NoProviderId
    NoResponse = NoResponse
    MaxTxns = 2
    Workloads <- MCFirst
    Faults = FALSE
INVARIANTS FirstOrderChargedOnce
CHECK_DEADLOCK FALSE
