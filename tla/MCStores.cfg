SPECIFICATION Spec
CONSTANTS
    Calls = {c1, c2, c3}
    Kinds = {"create", "provision", "rotate", "settings", "slug"}
    Names = {"Acme", "Acme - z1"}
    Slugs = {"acme", "acme-z1"}
    Slugify <- MCSlugify
    NoSlug = NoSlug
    Sellers = {"z1", "fake"}
    KnownSellers = {"z1"}
    FakeSeller = "fake"
    NoSeller = NoSeller
    DisplayName <- MCDisplayName
    LongName <- MCLongName
    None = None
SYMMETRY Symmetry
INVARIANTS TypeOK TwoStoresPerSeller AKeyResolves StoreIsSellers
CHECK_DEADLOCK FALSE
