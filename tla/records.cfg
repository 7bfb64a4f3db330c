\* The record-keeping components, each with its own requests: two at a time,
\* three to five in one behaviour.
SPECIFICATION RecordsSpec
CONSTANTS
    Focuses = {"staff", "factor", "catalogue", "listings", "book", "accounts",
               "intake", "map", "windows", "shop", "csv", "seed", "screens", "visit",
               "pool"}
    s1 = s1
    s2 = s2
    Stores = {s1, s2}
    NoStore = NoStore
    Requests = {r1, r2}
    Nothing = Nothing
    ann = ann
    bob = bob
    eve = eve
    Users = {ann, bob, eve}
    FirstAccounts <- AnyStaff
    MaxStaffCalls = 2
    Factors = {f1, f2}
    MaxStep = 1
    MaxFactorCalls = 4
    k2 = k2
    k3 = k3
    Categories = {k1, k2, k3}
    NoParent = NoParent
    Goods = {g}
    i1 = i1
    i2 = i2
    Images = {i1, i2, i3}
    FirstTrees <- Trees
    FirstGallery <- Gallery
    MaxCatalogueCalls = 3
    Products = {p}
    Paise = {0, 1, 2}
    MaxListingCalls = 4
    MaxAddresses = 3
    MaxAddressCalls = 5
    Rows = {c1, c2}
    Phones = {t1, t2}
    Emails = {e1, e2}
    MaxAccountCalls = 6
    Submitters = {v, w}
    Wishes = {x, y, z}
    PerSubmitter = 2
    PerStore = 2
    LongWindow = 2
    ShortWindow = 1
    MaxTime = 3
    MaxIntakeCalls = 3
    z1 = z1
    a1 = a1
    n1 = n1
    n2 = n2
    p1 = p1
    ZoneIds = {z1, z2}
    AreaIds = {a1, a2}
    Names = {n1, n2}
    Begins <- NamePrefixes
    Pincodes = {p1}
    NewAreas <- Additions
    FirstMaps <- Maps
    MaxMapCalls = 3
    DayLength = 6
    Lead = 1
    Horizon = 1
    Margin = 2
    Zones <- ForwardClocks
    Shapes <- DayShapes
    Updates <- Sent
    MaxClock = 7
    MaxWindowCalls = 2
    d2 = d2
    d3 = d3
    Wares = {1, 2, 3}
    Aisles = {d2, d3}
    Root = Root
    Here = s1
    Hits <- BestHits
    PageSize = 2
    SearchLimit = 2
    LowStock = 2
    FirstShelves <- SomeShelves
    MaxCommits = 2
    Lines <- CsvLines
    Files <- CsvFiles
    Default = "set"
    MaxRows = 2
    SafeLimit = 5
    Stocked <- OneSku
    Skus = {1, 2, 3}
    Listed = {1, 2}
    OpeningStock <- Opening
    MaxRuns = 3
    MaxShopSteps = 3
    Orders = {1, 2, 3}
    FirstOrders <- SomeOrders
    ByCode <- ShopsByCode
    ListLimit = 1
    MaxScreenSteps = 3
    q1 = q1
    q2 = q2
    Places = {q1, q2}
    ShopFor <- TwoPlaces
    Baskets = {b1, b2}
    Shoppers <- AnyShopper
    MaxVisitCalls = 3
    MaxTurns = 1
    PoolSize = 2
    MaxPoolCalls = 3
SYMMETRY Alike
CHECK_DEADLOCK FALSE
INVARIANTS
    RecordsInv
    CookiesMatchAuthority
    CodeWorksOnce
    TreeHasNoCycle
    PriceHistoryChains
    OneDefault
    CapsHold
    WindowsAreApart
    ShopWindowIsTrue
    CsvReadAsWritten
    SeedMovesOnce
PROPERTIES
    ManagersRunTheirOwnStaff
    AccountsKeepTheirOwner
    ScreensHold
