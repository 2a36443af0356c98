\* A database that two people set up, and a service that answers two requests while chaos is
\* switched and its reference data loaded again.
CONSTANTS
    Last = 2
    Runners = {m1, m2}
    MaxEdits = 1
    Loaders = {l1}
    Seeders = {s1}
    Issues = {"v1", "v2", "cut"}
    Online = {"v1", "v2"}
    CutShort = "cut"
    Missing = Missing
    AirportCodes = {"DEL", "BOM"}
    Stations = {"VIDP"}
    Carriers = {"AI"}
    Callsigns = {"AIC"}
    Null = Null
    AirportRows <- MCAirportRows
    AirlineRows <- MCAirlineRows
    RouteRows <- MCRouteRows
    MaxLoads = 2
    Hubs = {"DEL", "BOM"}
    NoSeed = NoSeed
    Published = "v1"
    Copied = "v2"
    Requests = {q1, q2}
    Endpoints = {"weather", "aircraft", "health", "admin"}
    AdminPath = "admin"
    Exempt = {"admin", "health"}
    Prefixes = {"/", "/v1/live"}
    Covers <- MCCovers
    Length <- MCLength
    Settings <- MCSettings
    PutConfigs <- MCPutConfigs
    Patches <- MCPatches
    Scenarios = {"healthy", "flaky", "nonsense"}
    MaxRequests = 3
    MaxWork = 4
    AirportAsked <- MCAirportAsked
    CarrierAsked <- MCCarrierAsked
    Sky = Sky
    NoKey = NoKey
    TTL <- MCTTL
    Patience <- MCPatience
SPECIFICATION FairPlatformSpec
INVARIANTS PlatformTypeOK MigratedOnceInOrder RoutesResolve ServedIsRecent ResetHeals AdminIsNeverBroken
PROPERTIES SeededOnRealRoutes QuotaIsSpared EveryRequestEnds
CHECK_DEADLOCK FALSE
