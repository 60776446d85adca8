SPECIFICATION Spec
CONSTANTS
    Shipped <- POLICIES
    ShippedById <- POLICIES_BY_ID
    NamesInOrder <- NAMES
    Visits = {"library", "exclusions", "create", "alerts", "investigate", "diagnostics"}
    Ids = {"tracingpolicy-sys-mount", "tracingpolicy-sys-ptrace", "tracingpolicy-lsm-bprm-check"}
    Sections = {"escape", "syscalls"}
    Bundles = {"essentials", "goat"}
    Scopes = {"apps"}
    MaxClicks = 3
    MaxObjects = 4
    MaxFailures = 1
    Policies = {p1, p2}
    NoPolicy = NoPolicy
    HitValues = {v1}
    MaxCalls = 2
    Starts <- Templates
    Typed <- Mine
    Listed <- Theirs
    Namespaces = {"apps"}
    MaxMade = 3
    RouteIds = {r1}
    Initially <- OneRoute
    MaxEdits = 2
    MaxFetches = 2
    MaxSaves = 2
    MaxLost = 1
    Facets = {f1}
    Records = {a, b}
    Closed = Closed
    NoPath = NoPath
    MaxVersion = 1
    MaxGets = 2
    MaxErrors = 1
    Nothing = Nothing
    MaxLines = 2
    MaxLogs = 1
    MaxRecent = 1
    Capacity = 2
    WireRoom = 2
    Limit = 2
    MaxLosses = 1
INVARIANTS
    TypeOK
    PagesAgree
    LibraryIsSound
    LogsAreSound
PROPERTIES
    PagesComeBack
    PagesSettle
CHECK_DEADLOCK FALSE
