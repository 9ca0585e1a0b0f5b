\* Each program of Tools at work, one at a time; the values are in MCTools.
SPECIFICATION MCSpec
CONSTANTS
    e1 = e1
    e2 = e2
    c1 = c1
    Executions = {e1, e2}
    Catalogue <- Inventory
    Situations <- OrphanSituations
    Places <- Everywhere
    Registered <- Executors
    AllowLists <- Allowed
    ClientPlace = "here"
    DeletesBuckets = TRUE
    Versions = {1, 2}
    Orders <- LiveOrders
    Workers = {1, 2}
    Formats = {"json", "markdown", "sarif"}
    EvidenceAdapters = {"CloudTrail", "GitLog", "ProviderVersion", "KubernetesApi", "AutomationApi"}
    Looks <- AdapterLooks
    Policies <- AdapterPolicies
    Windows = {"sound", "refused"}
    Unset <- NoLimit
    MaxSafe = 20
    MaxMoves = 2
    n1 = n1
    long = long
    i1 = i1
    i2 = i2
    a1 = a1
    a2 = a2
    z1 = z1
    z2 = z2
    m5 = m5
    t3 = t3
    NoInstance = NoInstance
    NoZone = NoZone
    Trusted = Trusted
    Other = Other
    Absent = Absent
    Instances = {i1, i2}
    Zones = {z1, z2}
    RegionZones = {z1}
    Labels = {Trusted, Other}
    NodeGroup = "group"
    Account = "account"
    Region = "region"
    AllowedTypes = {m5}
    ExpectedTaints <- KernelTaints
    LongNames = {long}
    MaxAge = 2
    MaxSkew = 1
    MaxChanges = 3
    Calls = {c1}
    Requests <- BrokerRequests
    Scopes <- BrokerScopes
    AppKeys = {"k1", "k2"}
    Owners = {"o", "p"}
    Grants = {{"contents"}, {"contents", "issues"}}
    Disturbances = 3
    Files <- TwoFiles
    Json = {"lock"}
    Commands <- RemediationCommands
    Rulesets <- RemediationRulesets
    MaxIterations = 1
    Rows = 1
    Mishaps = 1
INVARIANTS
    TypeOK
    ExecutionsExclude
    CleanExitIsEarned
    LastingDriftIsSeen
    RetriesStayInBudget
    ActsExactlyOnProof
    CallsGetWhatWasAgreed
    ReplacesWhatWasReviewed
    ReleasesAreReviewedAndAudited
PROPERTIES
    DeletesAsPlanned
    UndisturbedSweepsEmptyTheBucket
    EveryCallEnds
    RunsEnd
CHECK_DEADLOCK FALSE
