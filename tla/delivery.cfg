SPECIFICATION MCSpec
CONSTANTS
    s1 = s1
    ma = ma
    mb = mb
    mc = mc
    p1 = p1
    p2 = p2
    Syncs = {s1}
    Manifests = {ma, mb, mc}
    Conventions <- ThreeConventions
    Skipped = {}
    Human = {"emergency", "cadence"}
    SampleBudget = 1
    Edits = 2
    Processes = {p1, p2}
    Findings <- Seen
    Lockfiles <- LockfilesSeen
    Base = {2}
    Caches = {"none", "other", "pinned"}
    Accidents = 1
    BoundaryArgs <- TwoBoundaries
    Touches = 2
    Hosts <- Network
    Dotted = {}
    IssuerPlans <- Issuers
    MaxPods = 1
    IssuerLimit = 3
    Repositories = {"o/r", "p/s"}
    Called <- Workflows
    HomeOf <- InOr
    Refs = {"main", "pull"}
    TrustingPrograms <- ProgramsOfJobs
    Jobs <- TrustJobs
    Templates <- SubjectTemplates
    TrustHorizon = 1
    MaxSessions = 2
    TrustLimit = 3
    Groups <- GroupsOf
    GroupBits <- BitsOf
    ClusterPrograms <- EndpointPrograms
    EndpointHorizon = 1
    EndpointLimit = 3
    AwsNames = {"plain", "dotted"}
    ClusterNames = {"plain"}
    LabelKeys = {"k", "l"}
    Protected = {"k", "l"}
    LabelValues = {"v", "w"}
    LabelPrograms <- ProgramsOfLabels
    LabelPods <- PodsOfLabels
    Outside <- Strangers
    Life = 1
    ManagersShown = FALSE
    AuthorityLimit = 3
    Deliveries <- ThreeDeliveries
    Hardened = FALSE
    AllowUnsigned = TRUE
    Unlicensed = {"code_scanning_alert"}
    Ttl = 1
    Threshold = 2
    MaxQueueing = 1
    WebhookHorizon = 2
    MaxSecret = 2
    MaxArrivals = 3
INVARIANTS
    TypeOK
    TracksArePeoples
    ReviewsFindWhatIsNew
    HandedOutOnce
    WebhookSignalsAreExact
    AcceptedBoundariesAreContained
    UnknownsHideNothingKnown
    IssuersAreClosed
    TrustIsBounded
    EndpointsAreReachedAsDeclared
PROPERTIES
    NoFalseAllClear
    AuthorityIsExact
CHECK_DEADLOCK FALSE
