\* Three Node names, of which a cycle may list two; some of them possibly free;
\* the admission binding is in force; fair scheduling.
SPECIFICATION Spec
CONSTANTS
    n1 = n1
    n2 = n2
    n3 = n3
    i1 = i1
    i2 = i2
    a1 = a1
    a2 = a2
    z1 = z1
    m5 = m5
    Names = {n1, n2, n3}
    NoNode = NoNode
    Instances = {i1, i2}
    NoInstance = NoInstance
    Zones = {z1}
    NoZone = NoZone
    RegionZones = {z1}
    Trusted = Trusted
    Labels = {Trusted, Other}
    Other = Other
    Absent = Absent
    NodeGroup = NodeGroup
    Account = Account
    Region = Region
    AllowedTypes = {m5}
    ExpectedTaints <- MCTaints
    LongNames = {}
    MaxAge = 1
    MaxSkew = 1
    Metas <- MCMetas
    NoValue = NoValue
    Facts <- MCFacts
    Asgs = {a1}
    NodeWorlds <- ThreeNames
    CloudWorlds <- TwoWanted
    MaxNodes = 2
    PolicyBinding = TRUE
    MaxDisturbances = 2
    NoEvidence = NoEvidence
    NoPlan = NoPlan
    NoSample = NoSample
INVARIANTS
    CleanReportIsEarned
    MissingCountsNodesOnce
PROPERTIES
    AttestedNodesBecomeTrusted
    TrustDoesNotOutliveProof
    UntrustedNodesAreReported
