\* One caller at a time, every answer of the adapters and of the probe.
SPECIFICATION Spec
CONSTANTS
    c1 = c1
    c2 = c2
    Callers = {c1}
    Migrator = Migrator
    Unrecorded = Unrecorded
    InitialFiles <- AnyFile
    SignalSets <- Signals
    Thresholds = {"low", "high"}
    Ttl = 1
    MaxDisturbances = 3
INVARIANTS
    StoredVerdictsAreSupported
    LegacyOutlivesMigration
PROPERTIES
    ServedEvidenceIsFresh
