\* Two callers and a migration around one file; fair scheduling.
SPECIFICATION LiveSpec
CONSTANTS
    c1 = c1
    c2 = c2
    Callers = {c1, c2}
    Migrator = Migrator
    Unrecorded = Unrecorded
    InitialFiles <- FewFiles
    SignalSets <- FewSignals
    Thresholds = {"low"}
    Ttl = 0
    MaxDisturbances = 2
INVARIANTS
    TypeOK
    ConfidenceIsKept
PROPERTIES
    EveryCallReturns
