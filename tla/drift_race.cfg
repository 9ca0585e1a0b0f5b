\* Two callers, nothing else happens.
SPECIFICATION LiveSpec
CONSTANTS
    c1 = c1
    c2 = c2
    Callers = {c1, c2}
    Migrator = Migrator
    Unrecorded = Unrecorded
    InitialFiles <- NoFile
    SignalSets <- FewSignals
    Thresholds = {"low"}
    Ttl = 0
    MaxDisturbances = 0
INVARIANTS
    HighIsNotDemoted
