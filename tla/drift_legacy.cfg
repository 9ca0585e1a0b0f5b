\* One caller finds a v1 file.
SPECIFICATION LiveSpec
CONSTANTS
    c1 = c1
    c2 = c2
    Callers = {c1}
    Migrator = Migrator
    Unrecorded = Unrecorded
    InitialFiles <- LegacyFile
    SignalSets <- FewSignals
    Thresholds = {"low"}
    Ttl = 0
    MaxDisturbances = 0
PROPERTIES
    BackupComesFirst
