SPECIFICATION ExportSpec
CONSTANTS
    Clerks = {c1}
    MaxDocs = 2
    MaxRecs = 1
    MaxRev = 1
    MaxFaults = 1
INVARIANTS
    ConfirmedIsIn1C
    DuplicateOnlyIfLost
PROPERTIES
    KeepsPromise
CHECK_DEADLOCK FALSE
