SPECIFICATION ExportSpec
CONSTANTS
    Clerks = {c1}
    MaxDocs = 1
    MaxRecs = 1
    MaxRev = 1
    MaxFaults = 0
INVARIANTS
    OnlyClosedDocsSent
CHECK_DEADLOCK FALSE
