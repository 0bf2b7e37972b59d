SPECIFICATION DocSpec
CONSTANTS
    Clerks = {c1, c2}
    MaxDocs = 2
    MaxRecs = 2
    MaxRev = 2
CHECK_DEADLOCK FALSE
PROPERTIES ClosedIsFrozen
