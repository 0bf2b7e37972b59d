SPECIFICATION FairExportSpec
CONSTANTS
    Clerks = {c1, c2}
    MaxDocs = 1
    MaxRecs = 2
    MaxRev = 2
    MaxFaults = 2
INVARIANTS
    DocTypeOK
    NoOrphanRecord
    ExportTypeOK
    OneCopyPerFault
    RecordTwiceOnlyIfLost
    SettledSentWhole
PROPERTIES
    EveryDocumentSent
    SettledIsFinal
    MarkedWasSentOrLate
CHECK_DEADLOCK FALSE
