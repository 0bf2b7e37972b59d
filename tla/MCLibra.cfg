SPECIFICATION FairSpec
CONSTANTS
    Drivers = {"DIGI_SM", "VPM", "TigerD", "VP", "LP"}
    Goods <- MCGoods
    FileLists <- MCFileLists
    LineLists <- MCLineLists
    Strays <- MCStrays
    Number = 28
    Prefix = 28
    NoTovar = NoTovar
    MaxFaults = 2
    RoundedUp = {2675}
    PrintedUp = {}
INVARIANTS
    TypeOK
    DigiFileReads
    VpmFileReads
    TigerFileReads
    LineRecordReads
    ReportedIsStored
    NothingSkipped
    GivenBack
PROPERTIES
    LoadEnds
