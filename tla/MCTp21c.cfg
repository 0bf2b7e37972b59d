SPECIFICATION FairSpec
CONSTANTS
    Kernels = {k1, k2}
    s1 = s1
    s2 = s2
    s3 = s3
    Steps <- MCSteps
    StepsOf <- MCStepsOf
    MaxFaults = 2
INVARIANTS
    TypeOK
    OneSyncAtATime
    StepsOfOneMode
    IdleIsFree
PROPERTIES
    SyncEnds
    ModeIsFollowed
