SPECIFICATION Spec
CONSTANTS
    Kernels = {k1, k2}
    s1 = s1
    s2 = s2
    s3 = s3
    Steps <- MCSteps
    StepsOf <- MCStepsOf
    MaxFaults = 1
INVARIANTS
    GuardMeansSync
