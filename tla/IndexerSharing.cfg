SPECIFICATION Spec
CONSTANTS
    Instances = {i1, i2}
    Nobody = Nobody
    MaxJobs = 2
    NumRanges = 2
    RangeSize = 2
    MaxAcquired = 1
    MaxTries = 1
    MaxRetries = 0
    MaxAttempts = 2
    Scenarios <- MCSharing
INVARIANTS TypeOK CompletedIsIndexed ProgressIsReached OneHandPerRange 
SYMMETRY MCSymmetry
CHECK_DEADLOCK FALSE
