SPECIFICATION Spec
CONSTANTS
    Instances = {i1, i2}
    Nobody = Nobody
    MaxJobs = 2
    NumRanges = 2
    RangeSize = 2
    MaxAcquired = 2
    MaxTries = 1
    MaxRetries = 1
    MaxAttempts = 2
    Scenarios <- MCTail
INVARIANTS NoRangeAbandoned
CHECK_DEADLOCK FALSE
