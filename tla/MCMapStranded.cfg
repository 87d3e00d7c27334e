CONSTANTS
    Message = {m1}
    BatchSize = 2
    MaxInst = 4
    MaxCrash = 0
    MaxRetry = 0
    MaxStrand = 1
SPECIFICATION FairSpec
PROPERTY Drained
CHECK_DEADLOCK FALSE
