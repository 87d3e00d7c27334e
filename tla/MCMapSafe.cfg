CONSTANTS
    Message = {m1, m2}
    BatchSize = 2
    MaxInst = 4
    MaxCrash = 1
    MaxRetry = 1
    MaxStrand = 1
SPECIFICATION Spec
INVARIANTS
    TypeOK
    AppliedOnce
    OneRuntime
    Covered
CHECK_DEADLOCK FALSE
