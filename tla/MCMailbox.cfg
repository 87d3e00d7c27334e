CONSTANTS
    Message = {m1, m2, m3}
    Target = {tA}
    TargetOf <- OneTarget
    Consumer = {c1, c2}
    NoConsumer = NoConsumer
    Capacity = 2
    LeaseSeconds = 1
    RetryBase = 1
    RetryMax = 1
    FloatRange = 1
    BusyWait = 1
    MaxTime = 2
    MaxAttempt = 2
SYMMETRY Symmetry
SPECIFICATION Spec
INVARIANTS
    TypeOK
    LeaseExclusion
    AckedOnce
    
PROPERTY ImplementsQueue
