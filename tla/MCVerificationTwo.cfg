CONSTANTS
    Node = {n1}
    Version = {v1}
    NoVersion = NoVersion
    Worker = {w1, w2}
    Broken = {}
    MaxAttempts = 2
    MaxEvent = 6
    MaxRun = 2
    MaxFault = 1
SPECIFICATION Spec
SYMMETRY WorkerSymmetry
INVARIANT OneOwner
PROPERTY OutcomeStays
CHECK_DEADLOCK FALSE
