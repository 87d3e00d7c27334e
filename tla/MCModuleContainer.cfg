SPECIFICATION MCSpec
CONSTANTS
    Run = {r1, r2}
    Key = {k1, k2}
    NoRun = NoRun
    MaxExec = 2
    MaxFault = 1
    
CHECK_DEADLOCK FALSE
INVARIANTS RunsIsolated CompletedIsTrue
PROPERTY RunEnds
