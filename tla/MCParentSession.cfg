SPECIFICATION Spec
CONSTANTS
    MaxTurn = 2
    MaxGen = 2
    MaxFault = 1
    MaxCrash = 1
    RecentWindow = 1
INVARIANTS
    SettledOnce
    ContextKept
PROPERTIES
    InputServed
CHECK_DEADLOCK FALSE
