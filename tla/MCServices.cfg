SPECIFICATION MCSpec
CONSTANTS
    Path = {f1}
    Scanner = {s1, s2}
    Dynamic = {1}
    MaxEdit = 1
    MaxAnn = 2
    MaxRun = 2
    MaxFault = 1
    Node = {n1, n2}
    Root = root
    Coordinator = {c1, c2}
    MaxOp = 4
    MaxWait = 2
    MaxRestart = 1
    Opener = {o1, o2}
    Mail = {m1}
    MaxOpenFault = 2
    Command = {"cmd"}
    Handler = {"handler"}
    Search = {"search"}
    Unknown = {}
    Denied = {"handler"}
    NonRetryableMax = 1
    RetryableMax = 2
    TimeoutMax = 1
    CommandMax = 2
    Deadline = 1
    MaxCall = 3
    MaxRound = 3
    RawFile <- Files
    TestCommand <- Tests
    Plain = {"a", "b", "l"}
    Link = {"l"}
    MaxSegment = 3
    MaxNodeEdit = 2
    PatchRequest <- PatchRequests
INVARIANTS  PlanSound MigrationSafe TurnSound OnlyDeclared PatchIsExact
PROPERTIES StepsKeep 
CHECK_DEADLOCK FALSE
