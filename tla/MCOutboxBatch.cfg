CONSTANTS
    p = p
    q = q
    r = r
    a = a
    b = b
    Missing = Missing
    Path = {p, q, r}
    Text = {a, b}
    Writer = {w1, w2}
    Jobs <- BatchJobs
    InitialFile <- FilesThere
    Capacity = 3
    MaxIntent = 2
    MaxEdit = 0
    MaxFault = 1
SPECIFICATION FairSpec
INVARIANTS
    
    WrittenIsRecorded
 
