CONSTANTS
    p = p
    q = q
    r = r
    a = a
    b = b
    Missing = Missing
    Path = {p}
    Text = {a, b}
    Writer = {w1, w2}
    Jobs <- SingleJobs
    InitialFile <- FilesThere
    Capacity = 2
    MaxIntent = 3
    MaxEdit = 1
    MaxFault = 2
SPECIFICATION Spec
SYMMETRY WriterSymmetry
INVARIANTS
    OnePathOneChange
    EventIffChange
