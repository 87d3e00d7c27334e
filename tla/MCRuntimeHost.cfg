SPECIFICATION Spec
CONSTANTS
    Type = {"workspace_path", "network"}
    Action = {"read", "write"}
    Key = {"path"}
    PathKey = "path"
    Value = {"src", "src/a", "src/a/b", "doc"}
    NoValue = NoValue
    Inside <- MCInside
    Capability = {"run"}
    MaxBudget = 1
    ParentGrant <- MCParentGrant
    ChildGrants <- MCChildGrants
    Parent = {p1, p2}
    Child = {c1}
    None = None
    MaxFault = 1
CHECK_DEADLOCK FALSE
INVARIANTS RegistryIntact StoppedIsQuiet NoEscalation
PROPERTIES DestroyEnds
