SPECIFICATION Spec
CONSTANTS
    Path <- MCFlat
    MaxMkdir = 3
    MaxRename = 0
    MaxWd = 3
    Root <- MCTop
    RecursiveRoot <- MCTop
    Client = {c1}
    Behaviours = {"overlap"}
    c1 = c1
INVARIANT NoLeak
CHECK_DEADLOCK FALSE
