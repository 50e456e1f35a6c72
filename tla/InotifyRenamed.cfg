SPECIFICATION Spec
CONSTANTS
    Path <- MCFlat
    MaxMkdir = 2
    MaxRename = 1
    MaxWd = 3
    Root <- MCTop
    RecursiveRoot <- MCTop
    Client = {c1}
    Behaviours = {"rename"}
    c1 = c1
INVARIANT Covered
CHECK_DEADLOCK FALSE
