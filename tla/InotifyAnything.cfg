SPECIFICATION Spec
CONSTANTS
    Path <- MCFlat
    MaxMkdir = 2
    MaxRename = 1
    MaxWd = 2
    Root <- MCBoth
    RecursiveRoot <- MCTop
    Client = {c1}
    Behaviours = {"overlap", "rename", "rootGone", "strayRemove", "recreated"}
    c1 = c1
INVARIANTS PathsLeadBack KernelKnown
CHECK_DEADLOCK FALSE
