SPECIFICATION Spec
CONSTANTS
    Path <- MCTree
    MaxMkdir = 3
    MaxRename = 0
    MaxWd = 3
    Root <- MCBoth
    RecursiveRoot <- MCBoth
    Client = {c1}
    Behaviours = {}
    c1 = c1
INVARIANTS TypeOK TablesAgree NoLeak Covered
CHECK_DEADLOCK FALSE
