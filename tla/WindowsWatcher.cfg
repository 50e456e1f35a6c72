SPECIFICATION Spec
CONSTANTS
    Path <- MCPath
    Directory <- MCDirectory
    MaxHandle = 3
    MaxRecords = 2
    Root <- MCRoot
    RecursiveRoot <- MCRecursiveRoot
    Layout <- MCLayout
    Client = {c1}
    MaxInputs = 4
    MaxStarts = 2
    c1 = c1
INVARIANTS TypeOK WatchIsHeard BufferIsStable NoLeak WindowsMirror
CHECK_DEADLOCK FALSE
