SPECIFICATION Spec
CONSTANTS
    Path <- MCPath
    Directory <- MCDirectory
    MaxFd = 8
    Root <- MCRoot
    RecursiveRoot <- MCRecursiveRoot
    Layout <- MCLayout
    Client = {c1}
    MaxChanges = 2
    MaxAdds = 2
    MaxStarts = 1
    c1 = c1
INVARIANTS TypeOK FdsAgree NoLeak PendingIsHeard StopIsHeard KqMirror StreamMirror
CHECK_DEADLOCK FALSE
