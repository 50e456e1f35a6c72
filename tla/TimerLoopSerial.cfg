SPECIFICATION Spec
CONSTANTS
    Thread = {main, client}
    Timer = {t1, t2}
    main = main
    client = client
    t1 = t1
    t2 = t2
    Starter = {main, client}
    Repeating = {}
    Timeouts = {1}
    MaxWait = 2
    MaxTime = 2
    Faults = {}
INVARIANT SerialCallbacks
