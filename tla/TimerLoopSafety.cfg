SPECIFICATION Spec
CONSTANTS
    Thread = {main, client}
    Timer = {t1, t2}
    main = main
    client = client
    t1 = t1
    t2 = t2
    Starter = {main}
    Repeating = {t2}
    Timeouts = {1, 2}
    MaxWait = 2
    MaxTime = 2
    Faults = {"eintr", "throw"}
INVARIANTS TypeOK Registered NoOversleep StopIsHeard
