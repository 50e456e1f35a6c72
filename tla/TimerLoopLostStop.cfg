SPECIFICATION FairSpec
CONSTANTS
    Thread = {main, client}
    Timer = {t1}
    main = main
    client = client
    t1 = t1
    Starter = {main}
    Repeating = {}
    Timeouts = {1}
    MaxWait = 1
    MaxTime = 1
    Faults = {}
PROPERTY StopReturnsStart
