SPECIFICATION FairSpec
CONSTANTS
    Thread = {main, client}
    Timer = {t2}
    main = main
    client = client
    t2 = t2
    Starter = {main}
    Repeating = {t2}
    Timeouts = {1}
    MaxWait = 2
    MaxTime = 3
    Faults = {"eintr", "throw"}
PROPERTIES StopEndsLoop DueIsServiced
