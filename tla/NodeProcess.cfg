CONSTANTS
    worker = worker
    main = main
    app1 = app1
    app2 = app2
    n1 = n1
    n2 = n2
    b1 = b1
    b2 = b2
    None = None
    Loop = main
    Apps = {app1, app2}
    MaxJobs = 1
    Threads = {main, worker}
    Nodes = {n1, n2}
    Pairs = {b1, b2}
    CacheEntries = 1
    MaxValue = 1
    MaxSection = 2
    MaxCalls = 3
SPECIFICATION ProcessSpec
INVARIANTS NoStaleValue BalancesOfSection NodeOutlivesUsers
PROPERTY CallsReturn
CHECK_DEADLOCK FALSE
