\* Requests one after the other, at two instances: repeated backfills from either
\* oldest argument, drains, crashes, and faults that leave the docs readable, the
\* mapping at hand and no insertion in doubt.
CONSTANTS
    a = a
    b = b
    c = c
    Instances = {i1, i2}
    Pace = "spaced"
    Channels = {1, 2}
    Channel <- LastTwoInSecond
    Messages = {1, 2, 3, 4, 5}
    Live = {}
    DocIds = {a, b, c}
    Size <- TightSize
    Chars <- TightSize
    HeaderEnd <- TwoForHeader
    Key <- SharedHeader
    Cap = 5
    Routes <- Extension
    FirstRoutes <- OneDoc
    OldestArgs = {0, 2}
    FaultKinds = {"history", "append", "enqueue", "download", "delete", "count", "crash"}
    MaxFaults = 2
    MaxBackfills = 3
    MaxEdits = 1
    MaxClock = 2
SYMMETRY InstanceSymmetry
SPECIFICATION Spec
INVARIANTS CapRespected OncePerHeader KeptApart DrainFIFO NothingTorn
