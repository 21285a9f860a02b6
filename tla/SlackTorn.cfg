\* Two instances, no fault: a webhook arrives while a backfill runs.
CONSTANTS
    a = a
    b = b
    c = c
    Instances = {i1, i2}
    Pace = "any"
    Channels = {1}
    Channel <- LastInSecond
    Messages = {1, 2, 3}
    Live = {3}
    DocIds = {a}
    Size <- FirstIsLarge
    Chars <- FirstIsLarge
    HeaderEnd <- TwoForHeader
    Key <- OwnHeader
    Cap = 7
    Routes <- OnlyA
    FirstRoutes <- OneDoc
    OldestArgs = {0}
    FaultKinds = {}
    MaxFaults = 0
    MaxBackfills = 1
    MaxEdits = 0
    MaxClock = 1
SPECIFICATION Spec
INVARIANTS NothingTorn
