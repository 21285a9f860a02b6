\* The operator extends the list instead, as the runbook says: the queue stays.
CONSTANTS
    a = a
    b = b
    c = c
    Instances = {i1}
    Pace = "any"
    Channels = {1}
    Channel <- LastInSecond
    Messages = {1, 2, 3}
    Live = {3}
    DocIds = {a, b}
    Size <- UnitSize
    Chars <- UnitSize
    HeaderEnd <- TwoForHeader
    Key <- OwnHeader
    Cap = 4
    Routes <- Extension
    FirstRoutes <- OneDoc
    OldestArgs = {0}
    FaultKinds = {}
    MaxFaults = 0
    MaxBackfills = 1
    MaxEdits = 1
    MaxClock = 1
SPECIFICATION FairSpec
PROPERTIES RoomDrains
