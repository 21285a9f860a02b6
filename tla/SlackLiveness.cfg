\* Liveness: backfills fill the doc of channel 1, whose list the operator may extend,
\* replace or take out; a webhook brings channel 2 a message that fits in no doc; one
\* call fails.  The hourly drain must empty each queue or alert.
CONSTANTS
    a = a
    b = b
    c = c
    Instances = {i1}
    Pace = "any"
    Channels = {1, 2}
    Channel <- LastInSecond
    Messages = {1, 2, 3, 4}
    Live = {4}
    DocIds = {a, b, c}
    Size <- LastTooLarge
    Chars <- LastTooLarge
    HeaderEnd <- TwoForHeader
    Key <- OwnHeader
    Cap = 4
    Routes <- AnyEdit
    FirstRoutes <- OneDoc
    OldestArgs = {0}
    FaultKinds = {"mapping", "items", "append", "count", "download", "delete", "crash"}
    MaxFaults = 1
    MaxBackfills = 2
    MaxEdits = 1
    MaxClock = 2
SPECIFICATION FairSpec
PROPERTIES DrainedOrAlerted ListRoomDrains
