\* Two instances, a webhook, a backfill and drains at once, an edit of the row and
\* every kind of fault but a failing enqueue.
CONSTANTS
    a = a
    b = b
    c = c
    Instances = {i1, i2}
    Pace = "any"
    Channels = {1}
    Channel <- LastInSecond
    Messages = {1, 2, 3}
    Live = {3}
    DocIds = {a, b}
    Size <- FirstIsLarge
    Chars <- FirstIsLarge
    HeaderEnd <- TwoForHeader
    Key <- OwnHeader
    Cap = 5
    Routes <- AnyList
    FirstRoutes <- OneDoc
    OldestArgs = {0}
    FaultKinds = {"mapping", "read", "history", "items", "append", "appendReply",
                  "download", "delete", "count", "crash", "delivery"}
    MaxFaults = 1
    MaxBackfills = 1
    MaxEdits = 1
    MaxClock = 2
SYMMETRY InstanceSymmetry
SPECIFICATION Spec
INVARIANTS TypeOK BufferedDurable SeenIsWritten FinishedCovers 
PROPERTIES ImplementsDelivery
