\* Hourly runs only, one after the other; the operator extends a list or sorts the
\* tab; two faults of any kind that leaves the docs readable and told of an insert.
CONSTANTS
    a = a
    b = b
    c = c
    Hourly = h
    Lower <- InLowerCase
    Generic = {5}
    Crm <- CrmOfSecond
    Parties <- Mixed
    Title <- WeeklyTitle
    Date <- OwnDate
    Size <- LastTooLarge
    Chars <- LastTooLarge
    TitleAt <- TwoThenOne
    DateAt <- BehindTitle
    RuleAt <- FirstCharacter
    FirstLists <- OneDocEach
    Window = 2
    PageSize = 3
    BatchSize = 1
    Instances = {h}
    Labels = {0, 1, 2, 3, 4, 5, 6}
    Customers = {1, 2}
    Calls = {1, 2, 3, 4}
    Hour <- ThreeHours
    DocIds = {a, b, c}
    Cap = 6
    Routes <- Extension
    FirstRows <- TwoRows
    EditKinds = {"list", "sort"}
    FaultKinds = {"partitions", "mapping", "items", "download", "count", "append",
                  "delete", "calls", "details", "transcript", "enqueue",
                  "sheet", "missed", "crash"}
    MaxFaults = 2
    MaxBackfills = 0
    MaxEdits = 1
    MaxHour = 4
SPECIFICATION FairSpec
INVARIANTS LookbackCovers OncePerCall CapRespected
PROPERTIES StuckIsReported DatesCatchUp
