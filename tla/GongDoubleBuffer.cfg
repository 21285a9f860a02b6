\* Hourly runs, no fault: a full doc and one call that two hours look back on.
CONSTANTS
    a = a
    b = b
    c = c
    Hourly = h
    Lower <- InLowerCase
    Generic = {5}
    Crm <- CrmOfSecond
    Parties <- Mixed
    Title <- WeeklyTitle
    Date <- OwnDate
    Size <- FirstIsLarge
    Chars <- FirstIsLarge
    TitleAt <- TwoThenOne
    DateAt <- BehindTitle
    RuleAt <- FirstCharacter
    FirstLists <- OneDocEach
    Window = 2
    PageSize = 2
    BatchSize = 1
    Instances = {h}
    Labels = {0, 1, 2, 3, 4, 5, 6}
    Customers = {1}
    Calls = {1}
    Hour <- OneHour
    DocIds = {a}
    Cap = 0
    Routes <- NoEdit
    FirstRows <- OneRow
    EditKinds = {}
    FaultKinds = {}
    MaxFaults = 0
    MaxBackfills = 0
    MaxEdits = 0
    MaxHour = 2
SPECIFICATION Spec
INVARIANTS NeverDoubleBuffered
