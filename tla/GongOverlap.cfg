\* An hourly run and a full backfill overlap; the operator replaces a list; one fault.
CONSTANTS
    a = a
    b = b
    c = c
    Hourly = h
    Lower <- InLowerCase
    Generic = {5}
    Crm <- CrmOfSecond
    Parties <- Mixed
    Title <- WeeklyTitle
    Date <- OwnDate
    Size <- FirstIsLarge
    Chars <- FirstIsLarge
    TitleAt <- TwoThenOne
    DateAt <- BehindTitle
    RuleAt <- FirstCharacter
    FirstLists <- OneDocEach
    Window = 1
    PageSize = 2
    BatchSize = 1
    Instances = {h, f}
    Labels = {0, 1, 2, 3, 4, 5, 6}
    Customers = {1, 2}
    Calls = {1, 2, 3, 4}
    Hour <- OneHour
    DocIds = {a, b, c}
    Cap = 5
    Routes <- Replacement
    FirstRows <- OneRow
    EditKinds = {"list"}
    FaultKinds = {"append", "appendReply", "delete", "read", "crash"}
    MaxFaults = 1
    MaxBackfills = 1
    MaxEdits = 1
    MaxHour = 1
SPECIFICATION Spec
INVARIANTS TypeOK SeenIsWritten KeptApart DatesAreWritten
PROPERTIES ImplementsDelivery
