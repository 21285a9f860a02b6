\* Liveness: one customer is new, two overlapping runs, an edit, and one call or
\* instance fails.
SPECIFICATION FairSpec
CONSTANTS
    d1 = d1
    d2 = d2
    Docs = {d1, d2}
    NoDoc = NoDoc
    Keys = {"c1"}
    Instances = {i1, i2}
    Pace = "any"
    FirstSheet <- NewCustomer
    EditKinds = {"doc"}
    FaultKinds = {"connection", "load", "save", "saveReply", "crash"}
    MaxFaults = 1
    MaxEdits = 1
INVARIANTS
    TypeOK
    DoneWasDispatched
PROPERTIES
    MappingFollowsSheet
    DrainKeepsComing
    Onboarded
