\* Runs one after the other, at two instances, one call or instance failing, and two
\* edits of rows or flags.
SPECIFICATION Spec
CONSTANTS
    d1 = d1
    d2 = d2
    Docs = {d1}
    NoDoc = NoDoc
    Keys = {"c1", "c2"}
    Instances = {i1, i2}
    Pace = "spaced"
    FirstSheet <- OneDoneOneNew
    EditKinds = {"append", "duplicate", "insert", "remove", "flag"}
    FaultKinds = {"sheet", "save", "saveReply", "lost", "connection", "mark", "crash"}
    MaxFaults = 1
    MaxEdits = 2
SYMMETRY InstanceSymmetry
INVARIANTS
    PublishedFirst
    DispatchedOnce
