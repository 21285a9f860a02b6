SPECIFICATION Spec
CONSTANTS
    d1 = d1
    d2 = d2
    Docs = {d1, d2}
    NoDoc = NoDoc
    Keys = {"c1", "c2"}
    Instances = {i1}
    Pace = "any"
    FirstSheet <- NewCustomer
    EditKinds = {}
    FaultKinds = {}
    MaxFaults = 0
    MaxEdits = 0
INVARIANTS
    DoneWasBackfilled
