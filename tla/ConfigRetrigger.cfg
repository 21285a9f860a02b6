SPECIFICATION FairSpec
CONSTANTS
    d1 = d1
    d2 = d2
    Docs = {d1, d2}
    NoDoc = NoDoc
    Keys = {"c1", "c2"}
    Instances = {i1}
    Pace = "any"
    FirstSheet <- NewCustomer
    EditKinds = {}
    FaultKinds = {"connection"}
    MaxFaults = 1
    MaxEdits = 0
PROPERTIES
    Retriggered
