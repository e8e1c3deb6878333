SPECIFICATION Spec
CONSTANTS
    p1 = p1
    p2 = p2
    Profile = {p1}
    None = None
    Input <- ReadsInput
    MaxQueue = 1
    MaxMade <- ReadsMade
    MaxWorkers = 1
INVARIANTS
    ReadsAndApplyApart
