SPECIFICATION Spec
CONSTANTS
    p1 = p1
    p2 = p2
    Profile = {p1, p2}
    None = None
    Input <- ProfilesInput
    MaxQueue = 1
    MaxMade <- ProfilesMade
    MaxWorkers = 2
SYMMETRY MCSymmetry
INVARIANTS
    TypeOK
    ArtifactsMatch
    CancelReaches
PROPERTIES
    ApplyRight
