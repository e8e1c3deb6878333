SPECIFICATION FairSpec
CONSTANTS
    p1 = p1
    p2 = p2
    Profile = {p1}
    None = None
    Input <- SavesInput
    MaxQueue = 1
    MaxMade <- SavesMade
    MaxWorkers = 2
INVARIANTS
    ArtifactsMatch
PROPERTIES
    ApplyEnds
