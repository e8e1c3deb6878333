SPECIFICATION FairSpec
CONSTANTS
    Node = {1, 2, 3, 4}
    Key <- MCKey
    NodeSets <- MCNodeSets
    Repeats = 1
INVARIANTS
    TypeOK
    PrerequisitesFirst
    AnswerRight
    CyclesNamed
    ReleaseOrder
PROPERTIES
    Terminates
CHECK_DEADLOCK FALSE
