SPECIFICATION Spec
CONSTANTS
    Alphabet <- MCAlphabet
    Migrator = "r"
    Requests <- MCRequests
    Faults = 1
    Families = {"columns", "keys", "enums", "domains", "composites", "sequences", "routines",
                "guards", "views", "hidden", "renames", "schemas", "partitions", "ignore"}
INVARIANTS
    TypeOK
    NeverRejected
    Converged
    StableOrder
    DropsAreDestructive
    UnitsWell
    AcceptedWhole
PROPERTIES
    WrittenIsRead
    NothingLost
    ValidatedApart
    ScopeKept
    IgnoredKept
