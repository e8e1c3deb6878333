SPECIFICATION Spec
CONSTANTS
    Alphabet <- MCAlphabet
    Migrator = "r"
    Requests <- MCRequests
    Faults = 0
    Families = {"moves"}
INVARIANTS
    NeverRejected
