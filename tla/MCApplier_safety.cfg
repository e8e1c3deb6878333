SPECIFICATION Spec
CONSTANTS
    c1 = c1
    c2 = c2
    b1 = b1
    b2 = b2
    b3 = b3
    i1 = i1
    i2 = i2
    Client = {c1, c2}
    NoClient = NoClient
    Bundle <- MCBundle
    NoBundle = NoBundle
    Id = {i1, i2}
    Digest = {1, 2, 3}
    MaxUnits = 2
    IdOf <- MCIdOf
    UpSql <- MCUpSql
    Units <- MCUnits
    UnitSql <- MCUnitSql
    Transactional <- MCTransactional
    Statements <- MCStatements
    MaxRisk <- MCMaxRisk
    FormatVersion <- MCFormatVersion
    Source <- MCSource
    HistoryLimit = 2
SYMMETRY MCSymmetry
INVARIANTS
    TypeOK
    MarkerTruth
    AppliedPrefix
    RunStatusTruth
    LocalCountExact
    ReportTruth
PROPERTIES
    DoubtIsKept
    ContentPinned
    ForeignSchemaUntouched
    ImplementsProgress
