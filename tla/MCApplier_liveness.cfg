SPECIFICATION FairSpec
CONSTANTS
    c1 = c1
    c2 = c2
    b1 = b1
    b2 = b2
    b3 = b3
    i1 = i1
    i2 = i2
    Client = {c1, c2}
    NoClient = NoClient
    Bundle <- OneBundle
    NoBundle = NoBundle
    Id = {i1}
    Digest = {1}
    MaxUnits = 2
    IdOf <- OneIdOf
    UpSql <- OneUpSql
    Units <- OneUnits
    UnitSql <- OneUnitSql
    Transactional <- OneTransactional
    Statements <- OneStatements
    MaxRisk <- OneMaxRisk
    FormatVersion <- OneFormatVersion
    Source <- OneSource
    HistoryLimit = 1
PROPERTIES
    LockReleased
    RetriesSettle
