CONSTANTS
    Cols = 3
    PK = 1
    ColType <- MCColType
    SchemaNullable <- MCSchemaNullable
    RecordNullable <- MCSchemaNullable
    Vals = {0, 1}
    Stamps = {1}
    MaxRows = 2
    Null = Null
    NoneV = NoneV
SPECIFICATION Spec
INVARIANTS
    TypeOK
    ColumnsRoundTrip
    
