\* Every statement and every shape of expression, two statements at a time.
SPECIFICATION Spec
CONSTANTS
    Name = {a}
    NoName = NoName
    FlatCap0 = 2
    Kinds <- StmtTags
    PatternKinds = {"Enum", "Var", "Let"}
    Exprs <- MCAllExprs
    MaxStmt = 2
    MaxIter = 2
INVARIANTS
    TypeOK
    FlatInBounds
    RefsResolve
    SourceOrder
    WalkInv
    StatementsRegistered
