\* register_stmt has no case for the else clause.
SPECIFICATION Spec
CONSTANTS
    Name = {a}
    NoName = NoName
    FlatCap0 = 4
    Kinds = {"If", "Return"}
    PatternKinds = {"Enum", "Var", "Let"}
    Exprs <- MCAtoms
    MaxStmt = 2
    MaxIter = 0
INVARIANTS
    ElseRegistered
