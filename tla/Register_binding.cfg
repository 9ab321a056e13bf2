\* The name of `if var n = f()' is declared nowhere the body can see.
SPECIFICATION Spec
CONSTANTS
    Name = {a}
    NoName = NoName
    FlatCap0 = 4
    Kinds = {"If", "Return"}
    PatternKinds = {"Enum", "Var", "Let"}
    Exprs <- MCExprs
    MaxStmt = 2
    MaxIter = 0
INVARIANTS
    PatternVisible
