\* A return inside an if is in a scope without owner: it gets no function.
SPECIFICATION Spec
CONSTANTS
    Name = {a}
    NoName = NoName
    FlatCap0 = 4
    Kinds = {"Function", "If", "Return"}
    PatternKinds = {"Enum", "Var", "Let"}
    Exprs <- MCAtoms
    MaxStmt = 3
    MaxIter = 0
INVARIANTS
    ReturnHasFunction
