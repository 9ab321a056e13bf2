\* Branches, loops and declarations nested in functions, registered and lowered.
SPECIFICATION LowerSpec
CONSTANTS
    Name = {a}
    NoName = NoName
    FlatCap0 = 4
    Kinds = {"Function", "If", "Elif", "Match", "Return", "Let", "Struct", "ExprStmt"}
    PatternKinds = {}
    Exprs <- MCExprs
    MaxStmt = 3
    MaxIter = 1
INVARIANTS
    LoweringOK
    BlocksComplete
    ScopeFaithful
    ParamsOwn
PROPERTIES
    LoweringOnlyAdds
    LowerEnds
