\* Two names declared again and again in nested scopes, by functions, classes
\* and their methods, variables and loops.
SPECIFICATION Spec
CONSTANTS
    Name = {a, b}
    NoName = NoName
    FlatCap0 = 4
    Kinds = {"Function", "Class", "Var", "For"}
    PatternKinds = {"Enum", "Var", "Let"}
    Exprs <- MCAtoms
    MaxStmt = 3
    MaxIter = 2
SYMMETRY Permuted
INVARIANTS
    NameTableOK
    OwnerSound
    OwnerCurrent
    MethodNamesOwn
PROPERTIES
    BindingsStable
    ResolutionStable
