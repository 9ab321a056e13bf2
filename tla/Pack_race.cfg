\* Three compilers with different configurations, and a fault.
SPECIFICATION Spec
CONSTANTS
    Proc = {p1, p2, p3}
    Config <- MCRaceConfig
    Hash = {h1, h2}
    Null = Null
    Empty = Empty
    Torn = Torn
    Inode = {1, 2, 3, 4, 5}
    NoInode = NoInode
    Posix = TRUE
    MaxSync = 4
    MaxFault = 1
    n1 = n1
    n2 = n2
    l1 = l1
SYMMETRY Permuted
INVARIANTS
    TypeOK
    ReturnCurrent
    NoLitter
    QuietPack
    SoloCurrent
    PackInv
PROPERTY
    AtomicPack
