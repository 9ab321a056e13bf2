\* Two compilers where rename does not replace a file, and a fault; every sync
\* that is not killed ends.  No symmetry: SyncEnds is a liveness property.
SPECIFICATION FairSpec
CONSTANTS
    Proc = {p1, p2}
    Config <- MCConfig
    Hash = {h1, h2}
    Null = Null
    Empty = Empty
    Torn = Torn
    Inode = {1, 2, 3, 4}
    NoInode = NoInode
    Posix = FALSE
    MaxSync = 3
    MaxFault = 1
    n1 = n1
    n2 = n2
    l1 = l1
PROPERTIES
    AtomicPack
    SyncEnds
