CONSTANTS
    p1 = p1
    p2 = p2
    p3 = p3
    Procs <- MCProcs
    NoProc = NoProc
SPECIFICATION FairDirSpec
INVARIANTS
    DirTypeOK
    ExclusiveUnlessRaced
PROPERTIES
    ImplementsLock
    LockdirReturns
