CONSTANTS
    Procs = {p1, p2, p3}
    MaxClient = 4
SPECIFICATION FairListSpec
CHECK_DEADLOCK FALSE
INVARIANTS
    ListInv
PROPERTIES
    ScanEnds
