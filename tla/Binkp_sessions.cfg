SPECIFICATION FairSpec
CONSTANTS
    Files = {"a", "b"}
    Owners <- MCOwners
    Blocks <- MCBlocks
    Kept <- MCKept
    MaxRoom = 4
    MaxBatch = 2
    MaxSession = 2
    MaxFaults = 1
    NoFile = NoFile
INVARIANT Inv
PROPERTIES ImplementsTransfer SessionEnds
CHECK_DEADLOCK FALSE
