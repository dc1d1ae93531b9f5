CONSTANTS
    Pids = {p1, p2}
    MaxClient = 3
    NoPid = NoPid
SPECIFICATION FairSpec
INVARIANTS
    TypeOK
    CountersExact
    Connected
    KillAfterTerm
PROPERTIES
    LostClientsGo
