SPECIFICATION FairSpec
CONSTANTS
    Nodes = {a, b}
    Homes = {a}
    Tokens = {1, 2, 3, 4}
    HalfDead = 2
    Pings = 3
    MaxFaults = 2
    MaxLogins = 1
INVARIANTS Inv NoGhosts DiesOfFaultsOnly Agreement
PROPERTY Relinked
