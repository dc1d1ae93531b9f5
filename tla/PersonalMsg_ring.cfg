CONSTANTS
    RB = 3
    MaxSent = 9
SPECIFICATION Spec
INVARIANTS
    Inv
PROPERTIES
    ImplementsFifo
