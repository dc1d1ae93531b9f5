SPECIFICATION RingSpec
CONSTANTS
    Chatters = {p1, p2}
    Nobody = Nobody
    MaxMessages = 3
    MaxLines = 5
INVARIANTS RingInv
PROPERTY NeverBack
CHECK_DEADLOCK FALSE
