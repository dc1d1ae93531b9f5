SPECIFICATION Spec
CONSTANTS
    Procs = {1, 2}
    Plans <- MCPlans
    MaxMsgs = 4
    Wrap = 100
INVARIANTS
    IndexSound
    MessagesKept
    NothingSkipped
CHECK_DEADLOCK FALSE
