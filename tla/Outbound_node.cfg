CONSTANTS
    p1 = p1
    p2 = p2
    m1 = m1
    m2 = m2
    Pids <- MCPids
    NoPid = NoPid
    Mail <- MCMail
    MaxNr = 1
    MaxArc = 1
    MaxFaults = 1
SPECIFICATION FairSpec
CHECK_DEADLOCK FALSE
INVARIANTS
    Inv
    MailKept
PROPERTIES
    ImplementsLock
    MailSent
