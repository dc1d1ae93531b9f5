SPECIFICATION Spec
CONSTANTS
    Servers = {"me"}
    Me = "me"
    Sysop = "sys"
    Names = {"ann", "sys"}
    Nicks = {"ann", "sys"}
    Channels = {"#sysop"}
    Cut <- CutNothing
    MaxUsr = 2
    MaxChn = 2
    Pids = {p1, p2}
    NoPid = NoPid
SYMMETRY PidSymmetry
INVARIANT DaemonSurvives
CHECK_DEADLOCK FALSE
