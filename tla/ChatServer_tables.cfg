SPECIFICATION Spec
CONSTANTS
    Servers = {"me"}
    Me = "me"
    Sysop = "sys"
    Names = {"ann", "sys"}
    Nicks = {"ann", "sys"}
    Channels = {"#sysop", "#a", "#long", "#long2"}
    Cut <- CutLong
    MaxUsr = 2
    MaxChn = 2
    Pids = {p1, p2}
    NoPid = NoPid
SYMMETRY PidSymmetry
INVARIANTS Inv CountsExact CountsAddUp UsersCounted
PROPERTY OnlySysopCreates
CHECK_DEADLOCK FALSE
