SPECIFICATION FairSpec
CONSTANTS
    MaxTasks = 3
    PauseTime = 2
    TossWait = 1
    MaxTcp = 1
    Lines = 1
    Compilers = 2
    RegDelay = 1
    Asked = {"mailout", "mailin", "index", "msglink"}
    MaxAsks = 2
    MaxCalls = 1
    MaxIncoming = 1
INVARIANTS Inv MailinWaits
PROPERTIES IdleAlone MailinAlone Served
CHECK_DEADLOCK FALSE
