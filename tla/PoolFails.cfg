SPECIFICATION FairSpec
CONSTANTS
    Clients = {c1, c2, c3, c4, c5}
    Threads = {t1, t2, t3, t4, t5}
    None = None
    VpCount = 2
    SkCount = 1
    OptWait = 6
    OptThreads = 8
    FdLimit = 100
    OwnFds = 8
    MaxFails = 2
PROPERTIES Accepted
CHECK_DEADLOCK FALSE
