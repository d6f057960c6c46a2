SPECIFICATION FairSpec
CONSTANTS
    v1 = v1
    v2 = v2
    t1 = t1
    t2 = t2
    t3 = t3
    anna = anna
    bert = bert
    cora = cora
    Vps = {v1, v2}
    Threads = {t1, t2, t3}
    Home <- TwoHomes
    Players = {anna, bert, cora}
    Registered = {anna, bert}
    NewScore = 5
    FileSizes = {1}
    Tasks <- TwoTasks
    LoggedIn <- BothIn
    MaxTasks = 2
    MaxGames = 1
    None = None
INVARIANTS OwnAnswer NameIsHis
PROPERTIES LedgerSpec AllServed
CHECK_DEADLOCK FALSE
