SPECIFICATION InterruptedSpec
CONSTANTS
    v1 = v1
    v2 = v2
    t1 = t1
    t2 = t2
    t3 = t3
    anna = anna
    bert = bert
    cora = cora
    Vps = {v1, v2}
    Threads = {t1, t2, t3}
    Home <- TwoHomes
    Players = {anna, bert, cora}
    Registered = {anna, bert}
    NewScore = 5
    FileSizes = {1}
    Tasks <- OneTask
    LoggedIn <- BothIn
    MaxTasks = 2
    MaxGames = 2
    None = None
INVARIANT OwnAnswer
CHECK_DEADLOCK FALSE
