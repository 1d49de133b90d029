CONSTANTS
    c1 = c1
    c2 = c2
    ClientIds = {c1, c2}
    Counts = {2}
    Mids = {1, 2, 3, 4}
    FirstMid = 1
    LastMid = 4
    AdminEnds = {}
    AdminCurrents = {}
    MainTaskTimeout = 0
    SaveInterval = 0
    ClientsOutliveServer = FALSE
    LiveClients = {c1, c2}
    MaxTaskId = 3
    MaxTime = 3
SPECIFICATION Spec
INVARIANT NothingDropped
CHECK_DEADLOCK FALSE
