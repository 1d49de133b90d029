CONSTANTS
    c1 = c1
    c2 = c2
    ClientIds = {c1, c2}
    Counts = {2}
    Mids = {1, 2, 3, 4}
    FirstMid = 1
    LastMid = 5
    AdminEnds = {4}
    AdminCurrents = {3}
    MainTaskTimeout = 0
    SaveInterval = 0
    ClientsOutliveServer = FALSE
    LiveClients = {c1, c2}
    MaxTaskId = 3
    MaxTime = 2
SPECIFICATION LiveSpec
INVARIANTS TypeOK  NoOverlap 
PROPERTIES NoReopening  
CHECK_DEADLOCK FALSE
