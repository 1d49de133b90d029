CONSTANTS
    c1 = c1
    w1 = w1
    w2 = w2
    Conns = {c1}
    Jobs = {c1}
    Workers = {w1, w2}
    Requests <- MCExchanges
    Resources <- MCResources
    ShutdownUrl <- MCShutdownUrl
    KeepAlive <- MCKeepAlive
    Lengths = {2, 3}
    SS_WRITE_BUFFER_SIZE = 2
    Cuts = {2, 9}
    MaxConnects = 2
    MaxAsked = 2
SPECIFICATION LiveSpec
PROPERTIES KeepsExchange  StopEnds
CHECK_DEADLOCK FALSE
