CONSTANTS
    c1 = c1
    c2 = c2
    w1 = w1
    w2 = w2
    Conns = {c1, c2}
    Jobs = {c1, c2}
    Workers = {w1, w2}
    Requests <- MCRequests
    Resources <- MCResources
    ShutdownUrl <- MCShutdownUrl
    KeepAlive <- MCKeepAlive
    Lengths = {2}
    SS_WRITE_BUFFER_SIZE = 2
    Cuts = {2, 5}
    MaxConnects = 2
    MaxAsked = 1
SPECIFICATION Spec
INVARIANTS HeldByOne NobodySleepsOnWork OnlyLateComersAbandoned
CHECK_DEADLOCK FALSE
SYMMETRY MCSymmetry
