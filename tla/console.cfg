CONSTANTS
    b1 = b1
    b2 = b2
    Threads = {b1, b2}
    Clients = {1, 2}
    MaxQueue = 2
SPECIFICATION LiveSpec
INVARIANTS FlagTellsThread MenuKeepsItsRow
PROPERTIES TroubleIsSeen ReconnectingHelps
CHECK_DEADLOCK FALSE
