CONSTANTS
    c1 = c1
    c2 = c2
    t1 = t1
    Clients = {c1, c2}
    Tasks = {t1}
    Tries = 2
    QuitModes = {1}
    Faulty = {c1}
    MaxAlive = 1
    MaxClientIds = 2
    MaxLost = 1
    MaxHeld = 1
SPECIFICATION LiveSpec
INVARIANTS  LeaksHaveACause
PROPERTIES GoneForGood GhostsVanish ToldToQuitEnds
CHECK_DEADLOCK FALSE
