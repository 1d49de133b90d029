CONSTANTS
    c1 = c1
    c2 = c2
    Bad = Bad
    h1 = h1
    h2 = h2
    Consoles = {c1, c2}
    Workers = {1}
    Handlers = {h1, h2}
    First <- MCFirst
    Forms <- MCForms
    Tries = 2
    MaxRequests = 2
SPECIFICATION LiveSpec
INVARIANTS FileIsSound 
PROPERTY SettingsReachWorkers
CHECK_DEADLOCK FALSE
