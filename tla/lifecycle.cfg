CONSTANTS
    w1 = w1
    w2 = w2
    d1 = d1
    d2 = d2
    d3 = d3
    f1 = f1
    f2 = f2
    Workers = {w1, w2}
    Watchdogs = {d1, d2, d3}
    Fetchers = {f1, f2}
    DbTakes = {TRUE}
    MaxStarts = 3
SPECIFICATION LiveSpec
INVARIANTS BackgroundAsRunning
  
CHECK_DEADLOCK FALSE
