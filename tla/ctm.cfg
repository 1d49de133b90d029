CONSTANTS
    t1 = t1
    t2 = t2
    Threads = {t1, t2}
    Tasks <- MCTasks
    Users = {1}
    sub_task_step = 1
    kRecordsPerQuery = 1
    WriteEvery = 2
    MaxErrors = 1
    MaxCompleted = 2
SPECIFICATION LiveSpec
INVARIANTS NothingStray CountIsExact
PROPERTIES KeepsContract  EveryTaskCommitted
CHECK_DEADLOCK FALSE
