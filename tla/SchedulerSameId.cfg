SPECIFICATION SchedulerSpec
CONSTANTS
    p1 = p1
    p2 = p2
    t1 = t1
    t2 = t2
    Props = {p1}
    PlainTasks = {}
    Order <- Twice
    MaxUpdates = 2
    NoTask = NoTask
INVARIANTS
    FailedTaskIsRemoved
CHECK_DEADLOCK FALSE
