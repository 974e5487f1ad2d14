SPECIFICATION SchedulerSpec
CONSTANTS
    p1 = p1
    p2 = p2
    t1 = t1
    t2 = t2
    Props = {}
    PlainTasks = {t1, t2}
    Order <- TwoTasks
    MaxUpdates = 0
    NoTask = NoTask
INVARIANTS
    EveryDueTaskIsExecuted
CHECK_DEADLOCK FALSE
