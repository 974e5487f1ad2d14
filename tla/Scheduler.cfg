SPECIFICATION SchedulerSpec
CONSTANTS
    p1 = p1
    p2 = p2
    t1 = t1
    t2 = t2
    Props = {p1, p2}
    PlainTasks = {t1}
    Order <- PropsThenTasks
    MaxUpdates = 2
    NoTask = NoTask
INVARIANTS
    CronHoldsTheSchedule
    FailedTaskIsRemoved
    ScheduledTaskIsCurrent
CHECK_DEADLOCK FALSE
