SPECIFICATION FairSpec
CONSTANTS
    b1 = b1
    b2 = b2
    b3 = b3
    t1 = t1
    t2 = t2
    Runners = {r1}
    Bots = {b1, b2}
    Types = {t1, t2}
    TypeOf <- OwnTypes
    Monitors = {m1}
    MaxSnapshots = 1
    NoWriter = NoWriter
PROPERTIES
    CurrentStatusReturns
CHECK_DEADLOCK FALSE
