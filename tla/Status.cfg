SPECIFICATION Spec
CONSTANTS
    b1 = b1
    b2 = b2
    b3 = b3
    t1 = t1
    t2 = t2
    Runners = {r1, r2}
    Bots = {b1, b2, b3}
    Types = {t1, t2}
    TypeOf <- SharedTypes
    Monitors = {m1}
    MaxSnapshots = 2
    NoWriter = NoWriter
SYMMETRY RunnerSymmetry
INVARIANTS
    TypeOK
    ReportedFinishedIsFinished
    StoppedBotIsReported
PROPERTIES
    FinishedIsFinal
CHECK_DEADLOCK FALSE
