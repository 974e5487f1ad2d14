SPECIFICATION Spec
CONSTANTS
    Users = {u1, u2}
    NumWorkers = 2
    QueueSize = 1
    Patient = {u1}
    MaxInputs = 2
    NoContext = NoContext
INVARIANTS
    TypeOK
    ContextIsNotLost
    AbortCancelsContext
CHECK_DEADLOCK FALSE
