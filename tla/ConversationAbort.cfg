SPECIFICATION Spec
CONSTANTS
    Users = {u1}
    NumWorkers = 2
    QueueSize = 2
    Patient = {}
    MaxInputs = 3
    NoContext = NoContext
INVARIANTS
    EveryAbortCancelsContext
CHECK_DEADLOCK FALSE
