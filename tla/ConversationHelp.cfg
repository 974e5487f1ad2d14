SPECIFICATION Spec
CONSTANTS
    Users = {u1}
    NumWorkers = 1
    QueueSize = 1
    Patient = {u1}
    MaxInputs = 2
    NoContext = NoContext
INVARIANTS
    HelpListsCommands
CHECK_DEADLOCK FALSE
