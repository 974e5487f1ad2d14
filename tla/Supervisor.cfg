SPECIFICATION FairSpec
CONSTANTS
    Bots = {b1, b2}
    BotTypes = {{b1, b2}}
    Notifiers = {n1}
    NumAlerters = 1
    Escalating = {b1}
    MaxEscalations = 1
INVARIANTS
    TypeOK
    UnintentionalStopIsAlerted
    OneFatalAlertPerCaller
    FinishedTypeWasCanceled
PROPERTIES
    ImplementsLifecycle
    ShutdownCompletes
CHECK_DEADLOCK FALSE
