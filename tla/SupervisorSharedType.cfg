SPECIFICATION Spec
CONSTANTS
    Bots = {b1, b2}
    BotTypes = {{b1, b2}}
    Notifiers = {n1}
    NumAlerters = 1
    Escalating = {b1}
    MaxEscalations = 1
INVARIANTS
    FinishedBotIsCanceled
CHECK_DEADLOCK FALSE
