SPECIFICATION GitterSpec
CONSTANTS
    Bots = {b1}
    BotTypes = {{b1}}
    Notifiers = {}
    NumAlerters = 1
    Escalating = {b1}
    MaxEscalations = 1
    Rooms = {r1, r2}
    MaxLines = 2
INVARIANTS
    ServedBotIsNotStopped
CHECK_DEADLOCK FALSE
