SPECIFICATION GitterSpec
CONSTANTS
    Bots = {b1}
    BotTypes = {{b1}}
    Notifiers = {}
    NumAlerters = 1
    Escalating = {b1}
    MaxEscalations = 1
    Rooms = {r1}
    MaxLines = 2
PROPERTIES
    ReceiveTakesOneLine
CHECK_DEADLOCK FALSE
