SPECIFICATION FairSpec
CONSTANTS
    Bots = {b1}
    BotTypes = {{b1}}
    Notifiers = {n1}
    NumAlerters = 1
    Escalating = {b1}
    MaxEscalations = 1
PROPERTIES
    AllStoppedStopsResources
CHECK_DEADLOCK FALSE
