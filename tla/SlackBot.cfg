SPECIFICATION SlackFairSpec
CONSTANTS
    Bots = {b1}
    BotTypes = {{b1}}
    Notifiers = {}
    NumAlerters = 2
    Escalating = {b1}
    MaxEscalations = 1
    Trials = 2
    MaxConns = 2
    MaxInputs = 1
INVARIANTS
    SlackTypeOK
    NothingIsLeftOpen
    ReturnHasReason
PROPERTIES
    SlackImplementsLifecycle
    NoPayloadAfterCancel
    LostConnectionIsClosed
    ReceiversEnd
    CanceledSlackBotEnds
CHECK_DEADLOCK FALSE
