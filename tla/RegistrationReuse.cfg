SPECIFICATION Spec
CONSTANTS
    t1 = t1
    t2 = t2
    x = x
    y = y
    b1 = b1
    b2 = b2
    BotTypes = {t1}
    Ids = {x, y}
    CommandChains <- TwoCommands
    TaskChains <- NoTasks
    Builders = {b1}
    Options <- OnlyBot
    MaxOptions = 2
    Reuse = TRUE
PROPERTIES
    RegisteredPropsStay
CHECK_DEADLOCK FALSE
