SPECIFICATION Spec
CONSTANTS
    t1 = t1
    t2 = t2
    x = x
    y = y
    b1 = b1
    b2 = b2
    BotTypes = {t1, t2}
    Ids = {x, y}
    CommandChains <- SomeCommands
    TaskChains <- SomeTasks
    Builders = {b1, b2}
    Options <- SomeOptions
    MaxOptions = 3
    Reuse = FALSE
SYMMETRY BuilderSymmetry
INVARIANTS
    BotServesItsCommands
    BotRunsItsTasks
    ValidationIsTight
CHECK_DEADLOCK FALSE
