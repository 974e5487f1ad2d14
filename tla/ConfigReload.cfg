SPECIFICATION FairSpec
CONSTANTS
    b1 = b1
    b2 = b2
    t1 = t1
    t2 = t2
    x = x
    p1 = p1
    p2 = p2
    p3 = p3
    Bots = {b1, b2}
    Types = {t1, t2}
    Ids = {x}
    Plugins = {p1, p2, p3}
    TypeOf <- TwoBots
    IdOf <- OneId
    PluginsOf <- TwoAndOne
    MaxEvents = 1
    Props = {p2}
    PlainTasks = {}
    Order <- OneTask
    TaskBot = b1
    MaxUpdates = 1
    NoTask = NoTask
INVARIANTS
    TypeOK
    SubscriptionsAreSound
    NoCallbackAfterUnwatch
    RunningBotIsSubscribed
PROPERTIES
    ChangesAreApplied
    CallsReturn
CHECK_DEADLOCK FALSE
