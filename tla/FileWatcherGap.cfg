SPECIFICATION WatcherSpec
CONSTANTS
    b1 = b1
    t1 = t1
    x = x
    y = y
    p1 = p1
    p2 = p2
    Bots = {b1}
    Types = {t1}
    Ids = {x, y}
    Plugins = {p1, p2}
    TypeOf <- OneBot
    IdOf <- TwoIds
    PluginsOf <- Two
    MaxEvents = 1
INVARIANTS
    NoChangeIsMissed
CHECK_DEADLOCK FALSE
