SPECIFICATION FairSpec
CONSTANTS
    p1 = p1
    p2 = p2
    c1 = c1
    Plugins = {p1, p2}
    Shared = {p1}
    Plain = {c1}
    Order <- TwoPropsOnePlain
    Executors = {e1}
    Contents <- DecodableShared
    MaxChanges = 2
    NoWriter = NoWriter
INVARIANTS
    NoTornConfig
    QuietCommandIsCurrent
PROPERTIES
    BuildEnds
CHECK_DEADLOCK FALSE
