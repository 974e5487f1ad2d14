SPECIFICATION Spec
CONSTANTS
    p1 = p1
    p2 = p2
    c1 = c1
    Plugins = {p1}
    Shared = {}
    Plain = {}
    Order <- Twice
    Executors = {e1}
    Contents <- AnyContent
    MaxChanges = 2
    NoWriter = NoWriter
INVARIANTS
    QuietCommandIsCurrent
CHECK_DEADLOCK FALSE
