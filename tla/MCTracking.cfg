SPECIFICATION Spec
CONSTANTS
    Iface = {e1, e2}
    OperState = {up, down}
    MaxIndex = 2
    Removable = {e1}
    Configured = {}
    Gone = Gone  NoEntry = NoEntry
    LeastFit = 1  MostFit = 2
    MaxTime = 1
    MaxChanges = 5
    MaxGets = 0
CHECK_DEADLOCK FALSE
INVARIANTS
    HashFollowsCache
    LastChangeNotEarly
PROPERTIES
    LastChangeMonotone
