SPECIFICATION FairSpec
CONSTANTS
    Iface = {e1, e2}
    OperState = {up, down}
    MaxIndex = 2
    Removable = {e1}
    Configured = {e1}
    Gone = Gone  NoEntry = NoEntry
    LeastFit = 1  MostFit = 2
    MaxTime = 0
    MaxChanges = 3
    MaxGets = 3
CHECK_DEADLOCK FALSE
INVARIANTS
    TypeOK
    AccessExclusiveUnlessFreed
PROPERTIES
    CatchesUp
