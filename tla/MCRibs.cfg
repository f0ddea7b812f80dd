SPECIFICATION FairSpec
CONSTANTS
    d4 = d4  d6 = d6  main = main  local = local
    Table = {main, local}
    Dest4 = {d4}
    Dest6 = {d6}
    RouteSet <- SomeRoutes
    NoRoute = NoRoute
    MaxIfindex = 3
    MaxRoutes = 3
    MaxExternal = 2
    MaxRefusal = 1
INVARIANTS
    TypeOK
    OneActive
    NextHopsComplete
    CrashExplained
PROPERTIES
    RequestFailureExplained
    RequestEnds
    ServiceImplemented
