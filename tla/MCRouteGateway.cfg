SPECIFICATION Spec
CONSTANTS
    d1 = d1  d2 = d2  d6 = d6  g1 = g1  g2 = g2  e1 = e1  e2 = e2
    Dest4 = {d1, d2}
    Dest6 = {d6}
    Gateway = {g1, g2}
    Simple = Simple
    Entry = {e1, e2}
    NoGateway = NoGateway  NoRoute = NoRoute
    ClientRoutes <- FewRoutes
    HostRoutes <- FewHosts
    MaxStarts = 1
    MaxExternal = 0
    MaxRefusal = 0
INVARIANTS
    NewRoutesGetTheirGateway
