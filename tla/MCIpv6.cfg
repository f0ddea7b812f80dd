SPECIFICATION Spec
CONSTANTS
    e1 = e1  e2 = e2  other = other  bridge = bridge  note1 = note1
    a1 = a1  a2 = a2  b1 = b1  n1 = n1  m1 = m1  ll1 = ll1
    NoValue = NoValue  NoKey = NoKey
    Iface = {e1}
    Addr4 = {}  Addr6 = {b1}  Neigh4 = {n1}  Neigh6 = {m1}
    IfType = {other}
    HandledTypes = {other}
    Note = {}
    Mtu = {}
    PrefixLen = {56, 64}
    Netmask = {}
    LlAddr = {ll1, ll2}
    ClientConfigs <- Ipv6Configs
    OtherAddr = TRUE
    MaxIfindex = 3
    MaxExternal = 1
    MaxRefusal = 1
INVARIANTS
    VerdictRight
    UntouchedEntriesSurvive
