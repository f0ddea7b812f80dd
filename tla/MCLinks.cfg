SPECIFICATION Spec
CONSTANTS
    e1 = e1  e2 = e2  other = other  bridge = bridge  note1 = note1
    a1 = a1  a2 = a2  b1 = b1  n1 = n1  m1 = m1  ll1 = ll1
    NoValue = NoValue  NoKey = NoKey
    Iface = {e1, e2}
    Addr4 = {}  Addr6 = {}  Neigh4 = {}  Neigh6 = {}
    IfType = {other, bridge}
    HandledTypes = {other}
    Note = {note1}
    Mtu = {1400}
    PrefixLen = {}
    Netmask = {}
    LlAddr = {}
    ClientConfigs <- LinkConfigs
    OtherAddr = TRUE
    MaxIfindex = 5
    MaxExternal = 1
    MaxRefusal = 1
INVARIANTS
    TypeOK
    VerdictRight
    LinkEditRetryable
