SPECIFICATION FairSpec
CONSTANTS
    e1 = e1  e2 = e2  other = other  bridge = bridge  note1 = note1
    a1 = a1  a2 = a2  b1 = b1  n1 = n1  m1 = m1  ll1 = ll1
    NoValue = NoValue  NoKey = NoKey
    Iface = {e1}
    Addr4 = {a1, a2}  Addr6 = {}  Neigh4 = {}  Neigh6 = {}
    IfType = {other}
    HandledTypes = {other}
    Note = {}
    Mtu = {}
    PrefixLen = {8, 24}
    Netmask <- HoleMasks
    LlAddr = {}
    ClientConfigs <- AddrConfigs
    OtherAddr = FALSE
    MaxIfindex = 3
    MaxExternal = 1
    MaxRefusal = 1
INVARIANTS
    ContextClean
    GetterAssertions
    VerdictRight
    UntouchedEntriesSurvive
PROPERTIES
    EventCompletes
    AddedAddressesAreConfigured
