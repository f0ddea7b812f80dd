SPECIFICATION FairSpec
CONSTANTS
    lo = lo  eth = eth  a1 = a1  a2 = a2  b1 = b1  n1 = n1  m1 = m1  ll1 = ll1
    NoValue = NoValue  NoKey = NoKey  NoLlAddr = NoLlAddr  NoLink = NoLink
    Iface = {lo, eth}
    Permanent = {lo}
    Addr4 = {a1, a2}  Addr6 = {b1}  Neigh4 = {n1}  Neigh6 = {m1}
    IfType = {"other", "ethernetCsmacd", "softwareLoopback", "l2vlan", "bridge"}
    Note = {}
    Mtu = {1500}
    PrefixLen = {8, 24}
    Netmask <- Masks
    LlAddr = {ll1}
    Kind = {"NULL", "veth", "vcan", "vlan", "dummy", "bridge", "tun"}
    OperState = {"up", "down", "unknown"}
    NlMtu = {65536, 1500, 1000}
    BootKernels <- Kernels
    ClientConfigs <- Stored
    MaxIfindex = 3
    MaxExternal = 1
    MaxRefusal = 1
INVARIANTS
    TypeOK
    LoadFaithful
    FailureExplained
    LoadedEntriesExisted
PROPERTIES
    InitEnds
    StoredDataKept
