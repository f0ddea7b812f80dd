SPECIFICATION Spec
SYMMETRY Symmetry
CONSTANTS
    c1 = c1  c2 = c2
    eth = eth  br = br  a4 = a4  n6 = n6
    Client = {c1, c2}
    Name = {eth, br}
    Ip4 = {a4}
    Ip6 = {n6}
    PrefixLength = {16, 24}
    Counters <- SomeCounters
    Width32 = 2
    Width64 = 3
    KernelLinks <- SomeLinks
    KernelEntries <- SomeEntries
    Configured <- SomeConfigured
    MaxIfindex = 3
    MaxExternal = 1
    MaxRefusal = 1
INVARIANTS
    TypeOK
    CachesAllocated
    ReportedExisted
    QuietReport
PROPERTIES
    FailureExplained
