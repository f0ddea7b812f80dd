---------------------------- MODULE InterfaceLoad ----------------------------
(***************************************************************************)
(* The life of the interfaces plugin: how sr_plugin_init_cb fills an empty *)
(* running datastore from the kernel, and what it does when the datastore  *)
(* has content already.                                                    *)
(*                                                                         *)
(* interfaces_running_load dumps the links once, then walks them; for each *)
(* link it dumps all addresses, all neighbours, all addresses and all      *)
(* neighbours again, once per list and family, and keeps the entries with  *)
(* the ifindex of the link.  The kernel may change between any two dumps.  *)
(* Nothing is written to the datastore before every link is through.       *)
(***************************************************************************)
EXTENDS InterfaceConfig

CONSTANTS
    Permanent,      \* links that are never deleted (lo, hardware)
    Kind,           \* values of rtnl_link_get_type, "NULL" for none
    OperState,      \* values of rtnl_link_get_operstate
    NlMtu,          \* values of rtnl_link_get_mtu
    NoLlAddr,       \* a neighbour whose link-layer address is not resolved
    NoLink,         \* no link is being loaded
    BootKernels,    \* what the kernel may hold after a boot
    ClientConfigs,  \* what a client may store while the plugin is not up
    MaxIfindex,     \* bound on interface indexes
    MaxExternal,    \* bound on what others add or change, per boot
    MaxRefusal      \* bound on requests refused, per start

Ifindex == 1..MaxIfindex
Link == [index : Ifindex, name : Iface, kind : Kind, oper : OperState, mtu : NlMtu]
AddrEntry == Ifindex \X Addr \X PrefixLen
NeighEntry == Ifindex \X Neigh \X (LlAddr \cup {NoLlAddr})
Kernel == [link : SUBSET Link, addr : SUBSET AddrEntry, neigh : SUBSET NeighEntry]

\* Names and indexes are unique, only links have entries, and a neighbour has
\* one link-layer address. (An address may be there with several prefixes.)
KernelOK(k) ==
    /\ k \in Kernel
    /\ Permanent \subseteq {l.name : l \in k.link}
    /\ \A l, m \in k.link : l.name = m.name \/ l.index = m.index => l = m
    /\ \A x \in k.addr \cup k.neigh : x[1] \in {l.index : l \in k.link}
    /\ \A x, y \in k.neigh : x[1] = y[1] /\ x[2] = y[2] => x = y

ASSUME LoadAssumption ==
    /\ Permanent \subseteq Iface /\ Permanent # {}
    /\ NlMtu \subseteq Nat /\ NoLlAddr \notin LlAddr /\ NoLink \notin Link
    /\ {"other", "ethernetCsmacd", "softwareLoopback", "l2vlan", "bridge"} \subseteq IfType
    /\ \A m \in NlMtu : m % 65536 >= 1280 => m % 65536 \in Mtu
    /\ \A k \in BootKernels : KernelOK(k)
    /\ \A c \in ClientConfigs : WellFormed(c)
    /\ MaxIfindex \in Nat /\ MaxExternal \in Nat /\ MaxRefusal \in Nat

VARIABLES
    running,    \* the running datastore
    step,       \* step of sr_plugin_init_cb
    todo,       \* links of the link cache that are still to be loaded
    cur,        \* the link being loaded
    part,       \* which of its four lists comes next
    loaded,     \* if_hash: links, addresses and neighbours collected so far
    kernel,     \* links, addresses and neighbours of the kernel
    lastIndex,  \* the highest ifindex the kernel has given out
    seen,       \* history: what the kernel held since the links were dumped
    found,      \* history: the datastore when the plugin was started
    still,      \* history: others have done nothing since the plugin was started
    external,   \* what others have done since the boot
    refused     \* requests refused since the plugin was started

pluginVars == <<step, todo, cur, part, loaded>>
envVars == <<kernel, lastIndex, seen>>
historyVars == <<found, still, external, refused>>
vars == <<running, pluginVars, envVars, historyVars>>

Nothing == [link |-> {}, addr |-> {}, neigh |-> {}]

HighestIndex(k) == CHOOSE x \in {l.index : l \in k.link} :
                      \A l \in k.link : l.index <= x

Init ==
    /\ running = EmptyConfig /\ step = "off"
    /\ todo = {} /\ cur = NoLink /\ part = 1 /\ loaded = Nothing
    /\ kernel \in BootKernels /\ lastIndex = HighestIndex(kernel)
    /\ seen = Nothing /\ found = EmptyConfig /\ still = TRUE
    /\ external = 0 /\ refused = 0

-----------------------------------------------------------------------------
(* Conversions                                                             *)

\* Fault: a link without kind, such as lo, is not converted.
TypeNl2Ly_no_null(kind) ==
    CASE kind = "veth"   -> "ethernetCsmacd"
      [] kind = "dummy"  -> "other"
      [] kind = "bridge" -> "bridge"
      [] OTHER           -> NoValue

\* interfaces_interface_type_nl2ly; NoValue is its error.
TypeNl2Ly(kind) ==
    CASE kind = "NULL"   -> "other"
      [] kind = "veth"   -> "ethernetCsmacd"
      [] kind = "vcan"   -> "softwareLoopback"
      [] kind = "vlan"   -> "l2vlan"
      [] kind = "dummy"  -> "other"
      [] kind = "bridge" -> "bridge"
      [] OTHER           -> NoValue

\* interfaces_interface_load_enabled looks at the operational state.
EnabledOf(l) == l.oper \in {"up", "unknown"}

\* Fault: the value is used as it is, without the cast.
MtuOf_no_cast(l) == l.mtu

\* The cast to uint16_t; 0 is not written.
MtuOf(l) == l.mtu % 65536

\* mtu is written below ipv4 and below ipv6, whose range is the smaller one.
MtuOK(l) == MtuOf(l) = 0 \/ MtuOf(l) >= 1280

\* An address that is not resolved prints as "none", which is no phys-address.
LyConvertible(h) == /\ \A l \in h.link : MtuOK(l)
                    /\ \A x \in h.neigh : x[3] # NoLlAddr

\* The link of that name in h, and what a list of h says about it: the address
\* list may hold a key twice, pick chooses the one that is merged last.
LinkNamed(h, name) == CHOOSE l \in h.link : l.name = name
AddrKeys(h) == {<<x[1], x[2]>> : x \in h.addr}
Picks(h) == {p \in [AddrKeys(h) -> PrefixLen] :
                \A k \in AddrKeys(h) : <<k[1], k[2], p[k]>> \in h.addr}

\* interfaces_interface_hash_to_ly: the leaf of the tree for h.
LyLeaf(h, pick, leaf) ==
    LET l == LinkNamed(h, leaf.if)
        at == <<l.index, leaf.key>>
        lls == {x[3] : x \in {y \in h.neigh : <<y[1], y[2]>> = at}}
    IN IF ~\E m \in h.link : m.name = leaf.if THEN NoValue ELSE
       CASE leaf.kind = "name"               -> l.name
         [] leaf.kind = "type"               -> TypeNl2Ly(l.kind)
         [] leaf.kind = "enabled"            -> EnabledOf(l)
         [] leaf.kind = "ipv4-enabled"       -> TRUE
         [] leaf.kind = "mtu" /\ MtuOf(l) # 0 -> MtuOf(l)
         [] leaf.kind = "ip" /\ at \in DOMAIN pick -> leaf.key
         [] leaf.kind = "prefix-length" /\ at \in DOMAIN pick -> pick[at]
         [] leaf.kind = "neighbor-ip" /\ lls # {} -> leaf.key
         [] leaf.kind = "link-layer-address" /\ lls # {} -> CHOOSE x \in lls : TRUE
         [] OTHER -> NoValue

LyTrees(h) == {[leaf \in Leaf |-> LyLeaf(h, pick, leaf)] : pick \in Picks(h)}

\* Fault: the tree replaces what is stored.
Merge_replace(c, tree) == tree

\* sr_edit_batch with "merge": leaves of the tree win, the others stay; a
\* prefix-length takes the place of a netmask, the other case of the choice.
Merge(c, tree) ==
    [l \in Leaf |->
        IF tree[l] # NoValue THEN tree[l]
        ELSE IF l.kind = "netmask" /\ tree[LeafAt("prefix-length", l.if, l.key)] # NoValue
             THEN NoValue
             ELSE c[l]]

-----------------------------------------------------------------------------
(* sr_plugin_init_cb and sr_plugin_cleanup_cb                              *)

\* A call into libnl or sysrepo that fails.
Refuse == refused < MaxRefusal /\ refused' = refused + 1

\* Fault: a load that fails is started again.
Fail_retry ==
    /\ step' = "links" /\ todo' = {} /\ cur' = NoLink /\ part' = 1
    /\ loaded' = Nothing
    /\ UNCHANGED <<running, kernel, lastIndex, seen, found, still, external>>

\* error_out: the hash is freed, the plugin is not there.
Fail ==
    /\ step' = "failed" /\ todo' = {} /\ cur' = NoLink /\ part' = 1
    /\ loaded' = Nothing
    /\ UNCHANGED <<running, kernel, lastIndex, seen, found, still, external>>

\* srpc_check_empty_datastore. With content nothing is done: the call of
\* interfaces_running_store is commented out.
InitStart ==
    /\ step = "off"
    /\ step' = IF running = EmptyConfig THEN "links" ELSE "subscribe"
    /\ found' = running /\ still' = TRUE /\ refused' = 0 /\ seen' = Nothing
    /\ UNCHANGED <<running, todo, cur, part, loaded, kernel, lastIndex,
                   external>>

\* rtnl_link_alloc_cache at the head of interfaces_load_interface.
LoadLinks ==
    /\ step = "links"
    /\ \/ /\ step' = "load" /\ todo' = kernel.link /\ seen' = kernel
          /\ UNCHANGED <<running, cur, part, loaded, kernel, lastIndex,
                         historyVars>>
       \/ Refuse /\ Fail

\* One pass of the loop over the link cache, up to the lists. The element
\* gets the name, type, enabled and mtu of the cached link; a kind without
\* identity ends the load.
LoadLink ==
    /\ step = "load" /\ cur = NoLink
    /\ \E l \in todo :
          IF TypeNl2Ly(l.kind) = NoValue
          THEN Fail /\ UNCHANGED refused
          ELSE /\ cur' = l /\ part' = 1
               /\ loaded' = [loaded EXCEPT !.link = @ \cup {l}]
               /\ UNCHANGED <<running, step, todo, kernel, lastIndex, seen,
                              historyVars>>

\* Fault: the ifindex of the entry is not compared.
EntriesOf_any_link(dump, keys) ==
    {<<cur.index, x[2], x[3]>> : x \in {y \in dump : y[2] \in keys}}

\* The entries of the dump that go to the list of the current link.
EntriesOf(dump, keys) ==
    {<<cur.index, x[2], x[3]>> :
        x \in {y \in dump : y[1] = cur.index /\ y[2] \in keys}}

\* Common part of the four list loaders: a cache is allocated and filled by a
\* dump; they fail when it is empty (nl_cache_get_first returns NULL). Nobody
\* frees the caches, which changes nothing else.
LoadList(n, dump) ==
    /\ step = "load" /\ cur # NoLink /\ part = n
    /\ dump # {}
    /\ UNCHANGED <<running, step, kernel, lastIndex, seen, historyVars>>

NextList(n) == part' = n + 1 /\ UNCHANGED <<todo, cur>>

\* interfaces_interface_ipv4_load_address
LoadAddress4 ==
    /\ LoadList(1, kernel.addr) /\ NextList(1)
    /\ loaded' = [loaded EXCEPT !.addr = @ \cup EntriesOf(kernel.addr, Addr4)]

\* interfaces_interface_ipv4_load_neighbor
LoadNeighbor4 ==
    /\ LoadList(2, kernel.neigh) /\ NextList(2)
    /\ loaded' = [loaded EXCEPT !.neigh = @ \cup EntriesOf(kernel.neigh, Neigh4)]

\* interfaces_interface_ipv6_load_address
LoadAddress6 ==
    /\ LoadList(3, kernel.addr) /\ NextList(3)
    /\ loaded' = [loaded EXCEPT !.addr = @ \cup EntriesOf(kernel.addr, Addr6)]

\* Fault: the family is not compared with that of the list.
LoadNeighbor6_family ==
    /\ LoadList(4, kernel.neigh)
    /\ cur' = NoLink /\ todo' = todo \ {cur} /\ part' = 1
    /\ loaded' = [loaded EXCEPT !.neigh = @ \cup EntriesOf(kernel.neigh, Neigh4)]

\* interfaces_interface_ipv6_load_neighbor; then the element is added to the
\* hash and the loop goes on to the next link of the cache.
LoadNeighbor6 ==
    /\ LoadList(4, kernel.neigh)
    /\ cur' = NoLink /\ todo' = todo \ {cur} /\ part' = 1
    /\ loaded' = [loaded EXCEPT !.neigh = @ \cup EntriesOf(kernel.neigh, Neigh6)]

\* A list loader that fails: the dump is refused, or it is empty.
LoadListFails ==
    /\ step = "load" /\ cur # NoLink
    /\ \/ Refuse
       \/ /\ IF part \in {1, 3} THEN kernel.addr = {} ELSE kernel.neigh = {}
          /\ UNCHANGED refused
    /\ Fail

\* The tree is built, merged into the datastore and applied.
StoreRunning ==
    /\ step = "load" /\ cur = NoLink /\ todo = {}
    /\ \/ /\ LyConvertible(loaded)
          /\ \E tree \in LyTrees(loaded) : running' = Merge(running, tree)
          /\ step' = "subscribe" /\ loaded' = Nothing
          /\ UNCHANGED <<todo, cur, part, envVars, historyVars>>
       \/ /\ \/ ~LyConvertible(loaded) /\ UNCHANGED refused
             \/ Refuse
          /\ Fail

\* The subscriptions and the start of the tracking thread.
Subscribe ==
    /\ step = "subscribe"
    /\ \/ /\ step' = "up"
          /\ UNCHANGED <<running, todo, cur, part, loaded, envVars, historyVars>>
       \/ Refuse /\ Fail

\* sr_plugin_cleanup_cb, or the end of the process after a failed init.
PluginEnd ==
    /\ step \in {"up", "failed"} /\ step' = "off"
    /\ seen' = Nothing /\ refused' = 0
    /\ found' = EmptyConfig /\ still' = TRUE
    /\ UNCHANGED <<running, todo, cur, part, loaded, kernel, lastIndex, external>>

-----------------------------------------------------------------------------
(* The environment                                                         *)

\* The machine goes down at any time and comes up with a fresh kernel; the
\* running datastore is what was saved to startup, if it was.
Reboot ==
    /\ step' = "off" /\ todo' = {} /\ cur' = NoLink /\ part' = 1
    /\ loaded' = Nothing
    /\ running' \in {running, EmptyConfig}
    /\ kernel' \in BootKernels /\ lastIndex' = HighestIndex(kernel')
    /\ seen' = Nothing /\ found' = EmptyConfig /\ still' = TRUE
    /\ external' = 0 /\ refused' = 0

\* Others change the kernel between the dump of the links and the merge; what
\* they do before or after that makes no difference to init.

KernelBecomes(k) ==
    /\ step = "load" /\ k # kernel /\ still' = FALSE
    /\ kernel' = k /\ seen' = [f \in DOMAIN seen |-> seen[f] \cup k[f]]
    /\ UNCHANGED <<running, pluginVars, found, refused>>

KernelChanges(k) ==
    /\ external < MaxExternal /\ external' = external + 1 /\ KernelBecomes(k)

LinkCreated ==
    /\ lastIndex < MaxIfindex /\ lastIndex' = lastIndex + 1
    /\ \E name \in Iface \ {l.name : l \in kernel.link}, kind \in Kind,
          oper \in OperState, mtu \in NlMtu :
          KernelChanges([kernel EXCEPT !.link = @ \cup
             {[index |-> lastIndex + 1, name |-> name, kind |-> kind,
               oper |-> oper, mtu |-> mtu]}])

\* The addresses and neighbours of a link go with it. (No bound: there are as
\* many to delete as there are links.)
LinkDeleted ==
    \E l \in kernel.link :
       /\ l.name \notin Permanent
       /\ KernelBecomes([link  |-> kernel.link \ {l},
                         addr  |-> {x \in kernel.addr : x[1] # l.index},
                         neigh |-> {x \in kernel.neigh : x[1] # l.index}])
       /\ UNCHANGED <<lastIndex, external>>

OperChanged ==
    \E l \in kernel.link, o \in OperState :
       /\ KernelChanges([kernel EXCEPT !.link = (@ \ {l}) \cup {[l EXCEPT !.oper = o]}])
       /\ UNCHANGED lastIndex

AddressChanged ==
    /\ \E x \in AddrEntry : \/ /\ x[1] \in {l.index : l \in kernel.link}
                              /\ KernelChanges([kernel EXCEPT !.addr = @ \cup {x}])
                           \/ /\ x \in kernel.addr
                              /\ KernelChanges([kernel EXCEPT !.addr = @ \ {x}])
    /\ UNCHANGED lastIndex

\* A neighbour is learnt, resolved, lost or forgotten.
NeighbourChanged ==
    /\ \E x \in NeighEntry :
          LET others == {y \in kernel.neigh : y[1] # x[1] \/ y[2] # x[2]}
          IN \/ /\ x[1] \in {l.index : l \in kernel.link}
                /\ KernelChanges([kernel EXCEPT !.neigh = others \cup {x}])
             \/ x \in kernel.neigh /\ KernelChanges([kernel EXCEPT !.neigh = others])
    /\ UNCHANGED lastIndex

\* A client stores a configuration; no callback of the plugin sees it.
ClientStores ==
    /\ step # "up" /\ running = EmptyConfig
    /\ external < MaxExternal /\ external' = external + 1 /\ still' = FALSE
    /\ running' \in ClientConfigs
    /\ UNCHANGED <<pluginVars, envVars, found, refused>>

InitStep ==
    \/ InitStart \/ LoadLinks \/ LoadLink \/ LoadAddress4 \/ LoadNeighbor4
    \/ LoadAddress6 \/ LoadNeighbor6 \/ LoadListFails \/ StoreRunning \/ Subscribe

Environment ==
    \/ LinkCreated \/ LinkDeleted \/ OperChanged \/ AddressChanged
    \/ NeighbourChanged \/ ClientStores

Next == InitStep \/ PluginEnd \/ Reboot \/ Environment

Spec == Init /\ [][Next]_vars

\* sysrepo-plugind runs init to its end.
FairSpec == Spec /\ WF_vars(InitStep)

-----------------------------------------------------------------------------
(* Properties                                                              *)

\* The plugin can only store what the YANG schema accepts: every tree that
\* passes hash_to_ly, merged into the datastore, is valid data (uint16 mtu,
\* known identities, a prefix with every address), and the hash holds what a
\* kernel may hold.
TypeOK ==
    /\ WellFormed(running) /\ WellFormed(found)
    /\ step \in {"off", "links", "load", "subscribe", "up", "failed"}
    /\ KernelOK(kernel) /\ lastIndex \in Ifindex
    /\ todo \subseteq Link /\ cur \in Link \cup {NoLink} /\ part \in 1..4
    /\ loaded \in Kernel /\ seen \in Kernel
    /\ still \in BOOLEAN /\ external \in 0..MaxExternal /\ refused \in 0..MaxRefusal

\* Every entry in the hash was in the kernel, for that interface, at some time
\* of the load, and belongs to an interface of the hash: dumps taken at
\* different times never make up an entry nor move it to another interface.
LoadedEntriesExisted ==
    /\ loaded.link \subseteq seen.link /\ loaded.addr \subseteq seen.addr
    /\ loaded.neigh \subseteq seen.neigh
    /\ \A x \in loaded.addr \cup loaded.neigh :
          \E l \in loaded.link : l.index = x[1]

\* What init has loaded of a kernel that stood still is all of it: after the
\* load the datastore has exactly the interfaces, addresses and neighbours of
\* the kernel, each below the right interface.
Describes(c, k) ==
    /\ {i \in Iface : Exists(c, "name", i, NoKey)} = {l.name : l \in k.link}
    /\ \A l \in k.link :
          /\ \A a \in Addr :
                IF \E x \in k.addr : x[1] = l.index /\ x[2] = a
                THEN <<l.index, a, c[LeafAt("prefix-length", l.name, a)]>> \in k.addr
                ELSE ~Exists(c, "ip", l.name, a)
          /\ \A n \in Neigh, v \in LlAddr :
                c[LeafAt("link-layer-address", l.name, n)] = v
                   <=> <<l.index, n, v>> \in k.neigh
LoadFaithful ==
    step \in {"subscribe", "up"} /\ found = EmptyConfig /\ still
        => Describes(running, kernel)

\* The plugin takes nothing from a datastore: content it found stays as it is,
\* and of what a client stored between the check for emptiness and the merge
\* nothing is gone after it, though values may have given way to the kernel's.
StoredDataKept ==
    [][step # "off" /\ step' # "off" =>
          /\ found # EmptyConfig => running' = running
          /\ \A l \in Leaf : running[l] # NoValue /\ l.kind # "netmask"
                             => running'[l] # NoValue]_running

\* Init fails only for a reason: a refused call, a change under its feet, or a
\* kernel it cannot load (a link of a kind without identity, an mtu below that
\* of ipv6, no address or no neighbour at all, a neighbour not resolved).
Loadable(k) == /\ \A l \in k.link : l.kind \in {"NULL", "veth", "vcan", "vlan", "dummy", "bridge"}
               /\ \A l \in k.link : l.mtu % 65536 \notin 1..1279
               /\ k.addr # {} /\ k.neigh # {}
               /\ \A x \in k.neigh : x[3] # NoLlAddr
FailureExplained ==
    step = "failed" /\ still /\ refused = 0 => ~Loadable(kernel)

\* Init ends: the loop over the links, each with four dumps, is left.
Initialising == step \in {"links", "load", "subscribe"}
InitEnds == Initialising ~> ~Initialising
=============================================================================
