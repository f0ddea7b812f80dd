--------------------------- MODULE InterfaceChange ---------------------------
(***************************************************************************)
(* The change subscription of the interfaces plugin: how an edit of the    *)
(* running datastore reaches the kernel.                                   *)
(*                                                                         *)
(* sysrepo calls interfaces_subscription_change_interfaces_interface with  *)
(* SR_EV_CHANGE; the callback goes through sixteen phases, one per YANG    *)
(* leaf, each of them one srpc_iterate_changes: take a netlink snapshot    *)
(* (interfaces_change_interface_init), call the handler of the leaf once   *)
(* per changed leaf, drop the snapshot (interfaces_change_interface_free). *)
(* The first handler that fails ends the event and sysrepo rejects the     *)
(* edit.  The kernel is shared with everybody else on the host, so it may  *)
(* change between any two steps, and any request may be refused.           *)
(***************************************************************************)
EXTENDS InterfaceConfig, Sequences

CONSTANTS
    ClientConfigs,  \* the configurations clients may ask for
    HandledTypes,   \* the iana-if-types in the type_pairs table
    OtherAddr,      \* TRUE if links outside Iface hold an address (e.g. lo)
    MaxIfindex,     \* bound on interface indexes
    MaxExternal,    \* bound on changes by others to the kernel, per event
    MaxRefusal      \* bound on netlink requests refused, per event

ASSUME ChangeAssumption ==
    /\ \A c \in ClientConfigs : WellFormed(c)
    /\ HandledTypes \subseteq IfType
    /\ OtherAddr \in BOOLEAN
    /\ MaxIfindex \in Nat /\ MaxExternal \in Nat /\ MaxRefusal \in Nat

VARIABLES
    running,    \* running datastore: the last committed configuration
    cand,       \* the configuration the current event asks for
    event,      \* what the subscription thread is doing
    phase,      \* index in Phases of the srpc_iterate_changes in progress
    todo,       \* leaves of this phase whose handler is still to be called
    nl,         \* mod_ctx.nl_ctx: the snapshot of the link and address caches
    scratch,    \* mod_ctx.mod_data: prefix length and lladdr being collected
    kernel,     \* links, addresses and neighbours of the kernel
    instep,     \* history: the kernel was in step when the event began
    external,   \* changes by others since the event began
    refused     \* requests refused since the event began

vars == <<running, cand, event, phase, todo, nl, scratch, kernel,
          instep, external, refused>>

-----------------------------------------------------------------------------
(* Kernel and plugin data                                                  *)

Family == {"ipv4", "ipv6"}

DefaultMtu == 1500
Prefix == 0..128
Ifindex == 1..MaxIfindex
Gone == 0       \* ifindex of a name no link has

Kernel == [link  : [Iface -> Ifindex \cup {Gone}],
           up    : [Iface -> BOOLEAN],
           mtu   : [Iface -> Mtu \cup {DefaultMtu}],
           addr  : SUBSET (Iface \X Addr \X Prefix),
           neigh : SUBSET (Iface \X Neigh \X LlAddr)]

EmptyKernel == [link  |-> [i \in Iface |-> Gone],
                up    |-> [i \in Iface |-> FALSE],
                mtu   |-> [i \in Iface |-> DefaultMtu],
                addr  |-> {},
                neigh |-> {}]

\* mod_ctx.nl_ctx: nothing is allocated outside a phase.
Snapshot == [open : BOOLEAN, link : [Iface -> Ifindex \cup {Gone}], anyAddr : BOOLEAN]
NoSnapshot == [open |-> FALSE, link |-> [i \in Iface |-> Gone], anyAddr |-> FALSE]

\* mod_ctx.mod_data: one struct for each of ipv4 and ipv6
ModData == [prefix_set : BOOLEAN, prefix_length : Prefix, lladdr : LlAddr \cup {NoValue}]
NoData == [prefix_set |-> FALSE, prefix_length |-> 0, lladdr |-> NoValue]
NoScratch == [f \in Family |-> NoData]

-----------------------------------------------------------------------------
(* What the netlink requests do to the kernel (external: Linux).           *)

\* A new link takes an index neither in use nor known to the snapshot.
FreshIfindex == Ifindex \ ({kernel.link[i] : i \in Iface} \cup {nl.link[i] : i \in Iface})

AddLink(k, i) == [k EXCEPT !.link[i] = CHOOSE x \in FreshIfindex : TRUE]

DeleteLink(k, i) ==
    [k EXCEPT !.link[i] = Gone, !.up[i] = FALSE, !.mtu[i] = DefaultMtu,
              !.addr  = {x \in @ : x[1] # i},
              !.neigh = {x \in @ : x[1] # i}]

\* Taking a link down flushes its IPv6 addresses and its neighbours.
SetUp(k, i, up) ==
    IF up THEN [k EXCEPT !.up[i] = TRUE]
    ELSE [k EXCEPT !.up[i] = FALSE,
                   !.addr  = {x \in @ : x[1] # i \/ x[2] \in Addr4},
                   !.neigh = {x \in @ : x[1] # i}]

SetMtu(k, i, m) == [k EXCEPT !.mtu[i] = m]
AddAddr(k, i, a, p)    == [k EXCEPT !.addr = @ \cup {<<i, a, p>>}]
DeleteAddr(k, i, a, p) == [k EXCEPT !.addr = @ \ {<<i, a, p>>}]
HasNeigh(k, i, n) == \E x \in k.neigh : x[1] = i /\ x[2] = n
DeleteNeigh(k, i, n) == [k EXCEPT !.neigh = {x \in @ : ~(x[1] = i /\ x[2] = n)}]
ReplaceNeigh(k, i, n, ll) ==
    [k EXCEPT !.neigh = {x \in @ : ~(x[1] = i /\ x[2] = n)} \cup {<<i, n, ll>>}]
\* NLM_F_CREATE without NLM_F_REPLACE leaves an entry that exists alone.
CreateNeigh(k, i, n, ll) ==
    IF HasNeigh(k, i, n) THEN k ELSE ReplaceNeigh(k, i, n, ll)

-----------------------------------------------------------------------------
(* The changes sysrepo reports                                             *)

Operation(l) ==
    CASE running[l] = cand[l]  -> "NONE"
      [] running[l] # cand[l] /\ running[l] = NoValue -> "CREATED"
      [] running[l] # cand[l] /\ cand[l] = NoValue -> "DELETED"
      [] OTHER -> "MODIFIED"

Changed(leaves) == {l \in leaves : Operation(l) # "NONE"}

Phase(kind, keys) == [kind |-> kind, keys |-> keys]
Phases == << Phase("name", {NoKey}), Phase("description", {NoKey}),
             Phase("type", {NoKey}), Phase("enabled", {NoKey}),
             Phase("link-up-down-trap-enable", {NoKey}),
             Phase("mtu", {NoKey}), Phase("ipv4-enabled", {NoKey}),
             Phase("ip", Addr4), Phase("prefix-length", Addr4), Phase("netmask", Addr4),
             Phase("neighbor-ip", Neigh4), Phase("link-layer-address", Neigh4),
             Phase("ip", Addr6), Phase("prefix-length", Addr6),
             Phase("neighbor-ip", Neigh6), Phase("link-layer-address", Neigh6) >>

PhaseLeaves(p) == {l \in Leaf : l.kind = Phases[p].kind /\ l.key \in Phases[p].keys}

\* Fault: the xpath of the getter lacks the key of the list entry.
PrefixLengthXpath_no_key(i, a) == {l \in Leaf : l.kind = "prefix-length" /\ l.if = i}

\* The xpaths of the nested srpc_iterate_changes in the ip handlers: the one
\* leaf of the list entry that is being created.
PrefixLengthXpath(i, a) == Leaf \cap {LeafAt("prefix-length", i, a)}
NetmaskXpath(i, a) == Leaf \cap {LeafAt("netmask", i, a)}
LlAddrXpath(i, n) == Leaf \cap {LeafAt("link-layer-address", i, n)}

-----------------------------------------------------------------------------
(* The kernel configuration a datastore configuration asks for.            *)

AddrRealized(k, c, i, a) == <<i, a, PrefixOf(c, i, a)>> \in k.addr
NeighRealized(k, c, i, n) == <<i, n, c[LeafAt("link-layer-address", i, n)]>> \in k.neigh

LinkRealized(k, c, i) ==
    /\ k.link[i] # Gone
    /\ k.up[i] = c[LeafAt("enabled", i, NoKey)]
    /\ Exists(c, "mtu", i, NoKey) => k.mtu[i] = c[LeafAt("mtu", i, NoKey)]

Realizes(k, c) ==
    \A i \in Iface : Exists(c, "name", i, NoKey) =>
        /\ LinkRealized(k, c, i)
        /\ \A a \in Addr : Exists(c, "ip", i, a) => AddrRealized(k, c, i, a)
        /\ \A n \in Neigh : Exists(c, "neighbor-ip", i, n) => NeighRealized(k, c, i, n)

\* k holds everything c asks for and no address or neighbour c does not.
InStep(k, c) ==
    /\ Realizes(k, c)
    /\ \A x \in k.addr : Exists(c, "ip", x[1], x[2]) /\ x[3] = PrefixOf(c, x[1], x[2])
    /\ \A x \in k.neigh : x[3] = c[LeafAt("link-layer-address", x[1], x[2])]

-----------------------------------------------------------------------------
(* Events                                                                  *)

Init ==
    /\ running = EmptyConfig /\ cand = EmptyConfig
    /\ event = "idle" /\ phase = 1 /\ todo = {}
    /\ nl = NoSnapshot /\ scratch = NoScratch
    /\ kernel = EmptyKernel
    /\ instep = TRUE /\ external = 0 /\ refused = 0

\* A client applies an edit: SR_EV_CHANGE.
ApplyChanges ==
    /\ event = "idle"
    /\ \E c \in ClientConfigs \ {running} : cand' = c
    /\ event' = "change" /\ phase' = 1
    /\ instep' = InStep(kernel, running)
    /\ external' = 0 /\ refused' = 0
    /\ UNCHANGED <<running, todo, nl, scratch, kernel>>

\* Fault: the error path does not free the snapshot.
Fail_without_free ==
    /\ event' = "failed" /\ todo' = {}
    /\ UNCHANGED <<nl, scratch>>

\* A handler or interfaces_change_interface_init failed: srpc_iterate_changes
\* frees the snapshot and the callback returns SR_ERR_CALLBACK_FAILED.
Fail ==
    /\ event' = "failed" /\ todo' = {}
    /\ nl' = NoSnapshot /\ scratch' = NoScratch

\* interfaces_change_interface_init, then the list of changes of this phase.
StartPhase ==
    /\ event = "change" /\ ~nl.open /\ phase <= Len(Phases)
    /\ \/ /\ nl' = [open |-> TRUE, link |-> kernel.link,
                    anyAddr |-> OtherAddr \/ kernel.addr # {}]
          /\ todo' = Changed(PhaseLeaves(phase))
          /\ UNCHANGED <<event, scratch, refused>>
       \/ /\ refused < MaxRefusal
          /\ refused' = refused + 1
          /\ Fail
    /\ UNCHANGED <<running, cand, phase, kernel, instep, external>>

\* Fault: the callback iterates over the same leaf again.
FinishPhase_again ==
    /\ event = "change" /\ nl.open /\ todo = {}
    /\ nl' = NoSnapshot /\ scratch' = NoScratch
    /\ UNCHANGED <<running, cand, event, phase, todo, kernel, instep, external, refused>>

\* interfaces_change_interface_free at the end of srpc_iterate_changes.
FinishPhase ==
    /\ event = "change" /\ nl.open /\ todo = {}
    /\ nl' = NoSnapshot /\ scratch' = NoScratch
    /\ phase' = phase + 1
    /\ UNCHANGED <<running, cand, event, todo, kernel, instep, external, refused>>

\* Every phase is through: the callback returns SR_ERR_OK.
ReturnOK ==
    /\ event = "change" /\ phase > Len(Phases)
    /\ event' = "applied"
    /\ UNCHANGED <<running, cand, phase, todo, nl, scratch, kernel,
                   instep, external, refused>>

\* SR_EV_DONE: sysrepo has stored the edit in the running datastore.
DoneEvent ==
    /\ event = "applied"
    /\ running' = cand /\ event' = "idle"
    /\ phase' = 1
    /\ UNCHANGED <<cand, todo, nl, scratch, kernel, instep, external, refused>>

\* SR_EV_ABORT, when another subscriber of the module refuses the edit: the
\* callback logs it and fails; nothing is undone.
AbortEvent ==
    /\ event = "applied"
    /\ event' = "aborted"
    /\ UNCHANGED <<running, cand, phase, todo, nl, scratch, kernel,
                   instep, external, refused>>

\* The edit is dropped and running stays as it was.
DropEdit ==
    /\ event \in {"failed", "aborted"}
    /\ event' = "idle" /\ cand' = running
    /\ phase' = 1
    /\ UNCHANGED <<running, todo, nl, scratch, kernel, instep, external, refused>>

-----------------------------------------------------------------------------
(* Handlers: one call per changed leaf.                                    *)

\* Leaf l is handled now; no handler changes running, cand or phase.
Handling(kind, keys, l) ==
    /\ event = "change" /\ nl.open /\ l \in todo /\ l.kind = kind /\ l.key \in keys
    /\ UNCHANGED <<running, cand, phase, instep, external>>

\* rtnl_link_get_by_name on the cached links
InCache(i) == nl.link[i] # Gone

\* The cached link exists and its ifindex is still the one of that name.
LinkAlive(i) == InCache(i) /\ nl.link[i] = kernel.link[i]

\* The handler returns 0 leaving the kernel as k and mod_data as s.
Succeed(l, k, s) ==
    /\ kernel' = k /\ scratch' = s
    /\ todo' = todo \ {l}
    /\ UNCHANGED <<event, nl, refused>>

\* The handler fails with the kernel as k.
Error(k) == Fail /\ kernel' = k /\ UNCHANGED refused

\* The kernel refuses a request it could have granted.
Refuse(k) == /\ refused < MaxRefusal
             /\ refused' = refused + 1
             /\ Fail /\ kernel' = k

\* A handler that needs possible to hold, to make its one request.
Request(l, possible, k, s) == \/ possible /\ Succeed(l, k, s)
                              \/ possible /\ Refuse(kernel)
                              \/ ~possible /\ Error(kernel)

\* A handler that only looks the link up.
LookupOnly(l) == \/ InCache(l.if) /\ Succeed(l, kernel, scratch)
                 \/ ~InCache(l.if) /\ Error(kernel)

\* Fault: the link is created without looking whether it exists.
change_name_exclusive(l) ==
    /\ Handling("name", {NoKey}, l)
    /\ \/ /\ Operation(l) = "CREATED" /\ FreshIfindex # {}
          /\ Request(l, kernel.link[l.if] = Gone, AddLink(kernel, l.if), scratch)
       \/ /\ Operation(l) = "DELETED"
          /\ Request(l, LinkAlive(l.if), DeleteLink(kernel, l.if), scratch)

change_name(l) ==
    /\ Handling("name", {NoKey}, l)
    /\ \/ /\ Operation(l) = "CREATED" /\ InCache(l.if)
          /\ Succeed(l, kernel, scratch)
       \/ /\ Operation(l) = "CREATED" /\ ~InCache(l.if) /\ FreshIfindex # {}
          /\ Request(l, TRUE,
                     IF kernel.link[l.if] # Gone THEN kernel ELSE AddLink(kernel, l.if),
                     scratch)
       \/ /\ Operation(l) = "DELETED"
          /\ Request(l, LinkAlive(l.if), DeleteLink(kernel, l.if), scratch)

\* Accepted, nothing is done.
change_description(l) ==
    Handling("description", {NoKey}, l) /\ Succeed(l, kernel, scratch)
change_link_up_down_trap_enable(l) ==
    Handling("link-up-down-trap-enable", {NoKey}, l) /\ Succeed(l, kernel, scratch)

\* The kernel never changes the kind of a link that exists.
change_type(l) ==
    /\ Handling("type", {NoKey}, l)
    /\ \/ /\ Operation(l) # "DELETED"
          /\ Request(l, LinkAlive(l.if) /\ cand[l] \in HandledTypes, kernel, scratch)
       \/ /\ Operation(l) = "DELETED"
          /\ Succeed(l, kernel, scratch)

\* Fault: a deleted leaf is applied to a link that is deleted already.
change_enabled_unchecked(l) ==
    /\ Handling("enabled", {NoKey}, l)
    /\ Request(l, LinkAlive(l.if),
               SetUp(kernel, l.if, Operation(l) = "DELETED" \/ cand[l]), scratch)

change_enabled(l) ==
    /\ Handling("enabled", {NoKey}, l)
    /\ \/ /\ Operation(l) # "DELETED"
          /\ Request(l, LinkAlive(l.if), SetUp(kernel, l.if, cand[l]), scratch)
       \/ /\ Operation(l) = "DELETED" /\ InCache(l.if)
          /\ Request(l, LinkAlive(l.if), SetUp(kernel, l.if, TRUE), scratch)
       \/ /\ Operation(l) = "DELETED" /\ ~InCache(l.if)
          /\ Succeed(l, kernel, scratch)

\* Fault: a deleted mtu is not replaced by the default.
ipv4_change_mtu_no_default(l) ==
    /\ Handling("mtu", {NoKey}, l)
    /\ Request(l, LinkAlive(l.if), SetMtu(kernel, l.if, cand[l]), scratch)

ipv4_change_mtu(l) ==
    /\ Handling("mtu", {NoKey}, l)
    /\ Request(l, LinkAlive(l.if),
               SetMtu(kernel, l.if,
                      IF Operation(l) = "DELETED" THEN DefaultMtu ELSE cand[l]),
               scratch)

\* Fault: the addresses are removed before the handler fails.
ipv4_change_enabled_flushes(l) ==
    LET accepted == InCache(l.if) /\ nl.anyAddr /\ cand[l] # FALSE
    IN  /\ Handling("ipv4-enabled", {NoKey}, l)
        /\ \/ accepted /\ Succeed(l, kernel, scratch)
           \/ /\ ~accepted
              /\ Error([kernel EXCEPT !.addr = {x \in @ : x[1] # l.if}])

\* enabled = false ends with the positive result of snprintf in error, which
\* is returned as a failure; no address is removed.
ipv4_change_enabled(l) ==
    LET accepted == InCache(l.if) /\ nl.anyAddr /\ cand[l] # FALSE
    IN  /\ Handling("ipv4-enabled", {NoKey}, l)
        /\ \/ accepted /\ Succeed(l, kernel, scratch)
           \/ ~accepted /\ Error(kernel)

PrefixData(d, set, length) ==
    [prefix_set |-> set, prefix_length |-> length, lladdr |-> d.lladdr]

\* get_prefix_length / get_netmask: store the value of the changed leaf.
CollectPrefix(s, f, leaves) ==
    IF Changed(leaves) = {} THEN s
    ELSE [s EXCEPT ![f] = PrefixData(@, TRUE, cand[CHOOSE l \in Changed(leaves) : TRUE])]

CollectNetmask(s, f, leaves) ==
    IF s[f].prefix_set \/ Changed(leaves) = {} THEN s
    ELSE [s EXCEPT ![f] = PrefixData(@, TRUE,
                              Netmask2Prefix(cand[CHOOSE l \in Changed(leaves) : TRUE]))]

\* Fault: the collected prefix length is kept for the next entry.
ResetPrefix_forgotten(s, f) == s

ResetPrefix(s, f) == [s EXCEPT ![f] = PrefixData(@, FALSE, 0)]

\* ip is a list key: it is created or deleted, never modified. s is mod_data
\* after the getters, ready what they have to have found.
ChangeAddress(l, f, s, ready) ==
    LET i == l.if
        a == l.key
        new == s[f].prefix_length
        old == PrefixOf(running, i, a)
    IN  \/ /\ Operation(l) = "CREATED"
           /\ Request(l, LinkAlive(i) /\ ready /\ <<i, a, new>> \notin kernel.addr,
                      AddAddr(kernel, i, a, new), ResetPrefix(s, f))
        \/ /\ Operation(l) = "DELETED"
           /\ Request(l, LinkAlive(i) /\ <<i, a, old>> \in kernel.addr,
                      DeleteAddr(kernel, i, a, old), ResetPrefix(scratch, f))

ipv4_address_change_ip(l) ==
    LET s == CollectNetmask(CollectPrefix(scratch, "ipv4", PrefixLengthXpath(l.if, l.key)),
                            "ipv4", NetmaskXpath(l.if, l.key))
    IN  /\ Handling("ip", Addr4, l)
        /\ ChangeAddress(l, "ipv4", s, s["ipv4"].prefix_set)

ipv6_address_change_ip(l) ==
    LET s == CollectPrefix(scratch, "ipv6", PrefixLengthXpath(l.if, l.key))
    IN  Handling("ip", Addr6, l) /\ ChangeAddress(l, "ipv6", s, TRUE)

\* Fault: the address is deleted and not added with the new prefix length.
ReplaceAddress_deletes(l) ==
    LET old == PrefixOf(running, l.if, l.key)
    IN  \/ Operation(l) # "MODIFIED" /\ LookupOnly(l)
        \/ /\ Operation(l) = "MODIFIED"
           /\ Request(l, LinkAlive(l.if) /\ <<l.if, l.key, old>> \in kernel.addr,
                      DeleteAddr(kernel, l.if, l.key, old), scratch)

\* Fault: the link is taken down and up again to change the prefix length.
ReplaceAddress_bounces(l) ==
    LET i == l.if
        bounced == SetUp(SetUp(kernel, i, FALSE), i, TRUE)
    IN  \/ Operation(l) # "MODIFIED" /\ LookupOnly(l)
        \/ /\ Operation(l) = "MODIFIED"
           /\ Request(l, LinkAlive(i),
                      AddAddr(bounced, i, l.key, PrefixOf(cand, i, l.key)), scratch)

\* A new value replaces the address, by a delete and an add; a leaf that
\* appears or disappears is left to the ip handler.
ReplaceAddress(l) ==
    LET i == l.if
        a == l.key
        old == PrefixOf(running, i, a)
        new == PrefixOf(cand, i, a)
        removed == DeleteAddr(kernel, i, a, old)
        deletable == LinkAlive(i) /\ <<i, a, old>> \in kernel.addr
        addable == deletable /\ <<i, a, new>> \notin removed.addr
    IN  \/ Operation(l) # "MODIFIED" /\ LookupOnly(l)
        \/ /\ Operation(l) = "MODIFIED"
           /\ \/ addable /\ Succeed(l, AddAddr(removed, i, a, new), scratch)
              \/ addable /\ Refuse(removed)
              \/ deletable /\ Refuse(kernel)
              \/ deletable /\ ~addable /\ Error(removed)
              \/ ~deletable /\ Error(kernel)

ipv4_address_change_prefix_length(l) == Handling("prefix-length", Addr4, l) /\ ReplaceAddress(l)
ipv4_address_change_netmask(l) == Handling("netmask", Addr4, l) /\ ReplaceAddress(l)
ipv6_address_change_prefix_length(l) == Handling("prefix-length", Addr6, l) /\ ReplaceAddress(l)

LlData(d, ll) ==
    [prefix_set |-> d.prefix_set, prefix_length |-> d.prefix_length, lladdr |-> ll]

\* get_link_layer_address
CollectLlAddr(s, f, leaves) ==
    IF Changed(leaves) = {} THEN s
    ELSE [s EXCEPT ![f] = LlData(@, cand[CHOOSE l \in Changed(leaves) : TRUE])]

ResetLlAddr(s, f) == [s EXCEPT ![f] = LlData(@, NoValue)]

ChangeNeighbor(l, f) ==
    LET i == l.if
        n == l.key
        s == CollectLlAddr(scratch, f, LlAddrXpath(i, n))
    IN  \/ /\ Operation(l) = "CREATED"
           /\ Request(l, LinkAlive(i) /\ s[f].lladdr # NoValue,
                      CreateNeigh(kernel, i, n, s[f].lladdr), ResetLlAddr(s, f))
        \/ /\ Operation(l) = "DELETED"
           /\ Request(l, LinkAlive(i) /\ HasNeigh(kernel, i, n),
                      DeleteNeigh(kernel, i, n), ResetLlAddr(scratch, f))

ipv4_neighbor_change_ip(l) == Handling("neighbor-ip", Neigh4, l) /\ ChangeNeighbor(l, "ipv4")
ipv6_neighbor_change_ip(l) == Handling("neighbor-ip", Neigh6, l) /\ ChangeNeighbor(l, "ipv6")

\* Fault: NLM_F_CREATE instead of NLM_F_REPLACE.
ReplaceNeighbor_creates(l) ==
    \/ Operation(l) # "MODIFIED" /\ LookupOnly(l)
    \/ /\ Operation(l) = "MODIFIED"
       /\ Request(l, LinkAlive(l.if), CreateNeigh(kernel, l.if, l.key, cand[l]), scratch)

\* NLM_F_REPLACE without NLM_F_CREATE needs the entry to exist.
ReplaceNeighbor(l) ==
    \/ Operation(l) # "MODIFIED" /\ LookupOnly(l)
    \/ /\ Operation(l) = "MODIFIED"
       /\ Request(l, LinkAlive(l.if) /\ HasNeigh(kernel, l.if, l.key),
                  ReplaceNeigh(kernel, l.if, l.key, cand[l]), scratch)

ipv4_neighbor_change_link_layer_address(l) ==
    Handling("link-layer-address", Neigh4, l) /\ ReplaceNeighbor(l)
ipv6_neighbor_change_link_layer_address(l) ==
    Handling("link-layer-address", Neigh6, l) /\ ReplaceNeighbor(l)

-----------------------------------------------------------------------------
(* Everybody else on the host: links come and go, addresses are changed    *)
(* by hand or by a DHCP client, a link is taken down.                      *)

External(k) ==
    /\ external < MaxExternal /\ external' = external + 1
    /\ kernel' = k /\ k # kernel
    /\ UNCHANGED <<running, cand, event, phase, todo, nl, scratch, instep, refused>>

ExternalLink(i) ==
    \/ kernel.link[i] = Gone /\ FreshIfindex # {} /\ External(AddLink(kernel, i))
    \/ kernel.link[i] # Gone /\ External(DeleteLink(kernel, i))
    \/ kernel.link[i] # Gone /\ External(SetUp(kernel, i, FALSE))

ExternalAddr(i, a, p) ==
    \/ kernel.link[i] # Gone /\ External(AddAddr(kernel, i, a, p))
    \/ kernel.link[i] # Gone /\ External(DeleteAddr(kernel, i, a, p))

-----------------------------------------------------------------------------
Handle(l) ==
    \/ change_name(l) \/ change_description(l) \/ change_type(l) \/ change_enabled(l)
    \/ change_link_up_down_trap_enable(l)
    \/ ipv4_change_mtu(l) \/ ipv4_change_enabled(l)
    \/ ipv4_address_change_ip(l)
    \/ ipv4_address_change_prefix_length(l) \/ ipv4_address_change_netmask(l)
    \/ ipv4_neighbor_change_ip(l) \/ ipv4_neighbor_change_link_layer_address(l)
    \/ ipv6_address_change_ip(l) \/ ipv6_address_change_prefix_length(l)
    \/ ipv6_neighbor_change_ip(l) \/ ipv6_neighbor_change_link_layer_address(l)

Callback == \/ StartPhase \/ FinishPhase \/ ReturnOK
            \/ \E l \in todo : Handle(l)

Sysrepo == ApplyChanges \/ DoneEvent \/ AbortEvent \/ DropEdit

Others == \/ \E i \in Iface : ExternalLink(i)
          \/ \E i \in Iface, a \in Addr, p \in PrefixLen : ExternalAddr(i, a, p)

Next == Callback \/ Sysrepo \/ Others

Spec == Init /\ [][Next]_vars

\* The subscription thread of sysrepo keeps running the callback.
FairSpec == Spec /\ WF_vars(Callback)

-----------------------------------------------------------------------------
(* Properties                                                              *)

TypeOK ==
    /\ WellFormed(running) /\ WellFormed(cand)
    /\ event \in {"idle", "change", "applied", "failed", "aborted"}
    /\ phase \in 1..(Len(Phases) + 1)
    /\ todo \subseteq Leaf
    /\ nl \in Snapshot /\ scratch \in [Family -> ModData] /\ kernel \in Kernel
    /\ instep \in BOOLEAN
    /\ external \in 0..MaxExternal /\ refused \in 0..MaxRefusal

\* Nobody interfered with the event so far, and it found the kernel in step.
Alone == external = 0 /\ refused = 0
Undisturbed == instep /\ Alone

\* Every handler starts from a clean context: mod_data holds nothing of the
\* entry handled before it, in this phase or an earlier one, and between two
\* phases and two events no netlink cache is allocated, on error paths too;
\* only changed leaves are handled.
ContextClean ==
    /\ scratch = NoScratch
    /\ ~nl.open => nl = NoSnapshot /\ todo = {}
    /\ todo \subseteq Changed(Leaf)
    /\ nl.open => event = "change" /\ phase <= Len(Phases)

\* The asserts of get_prefix_length, get_netmask and get_link_layer_address:
\* the leaves they are called for while an entry is created are CREATED too.
GetterAssertions ==
    \A l \in todo : Operation(l) = "CREATED" =>
        /\ l.kind = "ip" =>
              \A m \in Changed(PrefixLengthXpath(l.if, l.key)
                               \cup NetmaskXpath(l.if, l.key)) : Operation(m) = "CREATED"
        /\ l.kind = "neighbor-ip" =>
              \A m \in Changed(LlAddrXpath(l.if, l.key)) : Operation(m) = "CREATED"

\* Every address a handler puts in the kernel is an address of the edit, with
\* the prefix length the edit gives to that very list entry, never one left
\* in mod_data by another entry.
AddedAddressesAreConfigured ==
    [][\A x \in kernel'.addr \ kernel.addr :
          external' = external => /\ Exists(cand, "ip", x[1], x[2])
                                  /\ x[3] = PrefixOf(cand, x[1], x[2])]_vars

\* The address changed between prefix-length and netmask in this edit.
SubnetSwitched(i, a) ==
    /\ Exists(running, "ip", i, a) /\ Exists(cand, "ip", i, a)
    /\ Exists(running, "prefix-length", i, a) # Exists(cand, "prefix-length", i, a)

\* What the kernel has to hold once an edit is accepted. A link the edit
\* leaves down keeps no IPv6 address and no neighbour.
EditRealized ==
    \A i \in Iface : Exists(cand, "name", i, NoKey) =>
        /\ LinkRealized(kernel, cand, i)
        /\ \A a \in Addr : Exists(cand, "ip", i, a) /\ ~SubnetSwitched(i, a)
                              /\ (a \in Addr4 \/ kernel.up[i])
                           => AddrRealized(kernel, cand, i, a)
        /\ \A n \in Neigh : Exists(cand, "neighbor-ip", i, n) /\ kernel.up[i]
                            => NeighRealized(kernel, cand, i, n)

\* What the kernel may no longer hold then.
EditRemoved ==
    \A i \in Iface :
        /\ Exists(running, "name", i, NoKey) /\ ~Exists(cand, "name", i, NoKey)
           => kernel.link[i] = Gone
        /\ \A a \in Addr : Exists(running, "ip", i, a) /\ ~Exists(cand, "ip", i, a)
                           => ~AddrRealized(kernel, running, i, a)
        /\ \A n \in Neigh :
              Exists(running, "neighbor-ip", i, n) /\ ~Exists(cand, "neighbor-ip", i, n)
              => ~HasNeigh(kernel, i, n)

\* The interface is deleted and has configuration below ipv4 or ipv6.
DeletesIpConfig(i) ==
    /\ Exists(running, "name", i, NoKey) /\ ~Exists(cand, "name", i, NoKey)
    /\ \E l \in Leaf : l.if = i /\ running[l] # NoValue
                       /\ l.kind \notin {"name", "type", "enabled"} \cup IgnoredKinds

\* The link goes down in the edit that also changes something the kernel
\* flushes from a link that goes down.
ChangesFlushed(i) ==
    /\ cand[LeafAt("enabled", i, NoKey)] = FALSE
    /\ \E l \in Changed(Leaf) : l.if = i /\ l.key \in Addr6 \cup Neigh

\* What the plugin cannot do: an interface deleted together with its IP
\* configuration, IPv4 disabled, a type outside the table, IPv4 configured on
\* a host without any address, or a link taken down in the edit that changes
\* what goes away with it.
Unrealizable ==
    \E i \in Iface :
        \/ DeletesIpConfig(i)
        \/ cand[LeafAt("ipv4-enabled", i, NoKey)] = FALSE
        \/ /\ Exists(cand, "type", i, NoKey)
           /\ cand[LeafAt("type", i, NoKey)] \notin HandledTypes
        \/ ~OtherAddr /\ LeafAt("ipv4-enabled", i, NoKey) \in Changed(Leaf)
        \/ ChangesFlushed(i)

\* The verdict of the callback on an edit that found the kernel in step with
\* the running datastore and was not disturbed is right, through all sixteen
\* phases and whatever the order of the changes within a phase: accepted, the
\* kernel holds what the edit asks for and no longer what the edit removed;
\* rejected, the reason is in the edit itself.
VerdictRight ==
    Undisturbed =>
        /\ event = "applied" => EditRealized /\ EditRemoved
        /\ event = "failed" => Unrealizable

Unchanged(kind, i, key) == Operation(LeafAt(kind, i, key)) = "NONE"
SubnetUnchanged(i, a) ==
    /\ Unchanged("prefix-length", i, a)
    /\ a \in Addr4 => Unchanged("netmask", i, a)

\* However an edit ends, half-way through a refused request included, it has
\* not touched what it does not change: an interface that stays keeps its
\* link, an entry that stays keeps its place in the kernel unless the link is
\* taken down under it.
UntouchedEntriesSurvive ==
    event # "idle" /\ instep /\ external = 0 =>
        \A i \in Iface :
            Exists(running, "name", i, NoKey) /\ Exists(cand, "name", i, NoKey) =>
                /\ kernel.link[i] # Gone
                /\ Unchanged("enabled", i, NoKey) =>
                      kernel.up[i] = running[LeafAt("enabled", i, NoKey)]
                /\ \A a \in Addr :
                      /\ Exists(running, "ip", i, a) /\ Exists(cand, "ip", i, a)
                      /\ SubnetUnchanged(i, a)
                      /\ a \in Addr4 \/ Unchanged("enabled", i, NoKey)
                      => AddrRealized(kernel, running, i, a)
                /\ \A n \in Neigh :
                      /\ Exists(running, "neighbor-ip", i, n)
                      /\ Unchanged("neighbor-ip", i, n)
                      /\ Unchanged("link-layer-address", i, n)
                      /\ Unchanged("enabled", i, NoKey)
                      => NeighRealized(kernel, running, i, n)

\* The edit only creates interfaces and changes the state or a supported type
\* of interfaces whose link is there.
LinkEdit ==
    \A l \in Changed(Leaf) :
        /\ l.kind \in {"name", "type", "enabled"} \cup IgnoredKinds
        /\ Operation(l) # "DELETED"
        /\ l.kind = "type" => cand[l] \in HandledTypes
        /\ Operation(LeafAt("name", l.if, NoKey)) = "CREATED" \/ kernel.link[l.if] # Gone

\* Whatever rejected, refused or aborted edits left in the kernel, a link
\* edit goes through as soon as nobody interferes with it: creating a link
\* that an earlier attempt has created already is not an error.
LinkEditRetryable == ~(event = "failed" /\ Alone /\ LinkEdit)

\* Once started, the callback returns.
EventCompletes == event = "change" ~> event \in {"applied", "failed"}

-----------------------------------------------------------------------------
(* What comments and documents of the repository say and the code does not *)
(* do.                                                                     *)

\* "instead of `prefix-length` node use `netmask`": an address whose subnet is
\* given in the other form gets that subnet.
SubnetFormsInterchangeable ==
    event = "applied" /\ Undisturbed =>
        \A i \in Iface, a \in Addr4 :
            Exists(cand, "ip", i, a) => AddrRealized(kernel, cand, i, a)
=============================================================================
