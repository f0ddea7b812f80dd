-------------------------- MODULE InterfaceGetters --------------------------
(***************************************************************************)
(* The operational data of the interfaces plugin.  sysrepo answers a       *)
(* request by calling the getter of the interface list, which fills the    *)
(* three netlink caches of oper_ctx, and then, getter by getter, the ones  *)
(* below it for every parent there is: those reported so far, and those of *)
(* the running datastore unless it has removed them.  All of them run on   *)
(* the one subscription thread, but requests of several clients are open   *)
(* at once, so that the list getter of one refills the caches another      *)
(* still reads.                                                            *)
(* (last-change, which has a lock of its own, is in LinkStateTracking.)    *)
(***************************************************************************)
EXTENDS Integers, Sequences

CONSTANTS
    Client,         \* clients that request operational data
    Name,           \* names of interfaces
    Ip4, Ip6,       \* addresses of the two families
    PrefixLength,   \* prefix lengths
    Counters,       \* values the counters of a link may have
    Width32, Width64,   \* bits of a uint32_t and of a uint64_t
    KernelLinks,    \* links the kernel may have when the plugin starts
    KernelEntries,  \* addresses and neighbours it may have then
    Configured,     \* what running may have
    MaxIfindex,     \* bound on interface indexes
    MaxExternal,    \* bound on changes of the host
    MaxRefusal      \* bound on refused calls in a life of the plugin

Ip == Ip4 \cup Ip6
Ifindex == 1..MaxIfindex
NoMaster == 0

\* The counters of a link that are more than copied: packets and, of these,
\* the broadcast and multicast ones, and packets dropped.
Word == 0..2^Width64 - 1
Direction == [packets : Word, broadcast : Word, multicast : Word, dropped : Word]
Stats == [rx : Direction, tx : Direction]

\* A link may have no link-layer address; a neighbour that is not resolved has
\* none either. What else is read from them is left out.
Link == [name : Name, index : Ifindex, master : Ifindex \cup {NoMaster}, lladdr : BOOLEAN,
         stats : Stats]
Addr == [index : Ifindex, ip : Ip, plen : PrefixLength]
Neigh == [index : Ifindex, ip : Ip, resolved : BOOLEAN]

\* What the getters have in running: parents, and the prefix length of an address.
ConfAddr == [name : Name, ip : Ip, plen : PrefixLength]
Running == [interfaces : SUBSET Name, addresses : SUBSET ConfAddr,
            neighbors : SUBSET [name : Name, ip : Ip]]
NothingRunning == [interfaces |-> {}, addresses |-> {}, neighbors |-> {}]

\* The masters of a link in a set of links, and their masters: the least set
\* that has them.
Above(L, S) == {m \in L : \E l \in S : l.master = m.index}
MastersOf(L, l) ==
    {m \in L : \A S \in SUBSET L : Above(L, S \cup {l}) \subseteq S => m \in S}

\* Names and indexes are unique, masters exist and never go round in a circle; addresses
\* and neighbours belong to links.
LinksOK(L) ==
    /\ \A l, m \in L : l.name = m.name \/ l.index = m.index => l = m
    /\ \A l \in L : l.master = NoMaster \/ \E m \in L : m.index = l.master
    /\ \A l \in L : l \notin MastersOf(L, l)
OnePerIp(E) == \A e, f \in E : e.index = f.index /\ e.ip = f.ip => e = f
EntriesOK(L, E) == OnePerIp(E) /\ \A e \in E : \E l \in L : l.index = e.index

\* KernelEntries has the fields addrs and neighs.
ASSUME GettersAssumption ==
    /\ Ip4 \cap Ip6 = {} /\ MaxIfindex \in Nat \ {0}
    /\ Width32 \in Nat /\ Width64 \in Nat /\ Counters \subseteq Stats
    /\ MaxExternal \in Nat /\ MaxRefusal \in Nat
    /\ \A L \in KernelLinks : L \subseteq Link /\ LinksOK(L)
    /\ KernelEntries \subseteq [addrs : SUBSET Addr, neighs : SUBSET Neigh]
    /\ \A E \in KernelEntries : OnePerIp(E.addrs) /\ OnePerIp(E.neighs)
    /\ Configured \subseteq Running

\* The getters in the order sysrepo calls them, by the depth of their paths.
\* leaf stands for every getter of a leaf that looks its link up and reads
\* one value from it, address_origin and neighbor_origin for those of the
\* leaves of an address or a neighbour of either family.
Getters == <<"leaf", "phys_address", "higher_layer_if", "lower_layer_if",
             "statistics", "ipv4_address", "ipv4_neighbor", "ipv6_address", "ipv6_neighbor",
             "address_origin", "neighbor_origin">>
Stage == {Getters[k] : k \in 1..Len(Getters)}

\* Points of the list getter: before each of its dumps.
InList == {"links", "alloc_addrs", "alloc_neighs", "refill_addrs", "refill_neighs"}

VARIABLES
    link, addr, neigh,                      \* the kernel
    lastIndex,                              \* the highest ifindex given out
    running,                                \* the running datastore
    socket,                                 \* oper_ctx.nl_ctx.socket
    allocated,                              \* which caches there are
    link_cache, addr_cache, neigh_cache,    \* what they hold
    at,                                     \* where the request of a client is
    parents,                                \* parents its getter has yet to serve
    report,                                 \* what was reported to it, and what it
                                            \* keeps of running
    external, refused,
    during, seen     \* history: what happened to a request, what the kernel
                     \* had since it began

kernelVars == <<link, addr, neigh, lastIndex>>
caches == <<socket, allocated, link_cache, addr_cache, neigh_cache>>
requestVars == <<at, parents, report>>
history == <<during, seen>>
vars == <<kernelVars, running, caches, requestVars, external, refused, history>>

Cache == {"links", "addrs", "neighs"}
NoReport == [interfaces |-> {}, phys |-> {}, higher |-> {}, lower |-> {}, stats |-> {},
             addresses |-> {}, neighbors |-> {}, kept |-> NothingRunning]
NothingSeen == [links |-> {}, addrs |-> {}, neighs |-> {}]

Init ==
    /\ \E L \in KernelLinks, E \in KernelEntries :
          /\ EntriesOK(L, E.addrs) /\ EntriesOK(L, E.neighs)
          /\ link = L /\ addr = E.addrs /\ neigh = E.neighs
    /\ \E k \in link : lastIndex = k.index /\ \A l \in link : l.index <= lastIndex
    /\ running \in Configured
    /\ socket = "none" /\ allocated = {}
    /\ link_cache = {} /\ addr_cache = {} /\ neigh_cache = {}
    /\ at = [c \in Client |-> "idle"] /\ parents = [c \in Client |-> {}]
    /\ report = [c \in Client |-> NoReport]
    /\ external = 0 /\ refused = 0
    /\ during = [c \in Client |-> {}] /\ seen = [c \in Client |-> NothingSeen]

-----------------------------------------------------------------------------
(* Requests                                                                *)

Answered == {"idle", "done", "failed"}
Active(c) == at[c] \notin Answered
ThreadFree == \A c \in Client : at[c] \notin InList

GoTo(c, point) == at' = [at EXCEPT ![c] = point]

Fail(c) ==
    /\ GoTo(c, "failed")
    /\ parents' = [parents EXCEPT ![c] = {}] /\ report' = [report EXCEPT ![c] = NoReport]

Note(c, what) == during' = [during EXCEPT ![c] = @ \cup {what}]

Refuse == refused < MaxRefusal /\ refused' = refused + 1

\* NULL is dereferenced: the plugin ends, and is started again with an empty
\* context.
Crash ==
    /\ at' = [c \in Client |-> IF Active(c) THEN "failed" ELSE at[c]]
    /\ parents' = [c \in Client |-> {}]
    /\ report' = [c \in Client |-> IF Active(c) THEN NoReport ELSE report[c]]
    /\ socket' = "none" /\ allocated' = {} /\ refused' = 0
    /\ link_cache' = {} /\ addr_cache' = {} /\ neigh_cache' = {}
    /\ UNCHANGED history

\* sysrepo has the answer.
NextRequest(c) ==
    /\ at[c] \in {"done", "failed"} /\ GoTo(c, "idle")
    /\ report' = [report EXCEPT ![c] = NoReport]
    /\ during' = [during EXCEPT ![c] = {}] /\ seen' = [seen EXCEPT ![c] = NothingSeen]
    /\ UNCHANGED <<kernelVars, running, caches, parents, external, refused>>

-----------------------------------------------------------------------------
(* interfaces_subscription_operational_interfaces_interface                *)

\* sysrepo has loaded running, and keeps or removes the instances it has where
\* getters are subscribed. The socket is opened once. One that could not be
\* connected stays, and no later request connects it.
ListStart(c) ==
    /\ at[c] = "idle" /\ ThreadFree
    /\ \/ socket' = (IF socket = "none" THEN "connected" ELSE socket)
          /\ GoTo(c, "links") /\ UNCHANGED <<parents, refused>>
          /\ \E k \in {running, NothingRunning} : report' = [report EXCEPT ![c].kept = k]
       \/ socket = "none" /\ Refuse /\ socket' \in {"none", "unconnected"} /\ Fail(c)
    /\ seen' = [seen EXCEPT ![c] = [links |-> link, addrs |-> addr, neighs |-> neigh]]
    /\ UNCHANGED <<kernelVars, running, external, allocated, link_cache, addr_cache, neigh_cache, during>>

DumpWorks == socket = "connected" /\ UNCHANGED refused
DumpFails == IF socket = "connected" THEN Refuse ELSE UNCHANGED refused

InGetter == UNCHANGED <<kernelVars, running, external, seen>>

\* Fault: the result of rtnl_link_alloc_cache is ignored like the others.
DumpLinks_unchecked(c) ==
    /\ at[c] = "links"
    /\ \/ DumpWorks /\ link_cache' = link /\ allocated' = allocated \cup {"links"}
       \/ DumpFails /\ link_cache' = {} /\ UNCHANGED allocated
    /\ GoTo(c, IF "links" \in allocated THEN "refill_addrs" ELSE "alloc_addrs")
    /\ UNCHANGED <<socket, addr_cache, neigh_cache, parents, report, during>> /\ InGetter

\* The links: rtnl_link_alloc_cache, or nl_cache_refill, which has cleared the
\* cache when it fails and whose result is ignored. Which of the two decides
\* for the other caches too. The other requests now read these caches.
DumpLinks(c) ==
    /\ at[c] = "links"
    /\ \/ /\ DumpWorks /\ link_cache' = link /\ allocated' = allocated \cup {"links"}
          /\ GoTo(c, IF "links" \in allocated THEN "refill_addrs" ELSE "alloc_addrs")
          /\ during' = [d \in Client |-> IF d # c /\ Active(d) THEN during[d] \cup {"overtaken"}
                                         ELSE during[d]]
          /\ UNCHANGED <<parents, report>>
       \/ /\ "links" \in allocated /\ DumpFails /\ link_cache' = {}
          /\ GoTo(c, "refill_addrs")
          /\ during' = [d \in Client |-> IF d = c THEN during[d] \cup {"refused"}
                                         ELSE IF Active(d) THEN during[d] \cup {"overtaken"}
                                         ELSE during[d]]
          /\ UNCHANGED <<parents, report, allocated>>
       \/ /\ "links" \notin allocated /\ DumpFails /\ Fail(c)
          /\ UNCHANGED <<link_cache, allocated, during>>
    /\ UNCHANGED <<socket, addr_cache, neigh_cache>> /\ InGetter

\* Fault: an address cache that cannot be refilled keeps what it has.
DumpAddrs_keeps(c) ==
    /\ \/ /\ at[c] \in {"alloc_addrs", "refill_addrs"}
          /\ at[c] = "refill_addrs" => "addrs" \in allocated
          /\ DumpWorks /\ addr_cache' = addr /\ allocated' = allocated \cup {"addrs"}
          /\ GoTo(c, IF at[c] = "alloc_addrs" THEN "alloc_neighs" ELSE "refill_neighs")
          /\ UNCHANGED <<socket, link_cache, neigh_cache, parents, report, during>>
       \/ /\ at[c] = "refill_addrs" /\ "addrs" \in allocated
          /\ DumpFails /\ GoTo(c, "refill_neighs") /\ Note(c, "refused")
          /\ UNCHANGED <<caches, parents, report>>
       \/ at[c] = "alloc_addrs" /\ DumpFails /\ Fail(c) /\ UNCHANGED <<caches, during>>
       \/ at[c] = "refill_addrs" /\ "addrs" \notin allocated /\ Crash
    /\ InGetter

\* The addresses. A cache that was not allocated when the links were cannot
\* be refilled.
DumpAddrs(c) ==
    /\ \/ /\ at[c] \in {"alloc_addrs", "refill_addrs"}
          /\ at[c] = "refill_addrs" => "addrs" \in allocated
          /\ DumpWorks /\ addr_cache' = addr /\ allocated' = allocated \cup {"addrs"}
          /\ GoTo(c, IF at[c] = "alloc_addrs" THEN "alloc_neighs" ELSE "refill_neighs")
          /\ UNCHANGED <<socket, link_cache, neigh_cache, parents, report, during>>
       \/ /\ at[c] = "refill_addrs" /\ "addrs" \in allocated
          /\ DumpFails /\ addr_cache' = {} /\ GoTo(c, "refill_neighs") /\ Note(c, "refused")
          /\ UNCHANGED <<socket, allocated, link_cache, neigh_cache, parents, report>>
       \/ at[c] = "alloc_addrs" /\ DumpFails /\ Fail(c) /\ UNCHANGED <<caches, during>>
       \/ at[c] = "refill_addrs" /\ "addrs" \notin allocated /\ Crash
    /\ InGetter

\* The parents of a getter: what was reported so far, and what is kept of running
\* and was not reported.
ParentsOf(getter, rep) ==
    CASE getter = "address_origin"  ->
             rep.addresses \cup {k \in rep.kept.addresses :
                                   \A r \in rep.addresses : r.name # k.name \/ r.ip # k.ip}
      [] getter = "neighbor_origin" -> rep.neighbors \cup rep.kept.neighbors
      [] OTHER                      -> rep.interfaces \cup rep.kept.interfaces

\* sysrepo has the report so far, and goes on to the first of the getters from
\* the k-th on that has a parent, or answers.
GoOn(c, k, rep) ==
    LET rest == {j \in k..Len(Getters) : ParentsOf(Getters[j], rep) # {}}
    IN  /\ report' = [report EXCEPT ![c] = rep]
        /\ \/ rest = {} /\ GoTo(c, "done") /\ parents' = [parents EXCEPT ![c] = {}]
           \/ \E j \in rest :
                 /\ \A i \in rest : j <= i
                 /\ GoTo(c, Getters[j])
                 /\ parents' = [parents EXCEPT ![c] = ParentsOf(Getters[j], rep)]

\* An interface with its containers is added for every link of the cache.
AddInterfaces(c) == GoOn(c, 1, [report[c] EXCEPT !.interfaces = {l.name : l \in link_cache}])

\* Fault: the neighbours that could not be had are passed over.
DumpNeighs_unchecked(c) ==
    /\ at[c] \in {"alloc_neighs", "refill_neighs"}
    /\ \/ /\ DumpWorks /\ neigh_cache' = neigh /\ allocated' = allocated \cup {"neighs"}
          /\ UNCHANGED during
       \/ DumpFails /\ neigh_cache' = {} /\ Note(c, "refused") /\ UNCHANGED allocated
    /\ AddInterfaces(c)
    /\ UNCHANGED <<socket, link_cache, addr_cache>> /\ InGetter

DumpNeighs(c) ==
    /\ \/ /\ at[c] \in {"alloc_neighs", "refill_neighs"}
          /\ at[c] = "refill_neighs" => "neighs" \in allocated
          /\ DumpWorks /\ neigh_cache' = neigh /\ allocated' = allocated \cup {"neighs"}
          /\ AddInterfaces(c)
          /\ UNCHANGED <<socket, link_cache, addr_cache, during>>
       \/ /\ at[c] = "refill_neighs" /\ "neighs" \in allocated
          /\ DumpFails /\ neigh_cache' = {} /\ AddInterfaces(c) /\ Note(c, "refused")
          /\ UNCHANGED <<socket, allocated, link_cache, addr_cache>>
       \/ at[c] = "alloc_neighs" /\ DumpFails /\ Fail(c) /\ UNCHANGED <<caches, during>>
       \/ at[c] = "refill_neighs" /\ "neighs" \notin allocated /\ Crash
    /\ InGetter

-----------------------------------------------------------------------------
(* The getters below the list                                              *)

Called(c, getter, p) ==
    /\ at[c] = getter /\ ThreadFree /\ p \in parents[c]
    /\ UNCHANGED <<kernelVars, running, caches, external, refused, history>>

Report(c, p, rep) ==
    \/ /\ parents[c] # {p} /\ parents' = [parents EXCEPT ![c] = @ \ {p}]
       /\ report' = [report EXCEPT ![c] = rep] /\ UNCHANGED at
    \/ parents[c] = {p} /\ \E k \in 1..Len(Getters) : at[c] = Getters[k] /\ GoOn(c, k + 1, rep)

\* interfaces_get_current_link
CurrentLink(n) == {l \in link_cache : l.name = n}

leaf(c, n) ==
    /\ Called(c, "leaf", n)
    /\ \/ CurrentLink(n) # {} /\ Report(c, n, report[c])
       \/ CurrentLink(n) = {} /\ Fail(c)

phys_address(c, n) ==
    /\ Called(c, "phys_address", n)
    /\ \/ /\ \E l \in CurrentLink(n) : l.lladdr
          /\ Report(c, n, [report[c] EXCEPT !.phys = @ \cup {n}])
       \/ (\A l \in CurrentLink(n) : ~l.lladdr) /\ Fail(c)

\* Masters are taken from the same dump as the link, which has them all.
higher_layer_if(c, n) ==
    /\ Called(c, "higher_layer_if", n)
    /\ \/ \E l \in CurrentLink(n) :
             Report(c, n, [report[c] EXCEPT !.higher =
                              @ \cup {<<n, m.name>> : m \in MastersOf(link_cache, l)}])
       \/ CurrentLink(n) = {} /\ Fail(c)

\* The masters of the link itself are compared with it, once for each link of
\* the cache.
lower_layer_if(c, n) ==
    /\ Called(c, "lower_layer_if", n)
    /\ \/ \E l \in CurrentLink(n) :
             Report(c, n, [report[c] EXCEPT !.lower = @ \cup
                 {<<n, k.name>> : k \in {x \in link_cache :
                                           \E m \in MastersOf(link_cache, l) : m.name = n}}])
       \/ CurrentLink(n) = {} /\ Fail(c)

\* in-unicast-pkts and out-unicast-pkts, in uint64_t.
Unicast(d) == (d.packets - d.broadcast - d.multicast) % 2^Width64

\* in-discards, cast to uint32_t like in-errors and in-unknown-protos;
\* out-discards, which is not, and out-errors, which is read from it.
in_discards(s) == s.rx.dropped % 2^Width32
out_discards(s) == s.tx.dropped

\* Discards are a counter32, which does not take a larger value.
statistics(c, n) ==
    /\ Called(c, "statistics", n)
    /\ \/ \E l \in CurrentLink(n) :
             IF out_discards(l.stats) < 2^Width32
               THEN Report(c, n, [report[c] EXCEPT !.stats = @ \cup
                        {[name |-> n, in_unicast |-> Unicast(l.stats.rx),
                          out_unicast |-> Unicast(l.stats.tx),
                          in_discards |-> in_discards(l.stats),
                          out_discards |-> out_discards(l.stats)]}])
               ELSE Fail(c)
       \/ CurrentLink(n) = {} /\ Fail(c)

\* The address list of a link, one getter for each family.
AddressList(c, getter, n, ips) ==
    /\ Called(c, getter, n)
    /\ \/ \E l \in CurrentLink(n) :
             LET mine == {a \in addr_cache : a.index = l.index /\ a.ip \in ips}
             IN  Report(c, n, [report[c] EXCEPT !.addresses = @ \cup
                     {[name |-> n, ip |-> a.ip, plen |-> a.plen] : a \in mine}])
       \/ CurrentLink(n) = {} /\ Fail(c)

ipv4_address(c, n) == AddressList(c, "ipv4_address", n, Ip4)
ipv6_address(c, n) == AddressList(c, "ipv6_address", n, Ip6)

\* The neighbour lists; a neighbour without a link-layer address is an error.
NeighborList(c, getter, n, ips) ==
    /\ Called(c, getter, n)
    /\ \/ \E l \in CurrentLink(n) :
             LET mine == {x \in neigh_cache : x.index = l.index /\ x.ip \in ips}
             IN  IF \A x \in mine : x.resolved
                   THEN Report(c, n, [report[c] EXCEPT !.neighbors = @ \cup
                            {[name |-> n, ip |-> x.ip] : x \in mine}])
                   ELSE Fail(c)
       \/ CurrentLink(n) = {} /\ Fail(c)

\* Fault: copied from IPv4 with its address family.
ipv6_neighbor_af_inet(c, n) == NeighborList(c, "ipv6_neighbor", n, Ip4)

ipv4_neighbor(c, n) == NeighborList(c, "ipv4_neighbor", n, Ip4)
ipv6_neighbor(c, n) == NeighborList(c, "ipv6_neighbor", n, Ip6)

\* address/origin, and status: the prefix length is read from running, and the
\* address with that prefix length is looked up in the cache.
address_origin(c, r) ==
    /\ Called(c, "address_origin", r)
    /\ LET found == \E l \in CurrentLink(r.name), v \in running.addresses, a \in addr_cache :
                        /\ v.name = r.name /\ v.ip = r.ip
                        /\ a.index = l.index /\ a.ip = r.ip /\ a.plen = v.plen
       IN  \/ found /\ Report(c, r, report[c])
           \/ ~found /\ Fail(c)

\* Fault: the neighbour is looked up in the address cache.
neighbor_origin_addr_cache(c, r) ==
    /\ Called(c, "neighbor_origin", r)
    /\ LET found == \E l \in CurrentLink(r.name), x \in addr_cache :
                        x.index = l.index /\ x.ip = r.ip
       IN  \/ found /\ Report(c, r, report[c])
           \/ ~found /\ Fail(c)

\* neighbor/origin, is-router and state.
neighbor_origin(c, r) ==
    /\ Called(c, "neighbor_origin", r)
    /\ LET found == \E l \in CurrentLink(r.name), x \in neigh_cache :
                        x.index = l.index /\ x.ip = r.ip
       IN  \/ found /\ Report(c, r, report[c])
           \/ ~found /\ Fail(c)

-----------------------------------------------------------------------------
(* The host: the kernel and running change at any time.                    *)

HostBecomes(L, A, N, R) ==
    LET A2 == {a \in A : \E l \in L : l.index = a.index}
        N2 == {x \in N : \E l \in L : l.index = x.index}
    IN  /\ external < MaxExternal /\ external' = external + 1
        /\ <<L, A, N, R>> # <<link, addr, neigh, running>>
        /\ link' = L /\ addr' = A2 /\ neigh' = N2 /\ running' = R
        /\ during' = [c \in Client |-> IF at[c] = "idle" THEN {} ELSE during[c] \cup {"changed"}]
        /\ seen' = [c \in Client |->
                       IF Active(c) THEN [links  |-> seen[c].links \cup L,
                                          addrs  |-> seen[c].addrs \cup A2,
                                          neighs |-> seen[c].neighs \cup N2]
                       ELSE seen[c]]
        /\ UNCHANGED <<caches, requestVars, refused>>

LinkCreated ==
    \E n \in Name, b \in BOOLEAN, s \in Counters :
       /\ \A l \in link : l.name # n
       /\ lastIndex < MaxIfindex /\ lastIndex' = lastIndex + 1
       /\ HostBecomes(link \cup {[name |-> n, index |-> lastIndex', master |-> NoMaster,
                                  lladdr |-> b, stats |-> s]}, addr, neigh, running)

\* A link is deleted, and is nobody's master any more.
LinkDeleted ==
    \E l \in link :
       /\ HostBecomes({IF m.master = l.index THEN [m EXCEPT !.master = NoMaster] ELSE m :
                         m \in link \ {l}}, addr, neigh, running)
       /\ UNCHANGED lastIndex

LinkEnslaved ==
    \E l, m \in link :
       /\ l # m /\ l.master = NoMaster /\ l \notin MastersOf(link, m)
       /\ HostBecomes((link \ {l}) \cup {[l EXCEPT !.master = m.index]}, addr, neigh, running)
       /\ UNCHANGED lastIndex

CountersChanged ==
    \E l \in link, s \in Counters :
       /\ HostBecomes((link \ {l}) \cup {[l EXCEPT !.stats = s]}, addr, neigh, running)
       /\ UNCHANGED lastIndex

EntriesChanged ==
    \E E \in KernelEntries :
       /\ HostBecomes(link, E.addrs, E.neighs, running) /\ UNCHANGED lastIndex

RunningChanged ==
    \E R \in Configured : HostBecomes(link, addr, neigh, R) /\ UNCHANGED lastIndex

-----------------------------------------------------------------------------
ListStep(c) == ListStart(c) \/ DumpLinks(c) \/ DumpAddrs(c) \/ DumpNeighs(c)

GetterStep(c) ==
    \/ \E n \in Name :
          \/ leaf(c, n) \/ phys_address(c, n) \/ higher_layer_if(c, n) \/ lower_layer_if(c, n)
          \/ statistics(c, n)
          \/ ipv4_address(c, n) \/ ipv6_address(c, n) \/ ipv4_neighbor(c, n) \/ ipv6_neighbor(c, n)
    \/ \E r \in parents[c] : address_origin(c, r) \/ neighbor_origin(c, r)

Environment == LinkCreated \/ LinkDeleted \/ LinkEnslaved \/ CountersChanged
               \/ EntriesChanged \/ RunningChanged

Next ==
    \/ \E c \in Client : ListStep(c) \/ GetterStep(c) \/ NextRequest(c)
    \/ Environment

Spec == Init /\ [][Next]_vars

-----------------------------------------------------------------------------
(* Properties                                                              *)

\* Types; one request at a time is in the list getter, a request has parents
\* exactly while a getter below the list serves it, and the caches were
\* allocated one after the other.
TypeOK ==
    /\ lastIndex \in Ifindex /\ link \subseteq Link /\ LinksOK(link)
    /\ \A l \in link : l.index <= lastIndex
    /\ addr \subseteq Addr /\ neigh \subseteq Neigh
    /\ EntriesOK(link, addr) /\ EntriesOK(link, neigh)
    /\ running \in Configured
    /\ socket \in {"none", "unconnected", "connected"}
    /\ link_cache \subseteq Link /\ addr_cache \subseteq Addr /\ neigh_cache \subseteq Neigh
    /\ at \in [Client -> Answered \cup InList \cup Stage]
    /\ \A c, d \in Client : at[c] \in InList /\ at[d] \in InList => c = d
    /\ \A c \in Client : parents[c] # {} <=> at[c] \in Stage
    /\ allocated \in {{}, {"links"}, {"links", "addrs"}, Cache}
    /\ external \in 0..MaxExternal /\ refused \in 0..MaxRefusal

\* What the getters below the list assert: the caches they read are there,
\* whichever requests failed before or refill them meanwhile.
CachesAllocated == \A c \in Client : at[c] \in Stage => allocated = Cache

\* What the statistics mean, for counters of a kernel that fit them: unicast
\* packets and the others add up to all of them.
Counts(r, s) ==
    /\ s.rx.broadcast + s.rx.multicast <= s.rx.packets =>
          r.in_unicast + s.rx.broadcast + s.rx.multicast = s.rx.packets
    /\ s.tx.broadcast + s.tx.multicast <= s.tx.packets =>
          r.out_unicast + s.tx.broadcast + s.tx.multicast = s.tx.packets
    /\ s.rx.dropped < 2^Width32 => r.in_discards = s.rx.dropped
    /\ r.out_discards = s.tx.dropped

\* Nothing reported is left from an earlier request or belongs to another
\* link: there was a link of that name, and the address or neighbour on that
\* very link, at some time since the request began.
ReportedExisted ==
    \A c \in Client :
        /\ report[c].interfaces \subseteq {l.name : l \in seen[c].links}
        /\ \A r \in report[c].stats :
              \E l \in seen[c].links : l.name = r.name /\ Counts(r, l.stats)
        /\ \A r \in report[c].addresses :
              \E l \in seen[c].links, a \in seen[c].addrs :
                 l.name = r.name /\ a.index = l.index /\ a.ip = r.ip /\ a.plen = r.plen
        /\ \A r \in report[c].neighbors :
              \E l \in seen[c].links, x \in seen[c].neighs :
                 l.name = r.name /\ x.index = l.index /\ x.ip = r.ip /\ x.resolved

\* A request that nothing disturbed (no change, no refusal, no other request
\* that filled the caches) is answered with all the kernel has.
QuietReport ==
    \A c \in Client :
        at[c] = "done" /\ during[c] = {} =>
            /\ report[c].interfaces = {l.name : l \in link} /\ report[c].phys = report[c].interfaces
            /\ {r.name : r \in report[c].stats} = report[c].interfaces
            /\ report[c].higher =
                  UNION {{<<l.name, m.name>> : m \in MastersOf(link, l)} : l \in link}
            /\ report[c].addresses =
                  UNION {{[name |-> l.name, ip |-> a.ip, plen |-> a.plen] :
                            a \in {x \in addr : x.index = l.index}} : l \in link}
            /\ report[c].neighbors =
                  UNION {{[name |-> l.name, ip |-> x.ip] :
                            x \in {y \in neigh : y.index = l.index}} : l \in link}

\* Something of running that the caches do not have.
NotInKernel(kept) ==
    \/ \E n \in kept.interfaces : CurrentLink(n) = {}
    \/ \E k \in kept.addresses :
          \A l \in CurrentLink(k.name), a \in addr_cache : a.index # l.index \/ a.ip # k.ip
    \/ \E k \in kept.neighbors :
          \A l \in CurrentLink(k.name), x \in neigh_cache : x.index # l.index \/ x.ip # k.ip

\* A request fails only because a call was refused (now, or to an earlier
\* request, which left a socket that is not connected or a part of the
\* caches), another request refilled the caches, a link has no link-layer
\* address or more drops than fit a counter32, a neighbour is not resolved, an
\* address is not in running with the prefix length it has, or something that
\* is kept of running is not in the kernel.
FailureExplained ==
    [][\A c \in Client :
          at'[c] = "failed" /\ at[c] # "failed" =>
             \/ refused + refused' > 0 \/ "overtaken" \in during[c]
             \/ \E l \in link_cache : ~l.lladdr \/ l.stats.tx.dropped >= 2^Width32
             \/ \E x \in neigh_cache : ~x.resolved
             \/ \E l \in link_cache, a \in addr_cache :
                   /\ a.index = l.index
                   /\ [name |-> l.name, ip |-> a.ip, plen |-> a.plen] \notin running.addresses
             \/ NotInKernel(report[c].kept)]_vars
=============================================================================
