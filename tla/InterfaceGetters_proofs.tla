----------------------- MODULE InterfaceGetters_proofs -----------------------
(***************************************************************************)
(* Proofs about InterfaceGetters, for any clients, interfaces, entries,    *)
(* widths of the counters and bounds.                                      *)
(***************************************************************************)
EXTENDS InterfaceGetters, TLAPS

-----------------------------------------------------------------------------
(* The points of a request                                                 *)

\* The points of a request: in the list getter, below it, and answered.
LEMMA Stages ==
    /\ Stage \cap (InList \cup Answered) = {} /\ InList \cap Answered = {}
    /\ Len(Getters) \in Nat /\ \A k \in 1..Len(Getters) : Getters[k] \in Stage
    BY DEF Stage, Getters, InList, Answered

Point == Answered \cup InList \cup Stage

\* What the caches were allocated for: one after the other, and all of them
\* before a getter below the list is called.
AllocInv ==
    /\ at \in [Client -> Point]
    /\ allocated \in {{}, {"links"}, {"links", "addrs"}, Cache}
    /\ \A c, d \in Client : at[c] \in InList /\ at[d] \in InList => c = d
    /\ \A c \in Client :
          /\ at[c] \in Stage => allocated = Cache
          /\ at[c] = "alloc_addrs" => allocated = {"links"}
          /\ at[c] = "alloc_neighs" => allocated = {"links", "addrs"}
          /\ at[c] = "refill_addrs" => "links" \in allocated
          /\ at[c] = "refill_neighs" => "links" \in allocated /\ "addrs" \in allocated

\* Nothing is allocated in the beginning.
LEMMA AllocInit == Init => AllocInv
    BY Stages DEF Init, AllocInv, Point, Answered, InList

\* Where a getter that is served leaves its request.
LEMMA GoesOn ==
    ASSUME AllocInv, NEW c \in Client, NEW k, NEW rep, GoOn(c, k, rep), k \in Int, k >= 1
    PROVE  \E p \in Stage \cup {"done"} : at' = [at EXCEPT ![c] = p]
<1>1. CASE GoTo(c, "done")
    BY <1>1 DEF GoTo
<1>2. ASSUME NEW j \in k..Len(Getters), GoTo(c, Getters[j])
      PROVE  \E p \in Stage : at' = [at EXCEPT ![c] = p]
    <2>1. j \in 1..Len(Getters)
        BY Stages
    <2>2. QED  BY <1>2, <2>1, Stages DEF GoTo
<1>3. QED  BY <1>1, <1>2 DEF GoOn

\* What has to be allocated at a point.
Needs(p, a) ==
    /\ p \in Stage => a = Cache
    /\ p = "alloc_addrs" => a = {"links"}
    /\ p = "alloc_neighs" => a = {"links", "addrs"}
    /\ p = "refill_addrs" => "links" \in a
    /\ p = "refill_neighs" => "links" \in a /\ "addrs" \in a

\* One client goes on; only the one in the list getter allocates.
LEMMA AllocMoves ==
    ASSUME AllocInv, NEW c \in Client, NEW p \in Point, at' = [at EXCEPT ![c] = p],
           at[c] \in InList \/ (allocated' = allocated /\ (p \in InList => ThreadFree)),
           allocated' \in {{}, {"links"}, {"links", "addrs"}, Cache},
           allocated \subseteq allocated', Needs(p, allocated')
    PROVE  AllocInv'
<1>1. at' \in [Client -> Point] /\ at'[c] = p /\ \A d \in Client : d # c => at'[d] = at[d]
    BY DEF AllocInv
<1>2. ASSUME NEW d \in Client, NEW e \in Client, at'[d] \in InList, at'[e] \in InList PROVE d = e
    BY <1>1, <1>2 DEF AllocInv, ThreadFree
<1>3. ASSUME NEW d \in Client PROVE Needs(at'[d], allocated')
    <2>1. CASE d = c
        BY <1>1, <2>1
    <2>2. CASE d # c /\ at[d] \in InList
        BY <1>1, <2>2 DEF AllocInv, Needs
    <2>3. CASE d # c /\ at[d] \notin InList
        BY <1>1, <2>3 DEF AllocInv, Needs, InList, Cache
    <2>4. QED  BY <2>1, <2>2, <2>3
<1>4. QED  BY <1>1, <1>2, <1>3 DEF AllocInv, Needs

\* A request that fails leaves the caches as they are allocated.
LEMMA AllocFails ==
    ASSUME AllocInv, NEW c \in Client, Fail(c), allocated' = allocated
    PROVE  AllocInv'
<1>1. Needs("failed", allocated) /\ "failed" \in Point /\ "failed" \notin InList
    BY Stages DEF Needs, Point, Answered, InList
<1>2. QED  BY <1>1, AllocMoves DEF Fail, GoTo, AllocInv

\* After a crash no cache is allocated and nobody reads one.
LEMMA AllocCrash == ASSUME AllocInv, Crash PROVE AllocInv'
<1>1. at' \in [Client -> Answered] /\ allocated' = {}
    BY DEF Crash, Active, AllocInv, Answered
<1>2. \A c \in Client : at'[c] \in Point /\ at'[c] \notin InList /\ at'[c] \notin Stage
    BY <1>1, Stages DEF Point
<1>3. QED  BY <1>1, <1>2 DEF AllocInv, InList, Point

\* The list getter allocates the caches in their order, or refills them.
LEMMA AllocList == ASSUME AllocInv, NEW c \in Client, ListStep(c) PROVE AllocInv'
<1>1. CASE ListStart(c)
    <2>1. CASE Fail(c)
        BY <1>1, <2>1, AllocFails DEF ListStart
    <2>2. CASE GoTo(c, "links")
        <3>1. Needs("links", allocated) /\ "links" \in Point
            BY Stages DEF Needs, Point, Answered, InList
        <3>2. ThreadFree /\ allocated' = allocated
            BY <1>1 DEF ListStart
        <3>3. QED  BY <2>2, <3>1, <3>2, AllocMoves DEF GoTo, AllocInv
    <2>3. QED  BY <1>1, <2>1, <2>2 DEF ListStart
<1>2. CASE DumpLinks(c)
    <2>1. at[c] = "links" /\ at[c] \in InList
        BY <1>2 DEF DumpLinks, InList
    <2>2. CASE Fail(c) /\ UNCHANGED allocated
        BY <2>2, AllocFails
    <2>3. CASE /\ allocated' = allocated \cup {"links"}
               /\ GoTo(c, IF "links" \in allocated THEN "refill_addrs" ELSE "alloc_addrs")
        <3>1. PICK p : p = IF "links" \in allocated THEN "refill_addrs" ELSE "alloc_addrs"
            OBVIOUS
        <3>2. Needs(p, allocated') /\ p \in Point /\ at' = [at EXCEPT ![c] = p]
            BY <2>3, <3>1, Stages DEF Needs, Point, InList, AllocInv, GoTo, Cache
        <3>3. allocated' \in {{}, {"links"}, {"links", "addrs"}, Cache}
            BY <2>3 DEF AllocInv, Cache
        <3>4. QED  BY <2>1, <2>3, <3>2, <3>3, AllocMoves
    <2>4. CASE "links" \in allocated /\ GoTo(c, "refill_addrs") /\ UNCHANGED allocated
        <3>1. Needs("refill_addrs", allocated) /\ "refill_addrs" \in Point
            BY <2>4, Stages DEF Needs, Point, InList
        <3>2. QED  BY <2>1, <2>4, <3>1, AllocMoves DEF GoTo, AllocInv
    <2>5. QED  BY <1>2, <2>2, <2>3, <2>4 DEF DumpLinks
<1>3. CASE DumpAddrs(c)
    <2>1. CASE Fail(c) /\ UNCHANGED allocated
        BY <2>1, AllocFails
    <2>2. CASE Crash
        BY <2>2, AllocCrash
    <2>3. CASE /\ at[c] \in {"alloc_addrs", "refill_addrs"}
               /\ at[c] = "refill_addrs" => "addrs" \in allocated
               /\ allocated' = allocated \cup {"addrs"}
               /\ GoTo(c, IF at[c] = "alloc_addrs" THEN "alloc_neighs" ELSE "refill_neighs")
        <3>1. PICK p : p = IF at[c] = "alloc_addrs" THEN "alloc_neighs" ELSE "refill_neighs"
            OBVIOUS
        <3>2. at[c] \in InList /\ p \in Point /\ at' = [at EXCEPT ![c] = p]
            BY <2>3, <3>1 DEF Point, InList, GoTo
        <3>3. Needs(p, allocated')
            BY <2>3, <3>1, Stages DEF Needs, InList, AllocInv
        <3>4. allocated' \in {{}, {"links"}, {"links", "addrs"}, Cache}
            BY <2>3 DEF AllocInv, Cache
        <3>5. QED  BY <2>3, <3>2, <3>3, <3>4, AllocMoves
    <2>4. CASE /\ at[c] = "refill_addrs" /\ "addrs" \in allocated /\ UNCHANGED allocated
               /\ GoTo(c, "refill_neighs")
        <3>1. Needs("refill_neighs", allocated) /\ "refill_neighs" \in Point /\ at[c] \in InList
            BY <2>4, Stages DEF Needs, Point, InList, AllocInv
        <3>2. QED  BY <2>4, <3>1, AllocMoves DEF GoTo, AllocInv
    <2>5. QED  BY <1>3, <2>1, <2>2, <2>3, <2>4 DEF DumpAddrs, caches
<1>4. CASE DumpNeighs(c)
    <2>1. CASE Fail(c) /\ UNCHANGED allocated
        BY <2>1, AllocFails
    <2>2. CASE Crash
        BY <2>2, AllocCrash
    <2>3. CASE at[c] \in {"alloc_neighs", "refill_neighs"} /\ AddInterfaces(c) /\ allocated' = Cache
        <3>1. PICK p \in Stage \cup {"done"} : at' = [at EXCEPT ![c] = p]
            BY <2>3, GoesOn DEF AddInterfaces
        <3>2. Needs(p, allocated') /\ p \in Point /\ at[c] \in InList
            BY <2>3, Stages DEF Needs, Point, InList, Answered
        <3>3. allocated \subseteq allocated'
            BY <2>3 DEF AllocInv, Cache
        <3>4. QED  BY <2>3, <3>1, <3>2, <3>3, AllocMoves
    <2>4. QED
        <3>1. at[c] = "refill_neighs" /\ "neighs" \in allocated => allocated = Cache
            BY DEF AllocInv, Cache
        <3>2. at[c] \in {"alloc_neighs", "refill_neighs"} => allocated \cup {"neighs"} = Cache
            BY DEF AllocInv, Cache
        <3>3. QED  BY <1>4, <2>1, <2>2, <2>3, <3>1, <3>2 DEF DumpNeighs, caches
<1>5. QED  BY <1>1, <1>2, <1>3, <1>4 DEF ListStep

-----------------------------------------------------------------------------
(* The getters below the list                                              *)

\* A getter below the list allocates nothing.
LEMMA AllocGetter ==
    ASSUME AllocInv, NEW c \in Client, NEW getter, NEW p, Called(c, getter, p), getter \in Stage,
           Fail(c) \/ \E rep : Report(c, p, rep)
    PROVE  AllocInv'
<1>1. at[c] \in Stage /\ allocated' = allocated /\ allocated = Cache
    BY DEF Called, caches, AllocInv
<1>2. CASE Fail(c)
    BY <1>1, <1>2, AllocFails
<1>3. ASSUME NEW rep, Report(c, p, rep) PROVE AllocInv'
    <2>1. CASE UNCHANGED at
        BY <1>1, <2>1 DEF AllocInv
    <2>2. ASSUME NEW k \in 1..Len(Getters), GoOn(c, k + 1, rep) PROVE AllocInv'
        <3>1. PICK q \in Stage \cup {"done"} : at' = [at EXCEPT ![c] = q]
            <4>1. k + 1 \in Int /\ k + 1 >= 1
                BY Stages
            <4>2. QED  BY <2>2, <4>1, GoesOn
        <3>2. Needs(q, allocated) /\ q \in Point /\ q \notin InList
            BY <1>1, Stages DEF Needs, Point, InList, Answered
        <3>3. QED  BY <1>1, <3>1, <3>2, AllocMoves DEF AllocInv
    <2>3. QED  BY <1>3, <2>1, <2>2 DEF Report
<1>4. QED  BY <1>2, <1>3

\* Every getter reports for one parent, or fails.
LEMMA GetterCases ==
    ASSUME NEW c \in Client, GetterStep(c)
    PROVE  \E getter \in Stage : \E p :
               Called(c, getter, p) /\ (Fail(c) \/ \E rep : Report(c, p, rep))
<1> DEFINE Works(p) ==
        \E getter \in Stage : Called(c, getter, p) /\ (Fail(c) \/ \E rep : Report(c, p, rep))
<1>1. {"leaf", "phys_address", "higher_layer_if", "lower_layer_if", "statistics", "ipv4_address",
       "ipv4_neighbor", "ipv6_address", "ipv6_neighbor", "address_origin", "neighbor_origin"}
      = Stage
    BY DEF Stage, Getters
<1>2. ASSUME NEW n \in Name, leaf(c, n) PROVE Works(n)
    BY <1>1, <1>2 DEF leaf
<1>3. ASSUME NEW n \in Name, phys_address(c, n) PROVE Works(n)
    BY <1>1, <1>3 DEF phys_address
<1>4. ASSUME NEW n \in Name, higher_layer_if(c, n) PROVE Works(n)
    BY <1>1, <1>4 DEF higher_layer_if
<1>5. ASSUME NEW n \in Name, lower_layer_if(c, n) PROVE Works(n)
    BY <1>1, <1>5 DEF lower_layer_if
<1>6. ASSUME NEW n \in Name, statistics(c, n) PROVE Works(n)
    BY <1>1, <1>6 DEF statistics
<1>7. ASSUME NEW n \in Name, ipv4_address(c, n) \/ ipv6_address(c, n) PROVE Works(n)
    BY <1>1, <1>7 DEF ipv4_address, ipv6_address, AddressList
<1>8. ASSUME NEW n \in Name, ipv4_neighbor(c, n) \/ ipv6_neighbor(c, n) PROVE Works(n)
    BY <1>1, <1>8 DEF ipv4_neighbor, ipv6_neighbor, NeighborList
<1>9. ASSUME NEW r, address_origin(c, r) PROVE Works(r)
    BY <1>1, <1>9 DEF address_origin
<1>10. ASSUME NEW r, neighbor_origin(c, r) PROVE Works(r)
    BY <1>1, <1>10 DEF neighbor_origin
<1>11. QED
    BY <1>2, <1>3, <1>4, <1>5, <1>6, <1>7, <1>8, <1>9, <1>10 DEF GetterStep

\* A getter below the list moves its request and leaves the list getter alone.
LEMMA GetterMoves ==
    ASSUME AllocInv, NEW c \in Client, GetterStep(c)
    PROVE  /\ at[c] \in Stage /\ ThreadFree
           /\ UNCHANGED <<kernelVars, running, caches, external, refused, history>>
           /\ \E p \in Stage \cup {"done", "failed"} : at' = [at EXCEPT ![c] = p]
<1>1. PICK getter \in Stage :
           \E r : Called(c, getter, r) /\ (Fail(c) \/ \E rep : Report(c, r, rep))
    BY GetterCases
<1>2. PICK r : Called(c, getter, r) /\ (Fail(c) \/ \E rep : Report(c, r, rep))
    BY <1>1
<1>3. at[c] \in Stage /\ ThreadFree
      /\ UNCHANGED <<kernelVars, running, caches, external, refused, history>>
    BY <1>2 DEF Called
<1>4. CASE Fail(c)
    BY <1>3, <1>4 DEF Fail, GoTo
<1>5. CASE UNCHANGED at
    <2>1. at' = [at EXCEPT ![c] = at[c]]
        BY <1>5 DEF AllocInv
    <2>2. QED  BY <1>3, <2>1
<1>6. ASSUME NEW rep, NEW k \in 1..Len(Getters), GoOn(c, k + 1, rep)
      PROVE  \E p \in Stage \cup {"done"} : at' = [at EXCEPT ![c] = p]
    <2>1. k + 1 \in Int /\ k + 1 >= 1
        BY Stages
    <2>2. QED  BY <1>6, <2>1, GoesOn
<1>7. QED  BY <1>2, <1>3, <1>4, <1>5, <1>6 DEF Report

\* Every step keeps it.
LEMMA AllocNext == AllocInv /\ [Next]_vars => AllocInv'
<1> SUFFICES ASSUME AllocInv, [Next]_vars PROVE AllocInv'
    OBVIOUS
<1>1. ASSUME NEW c \in Client, GetterStep(c) PROVE AllocInv'
    BY <1>1, GetterCases, AllocGetter
<1>2. ASSUME NEW c \in Client, NextRequest(c) PROVE AllocInv'
    <2>1. Needs("idle", allocated) /\ "idle" \in Point /\ "idle" \notin InList
        BY Stages DEF Needs, Point, Answered, InList
    <2>2. QED  BY <1>2, <2>1, AllocMoves DEF NextRequest, GoTo, caches, AllocInv
<1>3. CASE Environment
    <2>1. at' = at /\ allocated' = allocated
        BY <1>3 DEF Environment, LinkCreated, LinkDeleted, LinkEnslaved, CountersChanged,
                    EntriesChanged, RunningChanged, HostBecomes, caches, requestVars
    <2>2. QED  BY <2>1 DEF AllocInv
<1>4. CASE UNCHANGED vars
    BY <1>4 DEF vars, caches, requestVars, AllocInv
<1>5. QED  BY <1>1, <1>2, <1>3, <1>4, AllocList DEF Next

\* So that it always holds.
LEMMA AllocHolds == Spec => []AllocInv
    BY AllocInit, AllocNext, PTL DEF Spec

\* The caches that the getters below the list assert are there, whichever
\* requests failed before or refill them meanwhile, for any number of clients.
THEOREM Allocated == Spec => []CachesAllocated
<1>1. AllocInv => CachesAllocated
    BY DEF AllocInv, CachesAllocated
<1>2. QED  BY <1>1, AllocHolds, PTL

-----------------------------------------------------------------------------
(* What the caches hold a client has seen                                  *)

KernelInv == link \subseteq Link /\ lastIndex \in Ifindex

\* A request has seen the kernel of now, and the caches it is past filling.
Sees(c) ==
    /\ link \subseteq seen[c].links /\ addr \subseteq seen[c].addrs /\ neigh \subseteq seen[c].neighs
    /\ at[c] # "links" => link_cache \subseteq seen[c].links
    /\ at[c] \in Stage \cup {"alloc_neighs", "refill_neighs"} => addr_cache \subseteq seen[c].addrs
    /\ at[c] \in Stage => neigh_cache \subseteq seen[c].neighs

SeenInv == /\ KernelInv /\ seen = [c \in Client |-> seen[c]]
           /\ \A c \in Client : /\ Active(c) => Sees(c)
                                /\ seen[c].links \subseteq Link

\* No request is under way in the beginning.
LEMMA SeenInit == Init => SeenInv
<1> SUFFICES ASSUME Init PROVE SeenInv
    OBVIOUS
<1>1. KernelInv
    BY GettersAssumption DEF Init, KernelInv, Link
<1>2. seen = [c \in Client |-> NothingSeen] /\ \A c \in Client : ~Active(c)
    BY DEF Init, Active, Answered
<1>3. QED  BY <1>1, <1>2 DEF SeenInv, NothingSeen

\* Client c goes from the list getter, which may have filled a cache, on.
LEMMA SeenMoves ==
    ASSUME AllocInv, SeenInv, UNCHANGED <<link, addr, neigh, lastIndex, seen>>,
           NEW c \in Client, NEW p \in Point, at' = [at EXCEPT ![c] = p],
           link_cache' \in {link_cache, link, {}}, addr_cache' \in {addr_cache, addr, {}},
           neigh_cache' \in {neigh_cache, neigh, {}},
           p \notin Answered => Active(c) /\ Sees(c)',
           p # "links" \/ p \in Answered
    PROVE  SeenInv'
<1>1. at'[c] = p /\ \A d \in Client : d # c => at'[d] = at[d]
    BY DEF AllocInv
<1>2. ASSUME NEW d \in Client, Active(d)' PROVE Sees(d)'
    <2>1. CASE d = c
        BY <1>1, <1>2, <2>1 DEF Active
    <2>2. CASE d # c
        <3>1. Active(d) /\ Sees(d) /\ at'[d] = at[d]
            BY <1>1, <1>2, <2>2 DEF Active, SeenInv
        <3>2. QED  BY <3>1 DEF Sees
    <2>3. QED  BY <2>1, <2>2
<1>3. QED  BY <1>2 DEF SeenInv, KernelInv

\* A request that fails reads the caches no more.
LEMMA SeenFails ==
    ASSUME AllocInv, SeenInv, NEW c \in Client, Fail(c),
           UNCHANGED <<link, addr, neigh, lastIndex, seen, link_cache, addr_cache, neigh_cache>>
    PROVE  SeenInv'
<1>1. "failed" \in Point /\ "failed" \in Answered
    BY DEF Point, Answered
<1>2. QED  BY <1>1, SeenMoves DEF Fail, GoTo

\* Nor does any after a crash.
LEMMA SeenCrash ==
    ASSUME AllocInv, SeenInv, Crash, UNCHANGED <<link, lastIndex>>
    PROVE  SeenInv'
<1>1. seen' = seen /\ \A c \in Client : ~Active(c)'
    BY DEF Crash, history, Active, Answered
<1>2. QED  BY <1>1 DEF SeenInv, KernelInv

\* A request begins with the kernel of now.
LEMMA SeenStarts == ASSUME AllocInv, SeenInv, NEW c \in Client, ListStart(c) PROVE SeenInv'
<1>1. /\ UNCHANGED <<link, addr, neigh, lastIndex, link_cache, addr_cache, neigh_cache>>
      /\ seen' = [seen EXCEPT ![c] = [links |-> link, addrs |-> addr, neighs |-> neigh]]
    BY DEF ListStart, kernelVars
<1>2. at'[c] \in {"links", "failed"} /\ \A d \in Client : d # c => at'[d] = at[d]
    BY DEF ListStart, GoTo, Fail, AllocInv
<1>3. /\ seen' = [d \in Client |-> seen'[d]]
      /\ seen'[c] = [links |-> link, addrs |-> addr, neighs |-> neigh]
      /\ \A d \in Client : d # c => seen'[d] = seen[d]
    BY <1>1 DEF SeenInv
<1>4. ASSUME NEW d \in Client PROVE (Active(d)' => Sees(d)') /\ seen'[d].links \subseteq Link
    <2>1. CASE d = c
        BY <1>1, <1>2, <1>3, <2>1, Stages DEF Active, Answered, InList, Sees, SeenInv, KernelInv
    <2>2. CASE d # c
        BY <1>1, <1>2, <1>3, <2>2 DEF Active, Sees, SeenInv
    <2>3. QED  BY <2>1, <2>2
<1>5. QED  BY <1>1, <1>3, <1>4 DEF SeenInv, KernelInv

\* The list getter fills the caches from a kernel that the request has seen.
LEMMA SeenList == ASSUME AllocInv, SeenInv, NEW c \in Client, ListStep(c) PROVE SeenInv'
<1>1. CASE DumpLinks(c)
    <2>1. /\ UNCHANGED <<link, addr, neigh, lastIndex, seen, addr_cache, neigh_cache>>
          /\ link_cache' \in {link_cache, link, {}} /\ at[c] = "links" /\ Active(c)
        BY <1>1 DEF DumpLinks, InGetter, kernelVars, Active, Answered
    <2>2. CASE Fail(c) /\ UNCHANGED link_cache
        BY <2>1, <2>2, SeenFails
    <2>3. ASSUME NEW p \in {"alloc_addrs", "refill_addrs"}, GoTo(c, p), link_cache' \in {link, {}}
          PROVE  SeenInv'
        <3>1. at'[c] = p /\ p \notin Stage /\ p \in Point
            BY <2>3, Stages DEF GoTo, AllocInv, Point, InList
        <3>2. Sees(c)'
            BY <2>1, <2>3, <3>1 DEF SeenInv, Sees
        <3>3. QED  BY <2>1, <2>3, <3>1, <3>2, SeenMoves DEF GoTo
    <2>4. QED  BY <1>1, <2>2, <2>3 DEF DumpLinks
<1>2. CASE DumpAddrs(c)
    <2>1. /\ UNCHANGED <<link, addr, neigh, lastIndex, seen>>
          /\ at[c] \in {"alloc_addrs", "refill_addrs"} /\ Active(c)
        BY <1>2 DEF DumpAddrs, InGetter, kernelVars, Active, Answered
    <2>2. CASE Fail(c) /\ UNCHANGED caches
        BY <2>1, <2>2, SeenFails DEF caches
    <2>3. CASE Crash
        BY <2>1, <2>3, SeenCrash
    <2>4. ASSUME NEW p \in {"alloc_neighs", "refill_neighs"}, GoTo(c, p), addr_cache' \in {addr, {}},
                 UNCHANGED <<link_cache, neigh_cache>>
          PROVE  SeenInv'
        <3>1. at'[c] = p /\ p \notin Stage /\ p \in Point
            BY <2>4, Stages DEF GoTo, AllocInv, Point, InList
        <3>2. Sees(c)'
            BY <2>1, <2>4, <3>1 DEF SeenInv, Sees
        <3>3. QED  BY <2>1, <2>4, <3>1, <3>2, SeenMoves DEF GoTo
    <2>5. QED  BY <1>2, <2>2, <2>3, <2>4 DEF DumpAddrs
<1>3. CASE DumpNeighs(c)
    <2>1. /\ UNCHANGED <<link, addr, neigh, lastIndex, seen>>
          /\ at[c] \in {"alloc_neighs", "refill_neighs"} /\ Active(c)
        BY <1>3 DEF DumpNeighs, InGetter, kernelVars, Active, Answered
    <2>2. CASE Fail(c) /\ UNCHANGED caches
        BY <2>1, <2>2, SeenFails DEF caches
    <2>3. CASE Crash
        BY <2>1, <2>3, SeenCrash
    <2>4. CASE AddInterfaces(c) /\ neigh_cache' \in {neigh, {}} /\ UNCHANGED <<link_cache, addr_cache>>
        <3>1. PICK p \in Stage \cup {"done"} : at' = [at EXCEPT ![c] = p]
            BY <2>4, GoesOn DEF AddInterfaces
        <3>2. at'[c] = p /\ p \in Point /\ p # "links"
            BY <3>1, Stages DEF AllocInv, Point, Answered, InList
        <3>3. Sees(c)'
            BY <2>1, <2>4, <3>2 DEF SeenInv, Sees
        <3>4. QED  BY <2>1, <2>4, <3>1, <3>2, <3>3, SeenMoves
    <2>5. QED  BY <1>3, <2>2, <2>3, <2>4 DEF DumpNeighs
<1>4. QED  BY <1>1, <1>2, <1>3, SeenStarts DEF ListStep

\* The getters below the list leave the kernel and the caches alone.
LEMMA SeenGetter == ASSUME AllocInv, SeenInv, NEW c \in Client, GetterStep(c) PROVE SeenInv'
<1>0. PICK getter \in Stage :
           \E r : Called(c, getter, r) /\ (Fail(c) \/ \E rep : Report(c, r, rep))
    BY GetterCases
<1>1. PICK r : Called(c, getter, r) /\ (Fail(c) \/ \E rep : Report(c, r, rep))
    BY <1>0
<1>2. /\ UNCHANGED <<link, addr, neigh, lastIndex, seen, link_cache, addr_cache, neigh_cache>>
      /\ at[c] \in Stage /\ Active(c)
    BY <1>1, Stages DEF Called, kernelVars, caches, history, Active
<1>3. CASE Fail(c)
    BY <1>2, <1>3, SeenFails
<1>4. CASE UNCHANGED at
    BY <1>2, <1>4 DEF SeenInv, KernelInv, Sees, Active
<1>5. ASSUME NEW rep, NEW k \in 1..Len(Getters), GoOn(c, k + 1, rep) PROVE SeenInv'
    <2>1. PICK p \in Stage \cup {"done"} : at' = [at EXCEPT ![c] = p]
        <3>1. k + 1 \in Int /\ k + 1 >= 1
            BY Stages
        <3>2. QED  BY <1>5, <3>1, GoesOn
    <2>2. at'[c] = p /\ p \in Point /\ p # "links"
        BY <2>1, Stages DEF AllocInv, Point, Answered, InList
    <2>3. Sees(c) /\ at[c] # "links"
        BY <1>2, Stages DEF SeenInv, InList
    <2>4. Sees(c)'
        BY <1>2, <2>3 DEF Sees
    <2>5. QED  BY <1>2, <2>1, <2>2, <2>4, SeenMoves
<1>6. QED  BY <1>1, <1>3, <1>4, <1>5 DEF Report

\* What the host changes, every open request has seen.
LEMMA SeenHost ==
    ASSUME SeenInv, NEW L, NEW A, NEW N, NEW R, HostBecomes(L, A, N, R),
           L \subseteq Link, lastIndex' \in Ifindex
    PROVE  SeenInv'
<1>1. /\ link' = L /\ UNCHANGED <<at, link_cache, addr_cache, neigh_cache>>
      /\ seen' = [c \in Client |->
                     IF Active(c) THEN [links  |-> seen[c].links \cup link',
                                        addrs  |-> seen[c].addrs \cup addr',
                                        neighs |-> seen[c].neighs \cup neigh']
                     ELSE seen[c]]
    BY DEF HostBecomes, caches, requestVars
<1>2. ASSUME NEW c \in Client PROVE (Active(c)' => Sees(c)') /\ seen'[c].links \subseteq Link
    <2>1. CASE Active(c)
        <3>1. /\ seen'[c].links = seen[c].links \cup link'
              /\ seen'[c].addrs = seen[c].addrs \cup addr'
              /\ seen'[c].neighs = seen[c].neighs \cup neigh'
            BY <1>1, <2>1
        <3>2. QED  BY <1>1, <2>1, <3>1 DEF SeenInv, Sees
    <2>2. CASE ~Active(c)
        BY <1>1, <2>2 DEF Active, SeenInv
    <2>3. QED  BY <2>1, <2>2
<1>3. seen' = [c \in Client |-> seen'[c]]
    BY <1>1
<1>4. QED  BY <1>1, <1>2, <1>3 DEF SeenInv, KernelInv

\* Whichever change it is.
LEMMA SeenEnvironment == ASSUME SeenInv, Environment PROVE SeenInv'
<1>1. link \subseteq Link /\ lastIndex \in Ifindex /\ MaxIfindex \in Nat
    BY GettersAssumption DEF SeenInv, KernelInv
<1>2. CASE LinkCreated
    <2>1. PICK n \in Name, b \in BOOLEAN, s \in Counters :
              /\ lastIndex < MaxIfindex /\ lastIndex' = lastIndex + 1
              /\ HostBecomes(link \cup {[name |-> n, index |-> lastIndex', master |-> NoMaster,
                                         lladdr |-> b, stats |-> s]}, addr, neigh, running)
        BY <1>2 DEF LinkCreated
    <2>2. lastIndex' \in Ifindex /\ s \in Stats
        BY <1>1, <2>1, GettersAssumption DEF Ifindex
    <2>3. [name |-> n, index |-> lastIndex', master |-> NoMaster, lladdr |-> b, stats |-> s] \in Link
        BY <2>2 DEF Link
    <2>4. QED  BY <1>1, <2>1, <2>2, <2>3, SeenHost
<1>3. CASE LinkDeleted
    <2>1. PICK l \in link :
              /\ HostBecomes({IF m.master = l.index THEN [m EXCEPT !.master = NoMaster] ELSE m :
                                m \in link \ {l}}, addr, neigh, running)
              /\ UNCHANGED lastIndex
        BY <1>3 DEF LinkDeleted
    <2>2. \A m \in Link : [m EXCEPT !.master = NoMaster] \in Link
        BY DEF Link
    <2>3. {IF m.master = l.index THEN [m EXCEPT !.master = NoMaster] ELSE m : m \in link \ {l}}
          \subseteq Link
        BY <1>1, <2>2
    <2>4. QED  BY <1>1, <2>1, <2>3, SeenHost
<1>4. CASE LinkEnslaved
    <2>1. PICK l \in link, m \in link :
              /\ HostBecomes((link \ {l}) \cup {[l EXCEPT !.master = m.index]}, addr, neigh, running)
              /\ UNCHANGED lastIndex
        BY <1>4 DEF LinkEnslaved
    <2>2. [l EXCEPT !.master = m.index] \in Link
        BY <1>1, <2>1 DEF Link
    <2>3. QED  BY <1>1, <2>1, <2>2, SeenHost
<1>5. CASE CountersChanged
    <2>1. PICK l \in link, s \in Counters :
              /\ HostBecomes((link \ {l}) \cup {[l EXCEPT !.stats = s]}, addr, neigh, running)
              /\ UNCHANGED lastIndex
        BY <1>5 DEF CountersChanged
    <2>2. s \in Stats
        BY <2>1, GettersAssumption
    <2>3. [l EXCEPT !.stats = s] \in Link
        BY <1>1, <2>1, <2>2 DEF Link
    <2>4. QED  BY <1>1, <2>1, <2>3, SeenHost
<1>6. CASE EntriesChanged \/ RunningChanged
    BY <1>1, <1>6, SeenHost DEF EntriesChanged, RunningChanged
<1>7. QED  BY <1>2, <1>3, <1>4, <1>5, <1>6 DEF Environment

\* Every step keeps it.
LEMMA SeenNext == AllocInv /\ SeenInv /\ [Next]_vars => SeenInv'
<1> SUFFICES ASSUME AllocInv, SeenInv, [Next]_vars PROVE SeenInv'
    OBVIOUS
<1>1. ASSUME NEW c \in Client, NextRequest(c) PROVE SeenInv'
    <2>1. /\ UNCHANGED <<link, addr, neigh, lastIndex, link_cache, addr_cache, neigh_cache>>
          /\ at' = [at EXCEPT ![c] = "idle"] /\ seen' = [seen EXCEPT ![c] = NothingSeen]
        BY <1>1 DEF NextRequest, kernelVars, caches, GoTo
    <2>2. at'[c] = "idle" /\ \A d \in Client : d # c => at'[d] = at[d]
        BY <2>1 DEF AllocInv
    <2>3. /\ seen' = [d \in Client |-> seen'[d]] /\ seen'[c] = NothingSeen
          /\ \A d \in Client : d # c => seen'[d] = seen[d]
        BY <2>1 DEF SeenInv
    <2>4. ASSUME NEW d \in Client PROVE (Active(d)' => Sees(d)') /\ seen'[d].links \subseteq Link
        BY <2>1, <2>2, <2>3 DEF Active, Answered, Sees, SeenInv, NothingSeen
    <2>5. QED  BY <2>1, <2>3, <2>4 DEF SeenInv, KernelInv
<1>2. CASE UNCHANGED vars
    BY <1>2 DEF vars, kernelVars, caches, requestVars, history, SeenInv, KernelInv, Active, Sees
<1>3. QED  BY <1>1, <1>2, SeenList, SeenGetter, SeenEnvironment DEF Next

\* So that it always holds.
LEMMA SeenHolds == Spec => [](AllocInv /\ SeenInv)
    BY AllocInit, AllocNext, SeenInit, SeenNext, PTL DEF Spec

-----------------------------------------------------------------------------
(* What is reported was there                                              *)

IsReport(rep) ==
    rep = [interfaces |-> rep.interfaces, phys |-> rep.phys, higher |-> rep.higher,
           lower |-> rep.lower, stats |-> rep.stats, addresses |-> rep.addresses,
           neighbors |-> rep.neighbors, kept |-> rep.kept]

\* Nothing is in a report but what is kept of running.
OnlyKept(rep) == rep = [NoReport EXCEPT !.kept = rep.kept]

InterfaceExisted(n, s) == \E l \in s.links : l.name = n
StatsExisted(r, s) == \E l \in s.links : l.name = r.name /\ Counts(r, l.stats)
AddrExisted(r, s) ==
    \E l \in s.links, a \in s.addrs :
       l.name = r.name /\ a.index = l.index /\ a.ip = r.ip /\ a.plen = r.plen
NeighExisted(r, s) ==
    \E l \in s.links, x \in s.neighs :
       l.name = r.name /\ x.index = l.index /\ x.ip = r.ip /\ x.resolved

Existed(rep, s) ==
    /\ \A n \in rep.interfaces : InterfaceExisted(n, s)
    /\ \A r \in rep.stats : StatsExisted(r, s)
    /\ \A r \in rep.addresses : AddrExisted(r, s)
    /\ \A r \in rep.neighbors : NeighExisted(r, s)

ReportInv ==
    /\ report = [c \in Client |-> report[c]]
    /\ \A c \in Client : /\ IsReport(report[c]) /\ Existed(report[c], seen[c])
                         /\ at[c] = "idle" => report[c] = NoReport
                         /\ at[c] \in InList => OnlyKept(report[c])

\* An empty report has nothing that was not there.
LEMMA NothingExisted ==
    /\ OnlyKept(NoReport)
    /\ \A rep : OnlyKept(rep) => IsReport(rep) /\ \A s : Existed(rep, s)
<1>1. OnlyKept(NoReport)
    BY DEF OnlyKept, NoReport
<1>2. ASSUME NEW rep, OnlyKept(rep) PROVE IsReport(rep) /\ \A s : Existed(rep, s)
    <2>1. PICK k : rep = [NoReport EXCEPT !.kept = k]
        BY <1>2 DEF OnlyKept
    <2>2. QED  BY <2>1 DEF IsReport, NoReport, Existed
<1>3. QED  BY <1>1, <1>2

\* What a request has seen only grows.
LEMMA ExistedGrows ==
    ASSUME NEW rep, NEW s, NEW t, Existed(rep, s),
           s.links \subseteq t.links, s.addrs \subseteq t.addrs, s.neighs \subseteq t.neighs
    PROVE  Existed(rep, t)
<1>1. \A n \in rep.interfaces : InterfaceExisted(n, t)
    BY DEF Existed, InterfaceExisted
<1>2. \A r \in rep.stats : StatsExisted(r, t)
    BY DEF Existed, StatsExisted
<1>3. \A r \in rep.addresses : AddrExisted(r, t)
    BY DEF Existed, AddrExisted
<1>4. \A r \in rep.neighbors : NeighExisted(r, t)
    BY DEF Existed, NeighExisted
<1>5. QED  BY <1>1, <1>2, <1>3, <1>4 DEF Existed

\* Nothing is reported in the beginning.
LEMMA ReportInit == Init => ReportInv
<1> SUFFICES ASSUME Init PROVE ReportInv
    OBVIOUS
<1>1. report = [c \in Client |-> NoReport]
    BY DEF Init
<1>2. ASSUME NEW c \in Client PROVE at[c] \notin InList
    BY DEF Init, InList
<1>3. QED  BY <1>1, <1>2, NothingExisted DEF ReportInv

\* One client has a new report.
LEMMA ReportMoves ==
    ASSUME AllocInv, ReportInv, NEW c \in Client, NEW p, at' = [at EXCEPT ![c] = p], p # "idle",
           NEW rep, report' = [report EXCEPT ![c] = rep], UNCHANGED seen,
           IsReport(rep), Existed(rep, seen[c]), p \in InList => OnlyKept(rep)
    PROVE  ReportInv'
<1>1. /\ report' = [d \in Client |-> report'[d]] /\ report'[c] = rep
      /\ \A d \in Client : d # c => report'[d] = report[d]
    BY DEF ReportInv
<1>2. at'[c] = p /\ \A d \in Client : d # c => at'[d] = at[d]
    BY DEF AllocInv
<1>3. ASSUME NEW d \in Client
      PROVE  /\ IsReport(report'[d]) /\ Existed(report'[d], seen[d])
             /\ at'[d] = "idle" => report'[d] = NoReport
             /\ at'[d] \in InList => OnlyKept(report'[d])
    BY <1>1, <1>2 DEF ReportInv
<1>4. QED  BY <1>1, <1>3 DEF ReportInv

\* Nothing is reported to a request that fails.
LEMMA ReportFails ==
    ASSUME AllocInv, ReportInv, NEW c \in Client, Fail(c), UNCHANGED seen
    PROVE  ReportInv'
<1>1. at' = [at EXCEPT ![c] = "failed"] /\ report' = [report EXCEPT ![c] = NoReport]
    BY DEF Fail, GoTo
<1>2. QED  BY <1>1, NothingExisted, ReportMoves

\* Nor to one that a crash ends.
LEMMA ReportCrash == ASSUME AllocInv, ReportInv, Crash PROVE ReportInv'
<1>1. seen' = seen /\ report' = [d \in Client |-> report'[d]]
    BY DEF Crash, history
<1>2. ASSUME NEW c \in Client
      PROVE  /\ IsReport(report'[c]) /\ Existed(report'[c], seen[c])
             /\ at'[c] = "idle" => report'[c] = NoReport
             /\ at'[c] \in InList => OnlyKept(report'[c])
    BY NothingExisted DEF Crash, ReportInv, Active
<1>3. QED  BY <1>1, <1>2 DEF ReportInv

\* sysrepo gets a report that is right.
LEMMA ReportGoesOn ==
    ASSUME AllocInv, ReportInv, NEW c \in Client, NEW k \in Int, k >= 1, NEW rep, GoOn(c, k, rep),
           UNCHANGED seen, IsReport(rep), Existed(rep, seen[c])
    PROVE  ReportInv'
<1>1. PICK p \in Stage \cup {"done"} : at' = [at EXCEPT ![c] = p]
    BY GoesOn
<1>2. p # "idle" /\ p \notin InList /\ report' = [report EXCEPT ![c] = rep]
    BY Stages DEF GoOn, Answered
<1>3. QED  BY <1>1, <1>2, ReportMoves

\* A getter reports more of what was there.
LEMMA ReportReports ==
    ASSUME AllocInv, ReportInv, NEW c \in Client, NEW p, NEW rep, Report(c, p, rep), at[c] \in Stage,
           UNCHANGED seen, IsReport(rep), Existed(rep, seen[c])
    PROVE  ReportInv'
<1>1. CASE UNCHANGED at /\ report' = [report EXCEPT ![c] = rep]
    <2>1. at' = [at EXCEPT ![c] = at[c]] /\ at[c] # "idle" /\ at[c] \notin InList
        BY <1>1, Stages DEF AllocInv, Answered
    <2>2. QED  BY <1>1, <2>1, ReportMoves
<1>2. ASSUME NEW k \in 1..Len(Getters), GoOn(c, k + 1, rep) PROVE ReportInv'
    <2>1. k + 1 \in Int /\ k + 1 >= 1
        BY Stages
    <2>2. QED  BY <1>2, <2>1, ReportGoesOn
<1>3. QED  BY <1>1, <1>2 DEF Report

\* The list getter reports an interface for each link of the cache.
LEMMA ReportList == ASSUME AllocInv, SeenInv, ReportInv, NEW c \in Client, ListStep(c) PROVE ReportInv'
<1>1. CASE ListStart(c)
    <2>1. /\ at[c] = "idle" /\ report[c] = NoReport
          /\ seen' = [seen EXCEPT ![c] = [links |-> link, addrs |-> addr, neighs |-> neigh]]
        BY <1>1 DEF ListStart, ReportInv
    <2>2. \A d \in Client : d # c => seen'[d] = seen[d]
        BY <2>1 DEF SeenInv
    <2>3. /\ at'[c] # "idle" /\ \A d \in Client : d # c => at'[d] = at[d]
          /\ report' = [d \in Client |-> report'[d]] /\ OnlyKept(report'[c])
          /\ \A d \in Client : d # c => report'[d] = report[d]
        <3>1. ASSUME NEW k, report' = [report EXCEPT ![c].kept = k] PROVE OnlyKept(report'[c])
            <4>1. report'[c] = [NoReport EXCEPT !.kept = k]
                BY <2>1, <3>1 DEF ReportInv
            <4>2. QED  BY <4>1 DEF OnlyKept, NoReport
        <3>2. ASSUME Fail(c) PROVE OnlyKept(report'[c])
            BY <3>2, NothingExisted DEF Fail, ReportInv
        <3>3. OnlyKept(report'[c])
            BY <1>1, <3>1, <3>2 DEF ListStart
        <3>4. QED  BY <1>1, <2>1, <3>3 DEF ListStart, GoTo, Fail, AllocInv, ReportInv
    <2>4. ASSUME NEW d \in Client
          PROVE  /\ IsReport(report'[d]) /\ Existed(report'[d], seen'[d])
                 /\ at'[d] = "idle" => report'[d] = NoReport
                 /\ at'[d] \in InList => OnlyKept(report'[d])
        BY <2>2, <2>3, NothingExisted DEF ReportInv
    <2>5. QED  BY <2>3, <2>4 DEF ReportInv
<1>2. CASE DumpLinks(c)
    <2>1. seen' = seen
        BY <1>2 DEF DumpLinks, InGetter
    <2>2. CASE Fail(c)
        BY <2>1, <2>2, ReportFails
    <2>3. ASSUME NEW p \in {"alloc_addrs", "refill_addrs"}, GoTo(c, p), UNCHANGED report PROVE ReportInv'
        BY <1>2, <2>1, <2>3 DEF GoTo, AllocInv, ReportInv, DumpLinks, InList
    <2>4. QED  BY <1>2, <2>2, <2>3 DEF DumpLinks
<1>3. CASE DumpAddrs(c)
    <2>1. seen' = seen
        BY <1>3 DEF DumpAddrs, InGetter
    <2>2. CASE Fail(c) \/ Crash
        BY <2>1, <2>2, ReportFails, ReportCrash
    <2>3. ASSUME NEW p \in {"alloc_neighs", "refill_neighs"}, GoTo(c, p), UNCHANGED report,
                 at[c] \in InList
          PROVE  ReportInv'
        BY <2>1, <2>3 DEF GoTo, AllocInv, ReportInv, InList
    <2>4. QED  BY <1>3, <2>2, <2>3 DEF DumpAddrs, InList
<1>4. CASE DumpNeighs(c)
    <2>1. seen' = seen /\ at[c] \in {"alloc_neighs", "refill_neighs"}
        BY <1>4 DEF DumpNeighs, InGetter
    <2>2. CASE Fail(c) \/ Crash
        BY <2>1, <2>2, ReportFails, ReportCrash
    <2>3. CASE AddInterfaces(c)
        <3>1. PICK rep : /\ rep = [report[c] EXCEPT !.interfaces = {l.name : l \in link_cache}]
                         /\ GoOn(c, 1, rep)
            BY <2>3 DEF AddInterfaces
        <3>2. PICK k : report[c] = [NoReport EXCEPT !.kept = k]
            BY <2>1 DEF ReportInv, OnlyKept, InList
        <3>3. link_cache \subseteq seen[c].links
            BY <2>1, Stages DEF SeenInv, Sees, Active, Answered
        <3>4. IsReport(rep) /\ Existed(rep, seen[c])
            BY <3>1, <3>3, <3>2 DEF IsReport, NoReport, Existed, InterfaceExisted
        <3>5. QED  BY <2>1, <3>1, <3>4, ReportGoesOn
    <2>4. QED  BY <1>4, <2>2, <2>3 DEF DumpNeighs
<1>5. QED  BY <1>1, <1>2, <1>3, <1>4 DEF ListStep

\* The counters of unicast packets do not wrap when the others fit them.
LEMMA UnicastAddsUp ==
    ASSUME NEW d \in Direction, d.broadcast + d.multicast <= d.packets
    PROVE  Unicast(d) + d.broadcast + d.multicast = d.packets
<1>1. 2^Width64 \in Int
    BY GettersAssumption
<1>2. PICK w \in Int : w = 2^Width64
    BY <1>1
<1>3. d.packets \in 0..w - 1 /\ d.broadcast \in 0..w - 1 /\ d.multicast \in 0..w - 1
    BY <1>2 DEF Direction, Word
<1>4. (d.packets - d.broadcast - d.multicast) % w = d.packets - d.broadcast - d.multicast
    <2>1. PICK v \in Int : v = d.packets - d.broadcast - d.multicast
        BY <1>3
    <2>2. 0 <= v /\ v < w /\ w \in Int
        BY <1>3, <2>1
    <2>3. v % w = v
        BY <2>2
    <2>4. QED  BY <2>1, <2>3
<1>5. QED  BY <1>2, <1>3, <1>4 DEF Unicast

\* The statistics of a link say what they mean.
LEMMA CountsRight ==
    ASSUME NEW l \in Link, NEW n
    PROVE  Counts([name |-> n, in_unicast |-> Unicast(l.stats.rx), out_unicast |-> Unicast(l.stats.tx),
                   in_discards |-> in_discards(l.stats), out_discards |-> out_discards(l.stats)],
                  l.stats)
<1>1. l.stats.rx \in Direction /\ l.stats.tx \in Direction
    BY DEF Link, Stats
<1>2. l.stats.rx.dropped < 2^Width32 => in_discards(l.stats) = l.stats.rx.dropped
    <2>1. 2^Width32 \in Int
        BY GettersAssumption
    <2>2. PICK w \in Int : w = 2^Width32
        BY <2>1
    <2>3. l.stats.rx.dropped \in Int /\ l.stats.rx.dropped >= 0
        <3>1. 2^Width64 \in Int
            BY GettersAssumption
        <3>2. QED  BY <1>1, <3>1 DEF Direction, Word
    <2>4. QED  BY <2>2, <2>3 DEF in_discards
<1>3. QED  BY <1>1, <1>2, UnicastAddsUp DEF Counts, out_discards

\* What a getter leaves of a report: it keeps what the getters below are called for.
Extends(old, new) ==
    /\ new.interfaces = old.interfaces /\ new.kept = old.kept
    /\ old.addresses \subseteq new.addresses /\ old.neighbors \subseteq new.neighbors

\* A report of what was there, s, with more of it.
Reported(c, s) ==
    \E p, rep : /\ Report(c, p, rep)
                /\ IsReport(rep) /\ Existed(rep, s) /\ Extends(report[c], rep)

\* The getters that report nothing, or what is not told apart here.
LEMMA OthersReported ==
    ASSUME NEW c, NEW p, NEW s, NEW rep, IsReport(report[c]), Existed(report[c], s),
           Report(c, p, rep),
           \/ rep = report[c]
           \/ \E S : rep \in {[report[c] EXCEPT !.phys = S], [report[c] EXCEPT !.higher = S],
                            [report[c] EXCEPT !.lower = S]}
    PROVE  Reported(c, s)
<1>1. IsReport(rep) /\ Existed(rep, s) /\ Extends(report[c], rep)
    BY DEF IsReport, Existed, Extends
<1>2. QED  BY <1>1 DEF Reported

\* The statistics of a link that was there are its statistics.
LEMMA StatsReported ==
    ASSUME NEW c, NEW n, NEW s, IsReport(report[c]), Existed(report[c], s),
           link_cache \subseteq s.links, s.links \subseteq Link, statistics(c, n), ~Fail(c)
    PROVE  Reported(c, s)
<1>1. ASSUME NEW l \in CurrentLink(n), NEW r, NEW rep,
             r = [name |-> n, in_unicast |-> Unicast(l.stats.rx),
                  out_unicast |-> Unicast(l.stats.tx),
                  in_discards |-> in_discards(l.stats), out_discards |-> out_discards(l.stats)],
             rep = [report[c] EXCEPT !.stats = @ \cup {r}], Report(c, n, rep)
      PROVE  Reported(c, s)
    <2>1. l \in s.links /\ l \in Link /\ l.name = n
        BY DEF CurrentLink
    <2>2. Counts(r, l.stats) /\ r.name = n
        BY <1>1, <2>1, CountsRight
    <2>3. StatsExisted(r, s)
        BY <2>1, <2>2 DEF StatsExisted
    <2>4. IsReport(rep) /\ Existed(rep, s) /\ Extends(report[c], rep)
        BY <1>1, <2>3 DEF IsReport, Existed, Extends
    <2>5. QED  BY <1>1, <2>4 DEF Reported
<1>2. QED  BY <1>1 DEF statistics

\* An address is reported on a link that had it.
LEMMA AddressesReported ==
    ASSUME NEW c, NEW getter, NEW n, NEW ips, NEW s, IsReport(report[c]), Existed(report[c], s),
           link_cache \subseteq s.links, addr_cache \subseteq s.addrs,
           AddressList(c, getter, n, ips), ~Fail(c)
    PROVE  Reported(c, s)
<1>1. ASSUME NEW l \in CurrentLink(n), NEW mine, NEW new, NEW rep,
             mine = {a \in addr_cache : a.index = l.index /\ a.ip \in ips},
             new = {[name |-> n, ip |-> a.ip, plen |-> a.plen] : a \in mine},
             rep = [report[c] EXCEPT !.addresses = @ \cup new], Report(c, n, rep)
      PROVE  Reported(c, s)
    <2>1. l \in s.links /\ l.name = n /\ mine \subseteq s.addrs
        BY <1>1 DEF CurrentLink
    <2>2. \A r \in new : AddrExisted(r, s)
        BY <1>1, <2>1 DEF AddrExisted
    <2>3. IsReport(rep) /\ Existed(rep, s) /\ Extends(report[c], rep)
        BY <1>1, <2>2 DEF IsReport, Existed, Extends
    <2>4. QED  BY <1>1, <2>3 DEF Reported
<1>2. QED  BY <1>1 DEF AddressList

\* A neighbour is reported, resolved, on a link that had it.
LEMMA NeighborsReported ==
    ASSUME NEW c, NEW getter, NEW n, NEW ips, NEW s, IsReport(report[c]), Existed(report[c], s),
           link_cache \subseteq s.links, neigh_cache \subseteq s.neighs,
           NeighborList(c, getter, n, ips), ~Fail(c)
    PROVE  Reported(c, s)
<1>1. ASSUME NEW l \in CurrentLink(n), NEW mine, NEW new, NEW rep,
             mine = {x \in neigh_cache : x.index = l.index /\ x.ip \in ips},
             \A x \in mine : x.resolved,
             new = {[name |-> n, ip |-> x.ip] : x \in mine},
             rep = [report[c] EXCEPT !.neighbors = @ \cup new], Report(c, n, rep)
      PROVE  Reported(c, s)
    <2>1. l \in s.links /\ l.name = n /\ mine \subseteq s.neighs
        BY <1>1 DEF CurrentLink
    <2>2. \A r \in new : NeighExisted(r, s)
        BY <1>1, <2>1 DEF NeighExisted
    <2>3. IsReport(rep) /\ Existed(rep, s) /\ Extends(report[c], rep)
        BY <1>1, <2>2 DEF IsReport, Existed, Extends
    <2>4. QED  BY <1>1, <2>3 DEF Reported
<1>2. QED  BY <1>1 DEF NeighborList

\* A getter fails, or what it adds to a report was in the caches it reads.
LEMMA GetterReports ==
    ASSUME NEW c \in Client, GetterStep(c), NEW s, IsReport(report[c]), Existed(report[c], s),
           link_cache \subseteq s.links, s.links \subseteq Link, addr_cache \subseteq s.addrs,
           neigh_cache \subseteq s.neighs, ~Fail(c)
    PROVE  Reported(c, s)
<1>1. ASSUME NEW n, leaf(c, n) PROVE Reported(c, s)
    BY <1>1, OthersReported DEF leaf
<1>2. ASSUME NEW n, phys_address(c, n) PROVE Reported(c, s)
    BY <1>2, OthersReported DEF phys_address
<1>3. ASSUME NEW n, higher_layer_if(c, n) PROVE Reported(c, s)
    BY <1>3, OthersReported DEF higher_layer_if
<1>4. ASSUME NEW n, lower_layer_if(c, n) PROVE Reported(c, s)
    BY <1>4, OthersReported DEF lower_layer_if
<1>5. ASSUME NEW n, ipv4_address(c, n) \/ ipv6_address(c, n) PROVE Reported(c, s)
    BY <1>5, AddressesReported DEF ipv4_address, ipv6_address
<1>6. ASSUME NEW n, ipv4_neighbor(c, n) \/ ipv6_neighbor(c, n) PROVE Reported(c, s)
    BY <1>6, NeighborsReported DEF ipv4_neighbor, ipv6_neighbor
<1>7. ASSUME NEW r, address_origin(c, r) \/ neighbor_origin(c, r) PROVE Reported(c, s)
    BY <1>7, OthersReported DEF address_origin, neighbor_origin
<1>8. QED  BY <1>1, <1>2, <1>3, <1>4, <1>5, <1>6, <1>7, StatsReported DEF GetterStep

\* A getter below the list reports what the caches have, which was there.
LEMMA ReportGetter == ASSUME AllocInv, SeenInv, ReportInv, NEW c \in Client, GetterStep(c) PROVE ReportInv'
<1>1. at[c] \in Stage /\ UNCHANGED seen
    BY GetterMoves DEF history
<1>2. CASE Fail(c)
    BY <1>1, <1>2, ReportFails
<1>3. CASE ~Fail(c)
    <2>1. Active(c) /\ at[c] # "links"
        BY <1>1, Stages DEF Active, InList
    <2>2. /\ IsReport(report[c]) /\ Existed(report[c], seen[c])
          /\ link_cache \subseteq seen[c].links /\ addr_cache \subseteq seen[c].addrs
          /\ neigh_cache \subseteq seen[c].neighs /\ seen[c].links \subseteq Link
        BY <1>1, <2>1 DEF ReportInv, SeenInv, Sees
    <2>3. Reported(c, seen[c])
        BY <1>3, <2>2, GetterReports
    <2>4. QED  BY <1>1, <2>3, ReportReports DEF Reported
<1>4. QED  BY <1>2, <1>3

\* A change of the host takes nothing back that was there.
LEMMA ReportHost ==
    ASSUME SeenInv, ReportInv, NEW L, NEW A, NEW N, NEW R, HostBecomes(L, A, N, R)
    PROVE  ReportInv'
<1>1. /\ UNCHANGED <<at, report>>
      /\ seen' = [c \in Client |->
                     IF Active(c) THEN [links  |-> seen[c].links \cup link',
                                        addrs  |-> seen[c].addrs \cup addr',
                                        neighs |-> seen[c].neighs \cup neigh']
                     ELSE seen[c]]
    BY DEF HostBecomes, requestVars
<1>2. ASSUME NEW c \in Client
      PROVE  /\ seen[c].links \subseteq seen'[c].links /\ seen[c].addrs \subseteq seen'[c].addrs
             /\ seen[c].neighs \subseteq seen'[c].neighs
    BY <1>1
<1>3. ASSUME NEW c \in Client PROVE Existed(report[c], seen'[c])
    BY <1>2, ExistedGrows DEF ReportInv
<1>4. QED  BY <1>1, <1>3 DEF ReportInv

\* Every step keeps it.
LEMMA ReportNext == AllocInv /\ SeenInv /\ ReportInv /\ [Next]_vars => ReportInv'
<1> SUFFICES ASSUME AllocInv, SeenInv, ReportInv, [Next]_vars PROVE ReportInv'
    OBVIOUS
<1>1. ASSUME NEW c \in Client, NextRequest(c) PROVE ReportInv'
    <2>1. /\ at' = [at EXCEPT ![c] = "idle"] /\ seen' = [seen EXCEPT ![c] = NothingSeen]
          /\ report' = [report EXCEPT ![c] = NoReport]
        BY <1>1 DEF NextRequest, GoTo
    <2>2. /\ at'[c] = "idle" /\ report'[c] = NoReport /\ report' = [d \in Client |-> report'[d]]
          /\ \A d \in Client : d # c => at'[d] = at[d] /\ seen'[d] = seen[d] /\ report'[d] = report[d]
        BY <2>1 DEF AllocInv, SeenInv, ReportInv
    <2>3. ASSUME NEW d \in Client
          PROVE  /\ IsReport(report'[d]) /\ Existed(report'[d], seen'[d])
                 /\ at'[d] = "idle" => report'[d] = NoReport
                 /\ at'[d] \in InList => OnlyKept(report'[d])
        BY <2>2, NothingExisted DEF ReportInv
    <2>4. QED  BY <2>2, <2>3 DEF ReportInv
<1>2. CASE Environment
    BY <1>2, ReportHost DEF Environment, LinkCreated, LinkDeleted, LinkEnslaved, CountersChanged,
                            EntriesChanged, RunningChanged
<1>3. CASE UNCHANGED vars
    BY <1>3 DEF vars, requestVars, history, ReportInv
<1>4. QED  BY <1>1, <1>2, <1>3, ReportList, ReportGetter DEF Next

\* Whatever is reported to a client was there while it was asked for, with any
\* number of clients that refill the caches of each other, and with counters of
\* any width.
THEOREM ReportsExisted == Spec => []ReportedExisted
<1>1. ReportInv => ReportedExisted
    <2> SUFFICES ASSUME ReportInv, NEW c \in Client, Existed(report[c], seen[c])
                 PROVE  /\ report[c].interfaces \subseteq {l.name : l \in seen[c].links}
                        /\ \A r \in report[c].stats :
                              \E l \in seen[c].links : l.name = r.name /\ Counts(r, l.stats)
                        /\ \A r \in report[c].addresses :
                              \E l \in seen[c].links, a \in seen[c].addrs :
                                 l.name = r.name /\ a.index = l.index /\ a.ip = r.ip /\ a.plen = r.plen
                        /\ \A r \in report[c].neighbors :
                              \E l \in seen[c].links, x \in seen[c].neighs :
                                 l.name = r.name /\ x.index = l.index /\ x.ip = r.ip /\ x.resolved
        BY DEF ReportInv, ReportedExisted
    <2>1. QED  BY DEF Existed, InterfaceExisted, StatsExisted, AddrExisted, NeighExisted
<1>2. QED  BY <1>1, ReportInit, ReportNext, SeenHolds, PTL DEF Spec

-----------------------------------------------------------------------------
(* Refused calls and what they leave                                       *)

\* A call was refused if the socket is not connected, or if a part of the
\* caches is there that no request is about to complete.
RefusedInv ==
    /\ refused \in Nat /\ socket \in {"none", "unconnected", "connected"}
    /\ socket = "unconnected" => refused > 0
    /\ \A c \in Client : at[c] \in InList => socket # "none"
    /\ allocated = {"links"} => refused > 0 \/ \E c \in Client : at[c] = "alloc_addrs"
    /\ allocated = {"links", "addrs"} => refused > 0 \/ \E c \in Client : at[c] = "alloc_neighs"

\* Nothing is allocated, opened or refused in the beginning.
LEMMA RefusedInit == Init => RefusedInv
    BY DEF Init, RefusedInv, InList

\* A dump fails when it is refused, or when the socket was.
LEMMA DumpRefused ==
    ASSUME RefusedInv, NEW c \in Client, at[c] \in InList, DumpFails
    PROVE  refused' \in Nat /\ refused' >= refused /\ refused' > 0
    BY DEF RefusedInv, DumpFails, Refuse

\* A request that goes on without an allocation, as the one that completes the
\* caches only when a call was refused.
LEMMA RefusedMoves ==
    ASSUME AllocInv, RefusedInv, NEW c \in Client, NEW p, at' = [at EXCEPT ![c] = p],
           UNCHANGED <<socket, allocated>>, refused' \in Nat, refused' >= refused,
           at[c] \in {"alloc_addrs", "alloc_neighs"} => refused' > 0,
           p \in InList => at[c] \in InList
    PROVE  RefusedInv'
<1>1. at'[c] = p /\ \A d \in Client : d # c => at'[d] = at[d]
    BY DEF AllocInv
<1>2. \A d \in Client : at'[d] \in InList => socket # "none"
    BY <1>1 DEF RefusedInv
<1>3. ASSUME NEW d \in Client, NEW q \in {"alloc_addrs", "alloc_neighs"}, at[d] = q
      PROVE  refused' > 0 \/ at'[d] = q
    BY <1>1, <1>3
<1>4. refused > 0 => refused' > 0
    BY DEF RefusedInv
<1>5. QED  BY <1>2, <1>3, <1>4 DEF RefusedInv

\* The caches are allocated one after the other by the one request in the list
\* getter.
LEMMA RefusedAllocates ==
    ASSUME AllocInv, RefusedInv, NEW c \in Client, at[c] \in InList, NEW p,
           at' = [at EXCEPT ![c] = p], UNCHANGED <<socket, refused>>,
           allocated' = {"links"} => p = "alloc_addrs" \/ refused > 0,
           allocated' = {"links", "addrs"} => p = "alloc_neighs" \/ refused > 0
    PROVE  RefusedInv'
<1>1. at'[c] = p /\ \A d \in Client : d # c => at'[d] = at[d]
    BY DEF AllocInv
<1>2. \A d \in Client : at'[d] \in InList => socket # "none"
    BY <1>1 DEF RefusedInv
<1>3. QED  BY <1>1, <1>2 DEF RefusedInv

\* What the caches were allocated for while a request is in the list getter.
LEMMA PartRefused ==
    ASSUME AllocInv, RefusedInv, NEW c \in Client, at[c] \in InList
    PROVE  /\ allocated = {"links"} => at[c] = "alloc_addrs" \/ refused > 0
           /\ allocated = {"links", "addrs"} => at[c] = "alloc_neighs" \/ refused > 0
<1>1. \A d \in Client : at[d] \in {"alloc_addrs", "alloc_neighs"} => d = c
    BY DEF AllocInv, InList
<1>2. QED  BY <1>1 DEF RefusedInv

\* After a crash nothing is open, and nobody is in the list getter.
LEMMA RefusedCrash == ASSUME AllocInv, Crash PROVE RefusedInv'
<1>1. /\ allocated' = {} /\ socket' = "none" /\ refused' = 0
      /\ \A c \in Client : at'[c] \in Answered
    BY DEF Crash, Active, Answered
<1>2. QED  BY <1>1, Stages DEF RefusedInv

\* A request opens the socket, or finds it as it was left.
LEMMA RefusedStart == ASSUME AllocInv, RefusedInv, NEW c \in Client, ListStart(c) PROVE RefusedInv'
<1>1. /\ at[c] = "idle" /\ ThreadFree /\ allocated' = allocated
    BY DEF ListStart
<1>2. at'[c] \in {"links", "failed"} /\ \A d \in Client : d # c => at'[d] = at[d]
    BY DEF ListStart, GoTo, Fail, AllocInv
<1>3. /\ refused' \in Nat /\ socket' \in {"none", "unconnected", "connected"}
      /\ socket' = "unconnected" => refused' > 0
      /\ at'[c] = "links" => socket' # "none"
      /\ refused > 0 => refused' > 0
    BY DEF ListStart, RefusedInv, Refuse, Fail, GoTo, AllocInv
<1>4. \A d \in Client : at'[d] \in InList => socket' # "none"
    BY <1>1, <1>2, <1>3 DEF ThreadFree, InList
<1>5. \A d \in Client : at[d] \in {"alloc_addrs", "alloc_neighs"} => at'[d] = at[d]
    BY <1>1, <1>2
<1>6. QED  BY <1>1, <1>3, <1>4, <1>5 DEF RefusedInv

\* The list getter leaves a part of the caches only when a call was refused.
LEMMA RefusedList == ASSUME AllocInv, RefusedInv, NEW c \in Client, ListStep(c) PROVE RefusedInv'
<1>1. ASSUME at[c] \in InList, DumpFails, Fail(c), UNCHANGED <<socket, allocated>> PROVE RefusedInv'
    BY <1>1, DumpRefused, RefusedMoves, Stages DEF Fail, GoTo, Answered
<1>2. ASSUME at[c] \in InList \ {"alloc_addrs", "alloc_neighs"}, DumpFails, NEW p, GoTo(c, p),
             UNCHANGED <<socket, allocated>>
      PROVE  RefusedInv'
    BY <1>2, DumpRefused, RefusedMoves DEF GoTo
<1>3. CASE DumpLinks(c)
    <2>1. at[c] = "links" /\ at[c] \in InList /\ socket' = socket
        BY <1>3 DEF DumpLinks, InList
    <2>2. CASE /\ DumpWorks /\ allocated' = allocated \cup {"links"}
               /\ GoTo(c, IF "links" \in allocated THEN "refill_addrs" ELSE "alloc_addrs")
        <3>1. PICK p : p = IF "links" \in allocated THEN "refill_addrs" ELSE "alloc_addrs"
            OBVIOUS
        <3>2. at' = [at EXCEPT ![c] = p] /\ refused' = refused
            BY <2>2, <3>1 DEF GoTo, DumpWorks
        <3>3. /\ allocated' = {"links"} => p = "alloc_addrs" \/ refused > 0
              /\ allocated' = {"links", "addrs"} => p = "alloc_neighs" \/ refused > 0
            BY <2>1, <2>2, <3>1, PartRefused DEF AllocInv, Cache
        <3>4. QED  BY <2>1, <3>2, <3>3, RefusedAllocates
    <2>3. QED  BY <1>1, <1>2, <1>3, <2>1, <2>2 DEF DumpLinks
<1>4. CASE DumpAddrs(c)
    <2>1. CASE Crash
        BY <2>1, RefusedCrash
    <2>2. CASE /\ at[c] \in {"alloc_addrs", "refill_addrs"}
               /\ at[c] = "refill_addrs" => "addrs" \in allocated
               /\ DumpWorks /\ allocated' = allocated \cup {"addrs"} /\ socket' = socket
               /\ GoTo(c, IF at[c] = "alloc_addrs" THEN "alloc_neighs" ELSE "refill_neighs")
        <3>1. PICK p : p = IF at[c] = "alloc_addrs" THEN "alloc_neighs" ELSE "refill_neighs"
            OBVIOUS
        <3>2. at[c] \in InList /\ at' = [at EXCEPT ![c] = p] /\ refused' = refused
            BY <2>2, <3>1 DEF GoTo, DumpWorks, InList
        <3>3. /\ allocated' = {"links"} => p = "alloc_addrs" \/ refused > 0
              /\ allocated' = {"links", "addrs"} => p = "alloc_neighs" \/ refused > 0
            BY <2>2, <3>1, <3>2, PartRefused DEF AllocInv, Cache
        <3>4. QED  BY <2>2, <3>2, <3>3, RefusedAllocates
    <2>3. QED  BY <1>1, <1>2, <1>4, <2>1, <2>2 DEF DumpAddrs, caches, InList
<1>5. CASE DumpNeighs(c)
    <2>1. CASE Crash
        BY <2>1, RefusedCrash
    <2>2. CASE /\ at[c] \in {"alloc_neighs", "refill_neighs"} /\ DumpWorks
               /\ at[c] = "refill_neighs" => "neighs" \in allocated
               /\ allocated' = allocated \cup {"neighs"} /\ socket' = socket
               /\ AddInterfaces(c)
        <3>1. PICK p \in Stage \cup {"done"} : at' = [at EXCEPT ![c] = p]
            BY <2>2, GoesOn DEF AddInterfaces
        <3>2. at[c] \in InList /\ refused' = refused /\ allocated' = Cache
            BY <2>2 DEF DumpWorks, InList, AllocInv, Cache
        <3>3. "neighs" \in allocated' /\ "neighs" \notin {"links"} /\ "neighs" \notin {"links", "addrs"}
            BY <3>2 DEF Cache
        <3>4. QED  BY <2>2, <3>1, <3>2, <3>3, RefusedAllocates
    <2>3. CASE /\ at[c] = "refill_neighs" /\ DumpFails /\ AddInterfaces(c)
               /\ UNCHANGED <<socket, allocated>>
        <3>1. PICK p \in Stage \cup {"done"} : at' = [at EXCEPT ![c] = p]
            BY <2>3, GoesOn DEF AddInterfaces
        <3>2. QED  BY <1>2, <2>3, <3>1 DEF GoTo, InList
    <2>4. QED  BY <1>1, <1>5, <2>1, <2>2, <2>3 DEF DumpNeighs, caches, InList
<1>6. QED  BY <1>3, <1>4, <1>5, RefusedStart DEF ListStep

\* One step keeps it.
LEMMA RefusedNext == AllocInv /\ RefusedInv /\ [Next]_vars => RefusedInv'
<1> SUFFICES ASSUME AllocInv, RefusedInv, [Next]_vars PROVE RefusedInv'
    OBVIOUS
<1>1. ASSUME NEW c \in Client, GetterStep(c) PROVE RefusedInv'
    <2>1. PICK p \in Stage \cup {"done", "failed"} : at' = [at EXCEPT ![c] = p]
        BY <1>1, GetterMoves
    <2>2. /\ at[c] \notin {"alloc_addrs", "alloc_neighs"} /\ p \notin InList
          /\ UNCHANGED <<socket, allocated, refused>>
        BY <1>1, <2>1, GetterMoves, Stages DEF InList, Answered, caches
    <2>3. QED  BY <2>1, <2>2, RefusedMoves DEF RefusedInv
<1>2. ASSUME NEW c \in Client, NextRequest(c) PROVE RefusedInv'
    <2>1. /\ at' = [at EXCEPT ![c] = "idle"] /\ at[c] \notin {"alloc_addrs", "alloc_neighs"}
          /\ UNCHANGED <<socket, allocated, refused>> /\ "idle" \notin InList
        BY <1>2 DEF NextRequest, GoTo, caches, InList
    <2>2. QED  BY <2>1, RefusedMoves DEF RefusedInv
<1>3. CASE Environment
    <2>1. UNCHANGED <<at, socket, allocated, refused>>
        BY <1>3 DEF Environment, LinkCreated, LinkDeleted, LinkEnslaved, CountersChanged,
                    EntriesChanged, RunningChanged, HostBecomes, caches, requestVars
    <2>2. QED  BY <2>1 DEF RefusedInv
<1>4. CASE UNCHANGED vars
    BY <1>4 DEF vars, caches, requestVars, RefusedInv
<1>5. QED  BY <1>1, <1>2, <1>3, <1>4, RefusedList DEF Next

-----------------------------------------------------------------------------
(* What a getter below the list is called for is in the caches             *)

Cached == [links |-> link_cache, addrs |-> addr_cache, neighs |-> neigh_cache]
Overtaken(c) == "overtaken" \in during[c]

\* What a getter is called for, however much was reported when it began: the more
\* addresses are, the fewer are left of running.
MayServe(getter, rep) ==
    CASE getter = "address_origin"  -> rep.addresses \cup rep.kept.addresses
      [] getter = "neighbor_origin" -> rep.neighbors \cup rep.kept.neighbors
      [] OTHER                      -> rep.interfaces \cup rep.kept.interfaces

LEMMA ParentsServed == \A getter, rep : ParentsOf(getter, rep) \subseteq MayServe(getter, rep)
    BY DEF ParentsOf, MayServe

\* A getter is called for what was reported or is kept of running, and what was
\* reported is in the caches unless another request filled them in the meantime.
HeldInv ==
    /\ during = [c \in Client |-> during[c]] /\ parents = [c \in Client |-> parents[c]]
    /\ \A c, d \in Client :
          c # d /\ at[c] \in Stage /\ at[d] \in InList \ {"links"} => Overtaken(c)
    /\ \A c \in Client : at[c] \in Stage =>
          /\ parents[c] \subseteq MayServe(at[c], report[c])
          /\ Overtaken(c) \/ Existed(report[c], Cached)

\* No request is under way in the beginning.
LEMMA HeldInit == Init => HeldInv
    BY Stages DEF Init, HeldInv, Answered

\* A request that answers a getter is called for what it reported.
LEMMA GoesOnFor ==
    ASSUME AllocInv, HeldInv, ReportInv, NEW c \in Client, NEW k, NEW rep, GoOn(c, k, rep),
           k \in Int, k >= 1
    PROVE  /\ \E p \in Stage \cup {"done"} : at' = [at EXCEPT ![c] = p]
           /\ parents' = [d \in Client |-> parents'[d]] /\ report'[c] = rep
           /\ \A d \in Client : d # c => parents'[d] = parents[d] /\ report'[d] = report[d]
           /\ at'[c] \in Stage => parents'[c] = ParentsOf(at'[c], rep)
<1>1. CASE GoTo(c, "done") /\ parents' = [parents EXCEPT ![c] = {}]
    <2>1. at'[c] \notin Stage
        BY <1>1, Stages DEF GoTo, AllocInv, Answered
    <2>2. QED  BY <1>1, <2>1 DEF GoOn, GoTo, HeldInv, ReportInv
<1>2. ASSUME NEW j \in k..Len(Getters), GoTo(c, Getters[j]),
             parents' = [parents EXCEPT ![c] = ParentsOf(Getters[j], rep)]
      PROVE  /\ \E p \in Stage \cup {"done"} : at' = [at EXCEPT ![c] = p]
             /\ parents' = [d \in Client |-> parents'[d]] /\ report'[c] = rep
             /\ \A d \in Client : d # c => parents'[d] = parents[d] /\ report'[d] = report[d]
             /\ parents'[c] = ParentsOf(at'[c], rep)
    <2>1. j \in 1..Len(Getters)
        BY Stages
    <2>2. Getters[j] \in Stage /\ at' = [at EXCEPT ![c] = Getters[j]] /\ at'[c] = Getters[j]
        BY <1>2, <2>1, Stages DEF GoTo, AllocInv
    <2>3. /\ parents' = [d \in Client |-> parents'[d]]
          /\ parents'[c] = ParentsOf(Getters[j], rep)
          /\ \A d \in Client : d # c => parents'[d] = parents[d]
        BY <1>2 DEF HeldInv
    <2>4. report'[c] = rep /\ \A d \in Client : d # c => report'[d] = report[d]
        BY DEF GoOn, ReportInv
    <2>5. QED  BY <2>2, <2>3, <2>4
<1>3. QED  BY <1>1, <1>2 DEF GoOn

\* A request that leaves the getters below the list, or stays out of them, and
\* fills no cache that a request below still reads.
LEMMA HeldLeaves ==
    ASSUME HeldInv, NEW c \in Client,
           at' = [d \in Client |-> at'[d]], \A d \in Client : d # c => at'[d] = at[d],
           at'[c] \notin Stage,
           parents' = [d \in Client |-> parents'[d]],
           \A d \in Client : d # c => parents'[d] = parents[d] /\ report'[d] = report[d],
           during' = [d \in Client |-> during'[d]],
           \A d \in Client : d # c /\ at[d] \in Stage => during[d] \subseteq during'[d],
           \A d \in Client : d # c /\ at[d] \in Stage =>
              \/ Overtaken(d)'
              \/ (at'[c] \in InList => at'[c] = "links" \/ at[c] \in InList \ {"links"})
                 /\ UNCHANGED <<link_cache, addr_cache, neigh_cache>>
    PROVE  HeldInv'
<1>1. ASSUME NEW d \in Client, at'[d] \in Stage
      PROVE  /\ d # c /\ at[d] \in Stage /\ at'[d] = at[d]
             /\ parents'[d] = parents[d] /\ report'[d] = report[d] /\ during[d] \subseteq during'[d]
    BY <1>1
<1>2. ASSUME NEW d \in Client, at'[d] \in Stage, Overtaken(d) PROVE Overtaken(d)'
    BY <1>1, <1>2 DEF Overtaken
<1>3. ASSUME NEW d \in Client, NEW e \in Client, d # e, at'[d] \in Stage,
             at'[e] \in InList \ {"links"}
      PROVE  Overtaken(d)'
    BY <1>1, <1>2, <1>3 DEF HeldInv
<1>4. ASSUME NEW d \in Client, at'[d] \in Stage
      PROVE  /\ parents'[d] \subseteq MayServe(at'[d], report'[d])
             /\ Overtaken(d)' \/ Existed(report'[d], Cached')
    <2>1. parents[d] \subseteq MayServe(at[d], report[d]) /\ (Overtaken(d) \/ Existed(report[d], Cached))
        BY <1>1, <1>4 DEF HeldInv
    <2>2. CASE Overtaken(d)'
        BY <1>1, <1>4, <2>1, <2>2
    <2>3. CASE ~Overtaken(d)'
        <3>1. Cached' = Cached
            BY <1>1, <1>4, <2>3 DEF Cached
        <3>2. QED  BY <1>1, <1>2, <1>4, <2>1, <2>3, <3>1
    <2>4. QED  BY <2>2, <2>3
<1>5. QED  BY <1>3, <1>4 DEF HeldInv

\* A request that fails is out of the getters.
LEMMA HeldFails ==
    ASSUME AllocInv, HeldInv, ReportInv, NEW c \in Client, Fail(c),
           UNCHANGED <<link_cache, addr_cache, neigh_cache, during>>
    PROVE  HeldInv'
<1>1. /\ at' = [d \in Client |-> at'[d]] /\ at'[c] = "failed"
      /\ \A d \in Client : d # c => at'[d] = at[d]
    BY DEF Fail, GoTo, AllocInv
<1>2. /\ parents' = [d \in Client |-> parents'[d]]
      /\ \A d \in Client : d # c => parents'[d] = parents[d] /\ report'[d] = report[d]
    BY DEF Fail, HeldInv, ReportInv
<1>3. at'[c] \notin Stage /\ at'[c] \notin InList
    BY <1>1, Stages DEF Answered
<1>4. during' = [d \in Client |-> during'[d]] /\ \A d \in Client : during[d] \subseteq during'[d]
    BY DEF HeldInv
<1>5. QED  BY <1>1, <1>2, <1>3, <1>4, HeldLeaves

\* After a crash no getter is called.
LEMMA HeldCrash == ASSUME AllocInv, HeldInv, Crash PROVE HeldInv'
<1>1. at' \in [Client -> Answered] /\ parents' = [c \in Client |-> parents'[c]] /\ during' = during
    BY DEF Crash, Active, AllocInv, Answered, history
<1>2. \A c \in Client : at'[c] \notin Stage
    BY <1>1, Stages
<1>3. QED  BY <1>1, <1>2 DEF HeldInv

\* A request is called for what its report has, all of it in the caches.
LEMMA HeldEnters ==
    ASSUME AllocInv, HeldInv, NEW c \in Client,
           \E p \in Stage \cup {"done"} : at' = [at EXCEPT ![c] = p],
           parents' = [d \in Client |-> parents'[d]],
           \A d \in Client : d # c => parents'[d] = parents[d] /\ report'[d] = report[d],
           at'[c] \in Stage => parents'[c] \subseteq MayServe(at'[c], report'[c]),
           during' = [d \in Client |-> during'[d]], \A d \in Client : during[d] \subseteq during'[d],
           Overtaken(c)' \/ Existed(report'[c], Cached'),
           at[c] \in Stage \/ at[c] \in InList \ {"links"},
           at[c] \in Stage => Overtaken(c) \/ ThreadFree,
           \A d \in Client : d # c /\ at[d] \in Stage =>
              Overtaken(d)' \/ UNCHANGED <<link_cache, addr_cache, neigh_cache>>
    PROVE  HeldInv'
<1>1. PICK p \in Stage \cup {"done"} : at' = [at EXCEPT ![c] = p]
    OBVIOUS
<1>2. at'[c] = p /\ p \notin InList /\ \A d \in Client : d # c => at'[d] = at[d]
    BY <1>1, Stages DEF AllocInv, Answered
<1>3. ASSUME NEW d \in Client, Overtaken(d) PROVE Overtaken(d)'
    BY <1>3 DEF Overtaken
<1>4. ASSUME NEW d \in Client, NEW e \in Client, d # e, at'[d] \in Stage,
             at'[e] \in InList \ {"links"}
      PROVE  Overtaken(d)'
    <2>1. e # c /\ at[e] \in InList \ {"links"}
        BY <1>2, <1>4
    <2>2. CASE d = c
        BY <1>3, <2>1, <2>2 DEF ThreadFree, AllocInv
    <2>3. CASE d # c
        BY <1>2, <1>3, <1>4, <2>1, <2>3 DEF HeldInv
    <2>4. QED  BY <2>2, <2>3
<1>5. ASSUME NEW d \in Client, at'[d] \in Stage
      PROVE  /\ parents'[d] \subseteq MayServe(at'[d], report'[d])
             /\ Overtaken(d)' \/ Existed(report'[d], Cached')
    <2>1. CASE d = c
        BY <1>5, <2>1
    <2>2. CASE d # c
        <3>1. /\ at'[d] = at[d] /\ parents'[d] = parents[d] /\ report'[d] = report[d]
              /\ parents[d] \subseteq MayServe(at[d], report[d])
              /\ Overtaken(d) \/ Existed(report[d], Cached)
            BY <1>2, <1>5, <2>2 DEF HeldInv
        <3>2. Overtaken(d)' \/ Cached' = Cached
            BY <1>2, <1>5, <2>2 DEF Cached
        <3>3. QED  BY <1>3, <3>1, <3>2
    <2>3. QED  BY <2>1, <2>2
<1>6. QED  BY <1>4, <1>5 DEF HeldInv

\* The list getter fills the caches, and marks the requests that still read them.
LEMMA HeldList == ASSUME AllocInv, HeldInv, ReportInv, NEW c \in Client, ListStep(c) PROVE HeldInv'
<1>1. ASSUME NEW p, p \notin Stage, GoTo(c, p), UNCHANGED parents,
             \A d \in Client : d # c => report'[d] = report[d],
             during' = [d \in Client |-> during'[d]],
             \A d \in Client : d # c => during[d] \subseteq during'[d],
             \A d \in Client : d # c /\ at[d] \in Stage =>
                \/ Overtaken(d)'
                \/ (p \in InList => p = "links" \/ at[c] \in InList \ {"links"})
                   /\ UNCHANGED <<link_cache, addr_cache, neigh_cache>>
      PROVE  HeldInv'
    <2>1. /\ at' = [d \in Client |-> at'[d]] /\ at'[c] = p
          /\ \A d \in Client : d # c => at'[d] = at[d]
        BY <1>1 DEF GoTo, AllocInv
    <2>2. parents' = [d \in Client |-> parents'[d]]
        BY <1>1 DEF HeldInv
    <2>3. QED  BY <1>1, <2>1, <2>2, HeldLeaves
<1>2. during = [d \in Client |-> during[d]]
    BY DEF HeldInv
<1>3. CASE ListStart(c)
    <2>1. during' = during /\ UNCHANGED <<link_cache, addr_cache, neigh_cache>>
        BY <1>3 DEF ListStart
    <2>2. CASE Fail(c)
        BY <2>1, <2>2, HeldFails
    <2>3. ASSUME NEW k, GoTo(c, "links"), UNCHANGED parents, report' = [report EXCEPT ![c].kept = k]
          PROVE  HeldInv'
        <3>1. \A d \in Client : d # c => report'[d] = report[d]
            BY <2>3 DEF ReportInv
        <3>2. QED  BY <1>1, <1>2, <2>1, <2>3, <3>1, Stages DEF InList
    <2>4. QED  BY <1>3, <2>2, <2>3 DEF ListStart
<1>4. CASE DumpLinks(c)
    <2>1. at[c] = "links" /\ UNCHANGED <<addr_cache, neigh_cache>>
        BY <1>4 DEF DumpLinks
    <2>2. CASE Fail(c) /\ UNCHANGED <<link_cache, during>>
        BY <2>1, <2>2, HeldFails
    <2>3. ASSUME NEW p \in {"alloc_addrs", "refill_addrs"}, GoTo(c, p), UNCHANGED <<parents, report>>,
                 NEW own,
                 during' = [d \in Client |-> IF d = c THEN own
                                             ELSE IF Active(d) THEN during[d] \cup {"overtaken"}
                                             ELSE during[d]]
          PROVE  HeldInv'
        <3>1. \A d \in Client : d # c /\ at[d] \in Stage => Overtaken(d)'
            BY <2>3, Stages DEF Active, Overtaken
        <3>2. during' = [d \in Client |-> during'[d]]
              /\ \A d \in Client : d # c => during[d] \subseteq during'[d]
            BY <2>3
        <3>3. QED  BY <1>1, <2>3, <3>1, <3>2, Stages DEF InList
    <2>4. CASE /\ GoTo(c, IF "links" \in allocated THEN "refill_addrs" ELSE "alloc_addrs")
               /\ during' = [d \in Client |-> IF d # c /\ Active(d) THEN during[d] \cup {"overtaken"}
                                              ELSE during[d]]
               /\ UNCHANGED <<parents, report>>
        <3>1. during' = [d \in Client |-> IF d = c THEN during[c]
                                          ELSE IF Active(d) THEN during[d] \cup {"overtaken"}
                                          ELSE during[d]]
            BY <2>4
        <3>2. QED  BY <2>3, <2>4, <3>1
    <2>5. CASE /\ GoTo(c, "refill_addrs")
               /\ during' = [d \in Client |-> IF d = c THEN during[d] \cup {"refused"}
                                              ELSE IF Active(d) THEN during[d] \cup {"overtaken"}
                                              ELSE during[d]]
               /\ UNCHANGED <<parents, report>>
        <3>1. during' = [d \in Client |-> IF d = c THEN during[c] \cup {"refused"}
                                          ELSE IF Active(d) THEN during[d] \cup {"overtaken"}
                                          ELSE during[d]]
            BY <2>5
        <3>2. QED  BY <2>3, <2>5, <3>1
    <2>6. QED  BY <1>4, <2>2, <2>4, <2>5 DEF DumpLinks
<1>5. CASE DumpAddrs(c)
    <2>1. CASE Crash
        BY <2>1, HeldCrash
    <2>2. CASE Fail(c) /\ UNCHANGED <<caches, during>>
        BY <2>2, HeldFails DEF caches
    <2>3. ASSUME at[c] \in {"alloc_addrs", "refill_addrs"},
                 NEW p \in {"alloc_neighs", "refill_neighs"}, GoTo(c, p), UNCHANGED <<parents, report>>,
                 during' = during \/ Note(c, "refused")
          PROVE  HeldInv'
        <3>1. during' = [d \in Client |-> during'[d]] /\ \A d \in Client : during[d] \subseteq during'[d]
            BY <1>2, <2>3 DEF Note
        <3>2. \A d \in Client : d # c /\ at[d] \in Stage => Overtaken(d)'
            BY <2>3, <3>1 DEF HeldInv, Overtaken, InList
        <3>3. QED  BY <1>1, <2>3, <3>1, <3>2, Stages DEF InList
    <2>4. QED  BY <1>5, <2>1, <2>2, <2>3 DEF DumpAddrs
<1>6. CASE DumpNeighs(c)
    <2>1. CASE Crash
        BY <2>1, HeldCrash
    <2>2. CASE Fail(c) /\ UNCHANGED <<caches, during>>
        BY <2>2, HeldFails DEF caches
    <2>3. ASSUME at[c] \in {"alloc_neighs", "refill_neighs"}, AddInterfaces(c), UNCHANGED link_cache,
                 during' = during \/ Note(c, "refused")
          PROVE  HeldInv'
        <3>1. during' = [d \in Client |-> during'[d]] /\ \A d \in Client : during[d] \subseteq during'[d]
            BY <1>2, <2>3 DEF Note
        <3>2. \A d \in Client : d # c /\ at[d] \in Stage => Overtaken(d)'
            BY <2>3, <3>1 DEF HeldInv, Overtaken, InList
        <3>3. PICK rep : /\ rep = [report[c] EXCEPT !.interfaces = {l.name : l \in link_cache}]
                         /\ GoOn(c, 1, rep)
            BY <2>3 DEF AddInterfaces
        <3>4. PICK k : report[c] = [NoReport EXCEPT !.kept = k]
            BY <2>3 DEF ReportInv, OnlyKept, InList
        <3>5. /\ \E p \in Stage \cup {"done"} : at' = [at EXCEPT ![c] = p]
              /\ parents' = [d \in Client |-> parents'[d]] /\ report'[c] = rep
              /\ \A d \in Client : d # c => parents'[d] = parents[d] /\ report'[d] = report[d]
              /\ at'[c] \in Stage => parents'[c] = ParentsOf(at'[c], rep)
            BY <3>3, GoesOnFor
        <3>6. Existed(rep, Cached')
            BY <2>3, <3>3, <3>4 DEF NoReport, Existed, InterfaceExisted, Cached
        <3>7. at[c] \in InList \ {"links"} /\ at[c] \notin Stage
            BY <2>3, Stages DEF InList
        <3>8. QED  BY <3>1, <3>2, <3>5, <3>6, <3>7, ParentsServed, HeldEnters
    <2>4. QED  BY <1>6, <2>1, <2>2, <2>3 DEF DumpNeighs
<1>7. QED  BY <1>3, <1>4, <1>5, <1>6 DEF ListStep

\* What a getter is called for stays, one parent less.
LEMMA HeldGetter ==
    ASSUME AllocInv, SeenInv, ReportInv, HeldInv, NEW c \in Client, GetterStep(c)
    PROVE  HeldInv'
<1>1. /\ at[c] \in Stage /\ ThreadFree /\ UNCHANGED <<link_cache, addr_cache, neigh_cache, during>>
      /\ \E p \in Stage \cup {"done", "failed"} : at' = [at EXCEPT ![c] = p]
    BY GetterMoves DEF caches, history
<1>2. CASE Fail(c)
    BY <1>1, <1>2, HeldFails
<1>3. CASE ~Fail(c)
    <2>1. link_cache \subseteq Link
        BY <1>1, Stages DEF SeenInv, Sees, Active, InList
    <2>2. /\ IsReport(report[c]) /\ during = [d \in Client |-> during[d]]
          /\ Overtaken(c) \/ Existed(report[c], Cached)
          /\ parents[c] \subseteq MayServe(at[c], report[c])
        BY <1>1 DEF HeldInv, ReportInv
    <2>3. PICK p, rep : Report(c, p, rep) /\ Extends(report[c], rep)
                        /\ (Overtaken(c) \/ Existed(rep, Cached))
        <3>1. CASE Existed(report[c], Cached)
            <4>1. Reported(c, Cached)
                BY <1>3, <2>1, <2>2, <3>1, GetterReports DEF Cached
            <4>2. QED  BY <4>1 DEF Reported
        <3>2. CASE Overtaken(c)
            <4>1. /\ at[c] # "links" /\ Active(c)
                BY <1>1, Stages DEF Active, InList
            <4>2. /\ Existed(report[c], seen[c]) /\ link_cache \subseteq seen[c].links
                  /\ addr_cache \subseteq seen[c].addrs /\ neigh_cache \subseteq seen[c].neighs
                  /\ seen[c].links \subseteq Link
                BY <1>1, <4>1 DEF ReportInv, SeenInv, Sees
            <4>3. Reported(c, seen[c])
                BY <1>3, <2>2, <4>2, GetterReports
            <4>4. QED  BY <3>2, <4>3 DEF Reported
        <3>3. QED  BY <2>2, <3>1, <3>2
    <2>4. /\ \E q \in Stage \cup {"done"} : at' = [at EXCEPT ![c] = q]
          /\ parents' = [d \in Client |-> parents'[d]] /\ report'[c] = rep
          /\ \A d \in Client : d # c => parents'[d] = parents[d] /\ report'[d] = report[d]
          /\ at'[c] \in Stage => parents'[c] \subseteq MayServe(at'[c], rep)
        <3>1. CASE /\ parents' = [parents EXCEPT ![c] = @ \ {p}]
                   /\ report' = [report EXCEPT ![c] = rep] /\ UNCHANGED at
            <4>1. at' = [at EXCEPT ![c] = at[c]] /\ at'[c] = at[c]
                BY <3>1 DEF AllocInv
            <4>2. MayServe(at[c], report[c]) \subseteq MayServe(at[c], rep)
                BY <2>3 DEF MayServe, Extends
            <4>3. /\ parents' = [d \in Client |-> parents'[d]] /\ parents'[c] = parents[c] \ {p}
                  /\ report'[c] = rep
                  /\ \A d \in Client : d # c => parents'[d] = parents[d] /\ report'[d] = report[d]
                BY <3>1 DEF HeldInv, ReportInv
            <4>4. QED  BY <1>1, <2>2, <4>1, <4>2, <4>3
        <3>2. ASSUME NEW k \in 1..Len(Getters), GoOn(c, k + 1, rep)
              PROVE  /\ \E q \in Stage \cup {"done"} : at' = [at EXCEPT ![c] = q]
                     /\ parents' = [d \in Client |-> parents'[d]] /\ report'[c] = rep
                     /\ \A d \in Client : d # c => parents'[d] = parents[d] /\ report'[d] = report[d]
                     /\ at'[c] \in Stage => parents'[c] = ParentsOf(at'[c], rep)
            <4>1. k + 1 \in Int /\ k + 1 >= 1
                BY Stages
            <4>2. QED  BY <3>2, <4>1, GoesOnFor
        <3>3. QED  BY <2>3, <3>1, <3>2, ParentsServed DEF Report
    <2>5. Overtaken(c)' \/ Existed(rep, Cached')
        BY <1>1, <2>3 DEF Overtaken, Cached
    <2>6. QED  BY <1>1, <2>2, <2>4, <2>5, HeldEnters
<1>4. QED  BY <1>2, <1>3

\* The host changes no cache.
LEMMA HeldHost ==
    ASSUME HeldInv, NEW L, NEW A, NEW N, NEW R, HostBecomes(L, A, N, R)
    PROVE  HeldInv'
<1>1. /\ UNCHANGED <<at, parents, report, link_cache, addr_cache, neigh_cache>>
      /\ during' = [c \in Client |-> IF at[c] = "idle" THEN {} ELSE during[c] \cup {"changed"}]
    BY DEF HostBecomes, requestVars, caches
<1>2. \A c \in Client : at[c] \in Stage /\ Overtaken(c) => Overtaken(c)'
    BY <1>1, Stages DEF Overtaken, Answered
<1>3. during' = [c \in Client |-> during'[c]]
    BY <1>1
<1>4. Cached' = Cached
    BY <1>1 DEF Cached
<1>5. QED  BY <1>1, <1>2, <1>3, <1>4 DEF HeldInv

\* Every step keeps it.
LEMMA HeldNext == AllocInv /\ SeenInv /\ ReportInv /\ HeldInv /\ [Next]_vars => HeldInv'
<1> SUFFICES ASSUME AllocInv, SeenInv, ReportInv, HeldInv, [Next]_vars PROVE HeldInv'
    OBVIOUS
<1>1. ASSUME NEW c \in Client, NextRequest(c) PROVE HeldInv'
    <2>1. /\ at' = [at EXCEPT ![c] = "idle"] /\ report' = [report EXCEPT ![c] = NoReport]
          /\ during' = [during EXCEPT ![c] = {}]
          /\ UNCHANGED <<link_cache, addr_cache, neigh_cache, parents>>
        BY <1>1 DEF NextRequest, GoTo, caches
    <2>2. /\ at' = [d \in Client |-> at'[d]] /\ at'[c] = "idle"
          /\ \A d \in Client : d # c => at'[d] = at[d] /\ report'[d] = report[d]
        BY <2>1 DEF AllocInv, ReportInv
    <2>3. /\ during' = [d \in Client |-> during'[d]] /\ parents' = [d \in Client |-> parents'[d]]
          /\ \A d \in Client : d # c => during'[d] = during[d]
        BY <2>1 DEF HeldInv
    <2>4. at'[c] \notin Stage /\ at'[c] \notin InList
        BY <2>2, Stages DEF Answered
    <2>5. UNCHANGED <<link_cache, addr_cache, neigh_cache>>
          /\ \A d \in Client : d # c => parents'[d] = parents[d] /\ during[d] \subseteq during'[d]
        BY <2>1, <2>3
    <2>6. QED  BY <2>2, <2>3, <2>4, <2>5, HeldLeaves
<1>2. CASE Environment
    BY <1>2, HeldHost DEF Environment, LinkCreated, LinkDeleted, LinkEnslaved, CountersChanged,
                          EntriesChanged, RunningChanged
<1>3. CASE UNCHANGED vars
    <2>1. UNCHANGED <<at, parents, report, link_cache, addr_cache, neigh_cache, during>>
        BY <1>3 DEF vars, caches, requestVars, history
    <2>2. QED  BY <2>1 DEF HeldInv, Overtaken, Cached
<1>4. QED  BY <1>1, <1>2, <1>3, HeldList, HeldGetter DEF Next

-----------------------------------------------------------------------------
(* Why a request fails                                                     *)

\* Reasons there are in the data: a link without a link-layer address or with
\* more drops than a counter32 takes, a neighbour that is not resolved, an
\* address that running does not have, or something kept of running that the
\* kernel does not have.
InTheData(c) ==
    \/ \E l \in link_cache : ~l.lladdr \/ l.stats.tx.dropped >= 2^Width32
    \/ \E x \in neigh_cache : ~x.resolved
    \/ \E l \in link_cache, a \in addr_cache :
          /\ a.index = l.index
          /\ [name |-> l.name, ip |-> a.ip, plen |-> a.plen] \notin running.addresses
    \/ NotInKernel(report[c].kept)

\* A getter of an interface that finds no link of that name was not given one
\* of the caches.
LEMMA LinkFound ==
    ASSUME NEW c, NEW n, n \in report[c].interfaces \cup report[c].kept.interfaces,
           Existed(report[c], Cached)
    PROVE  CurrentLink(n) # {} \/ NotInKernel(report[c].kept)
<1>1. CASE n \in report[c].interfaces
    BY <1>1 DEF Existed, InterfaceExisted, Cached, CurrentLink
<1>2. CASE n \in report[c].kept.interfaces
    BY <1>2 DEF NotInKernel
<1>3. QED  BY <1>1, <1>2

\* An address that was reported, or is kept of running and is in the cache, with
\* whatever prefix length, is found with that of running if it has it there.
LEMMA OriginFound ==
    ASSUME NEW c, NEW r, r \in report[c].addresses \cup report[c].kept.addresses,
           Existed(report[c], Cached),
           ~\E l \in CurrentLink(r.name), v \in running.addresses, a \in addr_cache :
               /\ v.name = r.name /\ v.ip = r.ip
               /\ a.index = l.index /\ a.ip = r.ip /\ a.plen = v.plen
    PROVE  InTheData(c)
<1>1. CASE \E l \in CurrentLink(r.name), a \in addr_cache : a.index = l.index /\ a.ip = r.ip
    <2>1. PICK l \in CurrentLink(r.name), a \in addr_cache : a.index = l.index /\ a.ip = r.ip
        BY <1>1
    <2>2. l \in link_cache /\ l.name = r.name
        BY <2>1 DEF CurrentLink
    <2>3. [name |-> l.name, ip |-> a.ip, plen |-> a.plen] \notin running.addresses
        BY <2>1, <2>2
    <2>4. QED  BY <2>1, <2>2, <2>3 DEF InTheData
<1>2. CASE ~\E l \in CurrentLink(r.name), a \in addr_cache : a.index = l.index /\ a.ip = r.ip
    <2>1. r \notin report[c].addresses
        BY <1>2 DEF Existed, AddrExisted, Cached, CurrentLink
    <2>2. NotInKernel(report[c].kept)
        BY <1>2, <2>1 DEF NotInKernel
    <2>3. QED  BY <2>2 DEF InTheData
<1>3. QED  BY <1>1, <1>2

\* A neighbour that was reported is found again in its cache.
LEMMA NeighborFound ==
    ASSUME NEW c, NEW r, r \in report[c].neighbors \cup report[c].kept.neighbors,
           Existed(report[c], Cached),
           ~\E l \in CurrentLink(r.name), x \in neigh_cache : x.index = l.index /\ x.ip = r.ip
    PROVE  InTheData(c)
<1>1. r \notin report[c].neighbors
    BY DEF Existed, NeighExisted, Cached, CurrentLink
<1>2. NotInKernel(report[c].kept)
    BY <1>1 DEF NotInKernel
<1>3. QED  BY <1>2 DEF InTheData

\* Drops that are not less than 2^Width32 are at least that.
LEMMA DropsTooMany ==
    ASSUME NEW l \in Link, ~(out_discards(l.stats) < 2^Width32)
    PROVE  l.stats.tx.dropped >= 2^Width32
<1>1. 2^Width32 \in Int /\ 2^Width64 \in Int
    BY GettersAssumption
<1>2. l.stats.tx.dropped \in Int
    BY <1>1 DEF Link, Stats, Direction, Word
<1>3. QED  BY <1>1, <1>2 DEF out_discards

\* A getter whose parents are in the caches fails for what is in the data.
LEMMA GetterExplained ==
    ASSUME NEW c \in Client, GetterStep(c), Fail(c), link_cache \subseteq Link, at[c] \in Stage,
           parents[c] \subseteq MayServe(at[c], report[c]), Existed(report[c], Cached),
           at'[c] = "failed", ~\E p, rep : Report(c, p, rep)
    PROVE  InTheData(c)
<1>1. ASSUME NEW n, NEW g, at[c] = g, g \notin {"address_origin", "neighbor_origin"}, n \in parents[c],
             CurrentLink(n) = {}
      PROVE  InTheData(c)
    <2>1. n \in report[c].interfaces \cup report[c].kept.interfaces
        BY <1>1 DEF MayServe
    <2>2. QED  BY <1>1, <2>1, LinkFound DEF InTheData
<1>2. ASSUME NEW n, leaf(c, n) PROVE InTheData(c)
    BY <1>1, <1>2 DEF leaf, Called
<1>3. ASSUME NEW n, phys_address(c, n) PROVE InTheData(c)
    <2>1. CASE CurrentLink(n) = {}
        BY <1>1, <1>3, <2>1 DEF phys_address, Called
    <2>2. CASE CurrentLink(n) # {}
        <3>1. \A l \in CurrentLink(n) : ~l.lladdr
            BY <1>3 DEF phys_address
        <3>2. QED  BY <2>2, <3>1 DEF CurrentLink, InTheData
    <2>3. QED  BY <2>1, <2>2
<1>4. ASSUME NEW n, higher_layer_if(c, n) \/ lower_layer_if(c, n) PROVE InTheData(c)
    BY <1>1, <1>4 DEF higher_layer_if, lower_layer_if, Called
<1>5. ASSUME NEW n, statistics(c, n) PROVE InTheData(c)
    <2>1. CASE CurrentLink(n) = {}
        BY <1>1, <1>5, <2>1 DEF statistics, Called
    <2>2. ASSUME NEW l \in CurrentLink(n), ~(out_discards(l.stats) < 2^Width32) PROVE InTheData(c)
        <3>1. l \in link_cache
            BY DEF CurrentLink
        <3>2. QED  BY <2>2, <3>1, DropsTooMany DEF InTheData
    <2>3. QED  BY <1>5, <2>1, <2>2 DEF statistics
<1>6. ASSUME NEW n, ipv4_address(c, n) \/ ipv6_address(c, n) PROVE InTheData(c)
    BY <1>1, <1>6 DEF ipv4_address, ipv6_address, AddressList, Called
<1>7. ASSUME NEW n, NEW g \in {"ipv4_neighbor", "ipv6_neighbor"}, NEW ips, NeighborList(c, g, n, ips)
      PROVE  InTheData(c)
    <2>1. CASE CurrentLink(n) = {}
        BY <1>1, <1>7, <2>1 DEF NeighborList, Called
    <2>2. CASE CurrentLink(n) # {}
        <3>1. \E x \in neigh_cache : ~x.resolved
            BY <1>7, <2>2 DEF NeighborList
        <3>2. QED  BY <3>1 DEF InTheData
    <2>3. QED  BY <2>1, <2>2
<1>8. ASSUME NEW r, address_origin(c, r) PROVE InTheData(c)
    <2>1. r \in report[c].addresses \cup report[c].kept.addresses
        BY <1>8 DEF address_origin, Called, MayServe
    <2>2. QED  BY <1>8, <2>1, OriginFound DEF address_origin
<1>9. ASSUME NEW r, neighbor_origin(c, r) PROVE InTheData(c)
    <2>1. r \in report[c].neighbors \cup report[c].kept.neighbors
        BY <1>9 DEF neighbor_origin, Called, MayServe
    <2>2. QED  BY <1>9, <2>1, NeighborFound DEF neighbor_origin
<1>10. QED
    BY <1>2, <1>3, <1>4, <1>5, <1>6, <1>7, <1>8, <1>9 DEF GetterStep, ipv4_neighbor, ipv6_neighbor

\* Refusals before a step or in it.
LEMMA SumPositive == ASSUME NEW m \in Nat, NEW n \in Nat, m > 0 \/ n > 0 PROVE m + n > 0
    OBVIOUS

\* The list getter fails when a call is refused, or was to an earlier request.
LEMMA ListExplained ==
    ASSUME AllocInv, RefusedInv, NEW c \in Client, ListStep(c),
           NEW d \in Client, at'[d] = "failed", at[d] # "failed"
    PROVE  refused + refused' > 0
<1>0. refused \in Nat
    BY DEF RefusedInv
<1>1. ASSUME refused' \in Nat, refused' > 0 PROVE refused + refused' > 0
    BY <1>0, <1>1, SumPositive
<1>2. ASSUME refused' \in Nat, refused > 0 PROVE refused + refused' > 0
    BY <1>0, <1>2, SumPositive
<1>3. ASSUME NEW p, GoTo(c, p), p # "failed" PROVE FALSE
    BY <1>3 DEF GoTo, AllocInv
<1>4. CASE ListStart(c)
    <2>1. Refuse
        BY <1>3, <1>4 DEF ListStart
    <2>2. QED  BY <1>1, <2>1 DEF Refuse, RefusedInv
<1>5. ASSUME at[c] \in InList, DumpFails PROVE refused + refused' > 0
    BY <1>1, <1>5, DumpRefused
<1>6. ASSUME at[c] \in {"refill_addrs", "refill_neighs"}, Crash,
             "neighs" \notin allocated, at[c] = "refill_addrs" => "addrs" \notin allocated
      PROVE  refused + refused' > 0
    <2>1. allocated \in {{"links"}, {"links", "addrs"}}
        BY <1>6 DEF AllocInv, Cache
    <2>2. refused > 0 /\ refused' = 0
        BY <1>6, <2>1, PartRefused DEF InList, Crash
    <2>3. QED  BY <1>2, <2>2
<1>7. CASE DumpLinks(c)
    <2>1. CASE DumpFails
        BY <1>5, <1>7, <2>1 DEF DumpLinks, InList
    <2>2. CASE ~DumpFails
        <3>1. GoTo(c, IF "links" \in allocated THEN "refill_addrs" ELSE "alloc_addrs")
            BY <1>7, <2>2 DEF DumpLinks
        <3>2. QED  BY <1>3, <3>1
    <2>3. QED  BY <2>1, <2>2
<1>8. CASE DumpAddrs(c)
    <2>1. CASE at[c] = "refill_addrs" /\ "addrs" \notin allocated /\ Crash
        <3>1. "neighs" \notin allocated
            BY <2>1 DEF AllocInv, Cache
        <3>2. QED  BY <1>6, <2>1, <3>1
    <2>2. CASE DumpFails
        BY <1>5, <1>8, <2>2 DEF DumpAddrs, InList, Crash, AllocInv
    <2>3. CASE GoTo(c, IF at[c] = "alloc_addrs" THEN "alloc_neighs" ELSE "refill_neighs")
        BY <1>3, <2>3
    <2>4. QED  BY <1>8, <2>1, <2>2, <2>3 DEF DumpAddrs
<1>9. CASE DumpNeighs(c)
    <2>1. CASE at[c] = "refill_neighs" /\ "neighs" \notin allocated /\ Crash
        BY <1>6, <2>1
    <2>2. CASE at[c] \in {"alloc_neighs", "refill_neighs"} /\ DumpFails
        BY <1>5, <2>2 DEF InList
    <2>3. CASE AddInterfaces(c)
        <3>1. PICK p \in Stage \cup {"done"} : at' = [at EXCEPT ![c] = p]
            BY <2>3, GoesOn DEF AddInterfaces
        <3>2. p # "failed"
            BY Stages DEF Answered
        <3>3. QED  BY <1>3, <3>1, <3>2 DEF GoTo
    <2>4. QED  BY <1>9, <2>1, <2>2, <2>3 DEF DumpNeighs
<1>10. QED  BY <1>4, <1>7, <1>8, <1>9 DEF ListStep

\* So that all of these always hold.
LEMMA AllHold == Spec => [](AllocInv /\ SeenInv /\ ReportInv /\ RefusedInv /\ HeldInv)
    BY AllocInit, AllocNext, SeenInit, SeenNext, ReportInit, ReportNext, RefusedInit, RefusedNext,
       HeldInit, HeldNext, PTL DEF Spec

\* A request of operational data fails for a reason: a call was refused, to it
\* or to an earlier one that left its socket or a part of the caches behind,
\* another request filled the caches meanwhile, there is something in the data
\* that the getters do not report, or something is kept of running that the
\* kernel does not have. Any number of clients, any kernel, any running.
THEOREM FailuresExplained == Spec => FailureExplained
<1> DEFINE Explained ==
        \A c \in Client :
          at'[c] = "failed" /\ at[c] # "failed" =>
             \/ refused + refused' > 0 \/ "overtaken" \in during[c]
             \/ \E l \in link_cache : ~l.lladdr \/ l.stats.tx.dropped >= 2^Width32
             \/ \E x \in neigh_cache : ~x.resolved
             \/ \E l \in link_cache, a \in addr_cache :
                   /\ a.index = l.index
                   /\ [name |-> l.name, ip |-> a.ip, plen |-> a.plen] \notin running.addresses
             \/ NotInKernel(report[c].kept)
<1>1. AllocInv /\ SeenInv /\ ReportInv /\ RefusedInv /\ HeldInv /\ [Next]_vars => [Explained]_vars
    <2> SUFFICES ASSUME AllocInv, SeenInv, ReportInv, RefusedInv, HeldInv, Next,
                        NEW d \in Client, at'[d] = "failed", at[d] # "failed"
                 PROVE  refused + refused' > 0 \/ Overtaken(d) \/ InTheData(d)
        BY DEF InTheData, Overtaken
    <2>1. ASSUME NEW c \in Client, ListStep(c) PROVE refused + refused' > 0
        BY <2>1, ListExplained
    <2>2. ASSUME NEW c \in Client, GetterStep(c), ~Overtaken(d) PROVE InTheData(d)
        <3>1. PICK p \in Stage \cup {"done", "failed"} : at' = [at EXCEPT ![c] = p]
            BY <2>2, GetterMoves
        <3>2. d = c
            BY <3>1 DEF AllocInv
        <3>3. /\ at[c] \in Stage /\ parents[c] \subseteq MayServe(at[c], report[c])
              /\ Existed(report[c], Cached)
            BY <2>2, <3>2, GetterMoves DEF HeldInv
        <3>4. link_cache \subseteq Link
            BY <3>3, Stages DEF SeenInv, Sees, Active, InList
        <3>5. ~\E r, rep : Report(c, r, rep)
            <4> SUFFICES ASSUME NEW r, NEW rep, Report(c, r, rep) PROVE FALSE
                OBVIOUS
            <4>1. at' # at
                BY <3>2
            <4>2. PICK k \in 1..Len(Getters) : GoOn(c, k + 1, rep)
                BY <4>1 DEF Report
            <4>3. k + 1 \in Int /\ k + 1 >= 1
                BY Stages
            <4>4. \E q \in Stage \cup {"done"} : at' = [at EXCEPT ![c] = q]
                BY <4>2, <4>3, GoesOn
            <4>5. QED  BY <3>2, <4>4, Stages DEF AllocInv, Answered
        <3>6. Fail(c)
            BY <2>2, <3>5, GetterCases
        <3>7. QED  BY <2>2, <3>2, <3>3, <3>4, <3>5, <3>6, GetterExplained
    <2>3. ASSUME NEW c \in Client, NextRequest(c) PROVE FALSE
        BY <2>3 DEF NextRequest, GoTo, AllocInv
    <2>4. CASE Environment
        BY <2>4 DEF Environment, LinkCreated, LinkDeleted, LinkEnslaved, CountersChanged,
                    EntriesChanged, RunningChanged, HostBecomes, requestVars
    <2>5. QED  BY <2>1, <2>2, <2>3, <2>4 DEF Next
<1>2. QED  BY <1>1, AllHold, PTL DEF Spec, FailureExplained

-----------------------------------------------------------------------------
(* The masters of a link                                                   *)

\* They are the least set of links that has the masters of its own links.
LEMMA MastersLeast ==
    ASSUME NEW L, NEW l, NEW S \in SUBSET L, Above(L, S \cup {l}) \subseteq S
    PROVE  MastersOf(L, l) \subseteq S
    BY DEF MastersOf

\* The masters of a link have all their masters among them.
LEMMA MastersClosed ==
    ASSUME NEW L, NEW l
    PROVE  MastersOf(L, l) \subseteq L /\ Above(L, MastersOf(L, l) \cup {l}) \subseteq MastersOf(L, l)
<1>1. MastersOf(L, l) \subseteq L
    BY DEF MastersOf
<1>2. ASSUME NEW m \in Above(L, MastersOf(L, l) \cup {l}) PROVE m \in MastersOf(L, l)
    <2>1. m \in L
        BY DEF Above
    <2>2. ASSUME NEW S \in SUBSET L, Above(L, S \cup {l}) \subseteq S PROVE m \in S
        <3>1. MastersOf(L, l) \cup {l} \subseteq S \cup {l}
            BY <2>2, MastersLeast
        <3>2. m \in Above(L, S \cup {l})
            BY <3>1 DEF Above
        <3>3. QED  BY <2>2, <3>2
    <2>3. QED  BY <2>1, <2>2 DEF MastersOf
<1>3. QED  BY <1>1, <1>2

\* The masters of a master are masters.
LEMMA MastersTransitive ==
    ASSUME NEW L, NEW l, NEW k \in MastersOf(L, l)
    PROVE  MastersOf(L, k) \subseteq MastersOf(L, l)
<1>1. Above(L, MastersOf(L, l) \cup {k}) \subseteq MastersOf(L, l)
    BY MastersClosed DEF Above
<1>2. MastersOf(L, l) \in SUBSET L
    BY MastersClosed
<1>3. QED  BY <1>1, <1>2, MastersLeast

\* Links that are changed without giving one a master stay without a circle,
\* and some may go.
LEMMA LinksImage ==
    ASSUME NEW L \in SUBSET Link, LinksOK(L), NEW K \in SUBSET L, NEW f \in [K -> Link],
           \A x \in K : /\ f[x].name = x.name /\ f[x].index = x.index
                        /\ \/ f[x].master = NoMaster
                           \/ f[x].master = x.master /\ \E z \in K : z.index = x.master
    PROVE  LinksOK({f[x] : x \in K})
<1> DEFINE L1 == {f[x] : x \in K}
<1>1. \A k, m \in L1 : k.name = m.name \/ k.index = m.index => k = m
    <2> SUFFICES ASSUME NEW x \in K, NEW y \in K, f[x].name = f[y].name \/ f[x].index = f[y].index
                 PROVE  f[x] = f[y]
        OBVIOUS
    <2>1. x.name = y.name \/ x.index = y.index
        OBVIOUS
    <2>2. x = y
        BY <2>1 DEF LinksOK
    <2>3. QED  BY <2>2
<1>2. \A k \in L1 : k.master = NoMaster \/ \E m \in L1 : m.index = k.master
    <2> SUFFICES ASSUME NEW x \in K, f[x].master # NoMaster
                 PROVE  \E z \in K : f[z].index = f[x].master
        OBVIOUS
    <2>1. QED  OBVIOUS
<1>3. ASSUME NEW x \in K PROVE f[x] \notin MastersOf(L1, f[x])
    <2> DEFINE M == MastersOf(L, x)
               S == {f[z] : z \in M \cap K}
    <2>1. S \in SUBSET L1
        OBVIOUS
    <2>2. ASSUME NEW v \in K, NEW q \in K, v \in M \cup {x}, f[v].master = f[q].index PROVE q \in M
        <3>1. f[q].index = q.index /\ q.index # NoMaster
            BY DEF Link, Ifindex, NoMaster
        <3>2. v.master = q.index
            BY <2>2, <3>1
        <3>3. q \in Above(L, M \cup {x})
            BY <2>2, <3>2 DEF Above
        <3>4. QED  BY <3>3, MastersClosed
    <2>3. Above(L1, S \cup {f[x]}) \subseteq S
        <3> SUFFICES ASSUME NEW q \in K, NEW w \in S \cup {f[x]}, w.master = f[q].index
                     PROVE  f[q] \in S
            BY DEF Above
        <3>1. PICK v \in K : v \in M \cup {x} /\ w = f[v]
            OBVIOUS
        <3>2. q \in M
            BY <2>2, <3>1
        <3>3. QED  BY <3>2
    <2>4. MastersOf(L1, f[x]) \subseteq S
        <3> HIDE DEF L1, S
        <3>1. QED  BY <2>1, <2>3, MastersLeast
    <2>5. ASSUME f[x] \in S PROVE FALSE
        <3>1. PICK z \in M \cap K : f[z] = f[x]
            BY <2>5
        <3>2. z.index = x.index
            BY <3>1
        <3>3. z = x
            BY <3>2 DEF LinksOK
        <3>4. QED  BY <3>1, <3>3 DEF LinksOK
    <2>6. QED  BY <2>4, <2>5
<1>4. QED  BY <1>1, <1>2, <1>3 DEF LinksOK

\* A new link that has no master and is nobody's.
LEMMA LinksAdded ==
    ASSUME NEW L \in SUBSET Link, LinksOK(L), NEW n \in Link, n.master = NoMaster,
           \A l \in L : l.name # n.name /\ l.index # n.index
    PROVE  LinksOK(L \cup {n})
<1> DEFINE L1 == L \cup {n}
<1>1. \A l \in L1 : l.master # n.index
    BY DEF LinksOK, Link, Ifindex, NoMaster
<1>2. \A k, m \in L1 : k.name = m.name \/ k.index = m.index => k = m
    BY DEF LinksOK
<1>3. \A k \in L1 : k.master = NoMaster \/ \E m \in L1 : m.index = k.master
    BY DEF LinksOK
<1>4. ASSUME NEW x \in L PROVE x \notin MastersOf(L1, x)
    <2>1. Above(L1, MastersOf(L, x) \cup {x}) \subseteq Above(L, MastersOf(L, x) \cup {x})
        BY <1>1, MastersClosed DEF Above
    <2>2. MastersOf(L1, x) \subseteq MastersOf(L, x)
        <3>1. /\ MastersOf(L, x) \in SUBSET L1
              /\ Above(L1, MastersOf(L, x) \cup {x}) \subseteq MastersOf(L, x)
            BY <2>1, MastersClosed
        <3> HIDE DEF L1
        <3>2. QED  BY <3>1, MastersLeast
    <2>3. QED  BY <2>2 DEF LinksOK
<1>5. n \notin MastersOf(L1, n)
    <2>1. PICK S : S = {}
        OBVIOUS
    <2>2. Above(L1, S \cup {n}) \subseteq S /\ S \in SUBSET L1
        BY <2>1 DEF Above, Link, Ifindex, NoMaster
    <2>3. MastersOf(L1, n) \subseteq S
        <3> HIDE DEF L1
        <3>1. QED  BY <2>2, MastersLeast
    <2>4. QED  BY <2>1, <2>3
<1>6. QED  BY <1>2, <1>3, <1>4, <1>5 DEF LinksOK

\* A link is given a master that it is not, itself or through others, the
\* master of.
LEMMA LinksEnslaved ==
    ASSUME NEW L \in SUBSET Link, LinksOK(L), NEW l \in L, NEW m \in L, l # m,
           l \notin MastersOf(L, m), NEW k, k = [l EXCEPT !.master = m.index]
    PROVE  LinksOK((L \ {l}) \cup {k})
<1> DEFINE L1 == (L \ {l}) \cup {k}
           f == [x \in L |-> IF x = l THEN k ELSE x]
<1>1. /\ k.name = l.name /\ k.index = l.index /\ k.master = m.index
      /\ \A x \in L : f[x].name = x.name /\ f[x].index = x.index /\ f[x] \in L1
      /\ \A y \in L1 : \E x \in L : y = f[x]
    BY DEF Link
<1>2. \A y, z \in L1 : y.name = z.name \/ y.index = z.index => y = z
    <2> SUFFICES ASSUME NEW x \in L, NEW z \in L, x.name = z.name \/ x.index = z.index
                 PROVE  f[x] = f[z]
        <3> HIDE DEF L1, f
        <3>1. QED  BY <1>1
    <2>1. x = z
        BY DEF LinksOK
    <2>2. QED  BY <2>1
<1>3. \A y \in L1 : y.master = NoMaster \/ \E z \in L1 : z.index = y.master
    BY <1>1 DEF LinksOK
<1>4. ASSUME NEW x \in L PROVE f[x] \notin MastersOf(L1, f[x])
    <2> DEFINE M == MastersOf(L, x)
               N == {z \in MastersOf(L, m) \cup {m} : l \in M \cup {x}}
               S == {f[z] : z \in M \cup N}
    <2>1. M \cup N \subseteq L /\ S \in SUBSET L1
        <3>1. M \subseteq L /\ MastersOf(L, m) \cup {m} \subseteq L
            BY MastersClosed
        <3>2. M \cup N \subseteq L
            BY <3>1
        <3> HIDE DEF M, N, f, L1
        <3>3. QED  BY <1>1, <3>2
    <2>2. l \notin N
        OBVIOUS
    <2>3. ASSUME NEW v \in M \cup N \cup {x}, NEW q \in L, f[v].master = q.index PROVE q \in M \cup N
        <3>1. v \in L
            BY <2>1
        <3>2. CASE v = l
            <4>1. q.index = m.index
                BY <1>1, <2>3, <3>1, <3>2
            <4>2. q = m
                BY <4>1 DEF LinksOK
            <4>3. l \in M \cup {x}
                BY <2>2, <3>2
            <4>4. QED  BY <4>2, <4>3
        <3>3. CASE v # l /\ v \in M \cup {x}
            <4>1. q \in Above(L, M \cup {x})
                BY <2>3, <3>1, <3>3 DEF Above
            <4>2. QED  BY <4>1, MastersClosed
        <3>4. CASE v # l /\ v \in N
            <4>1. q \in Above(L, MastersOf(L, m) \cup {m})
                BY <2>3, <3>1, <3>4 DEF Above
            <4>2. QED  BY <3>4, <4>1, MastersClosed
        <3>5. QED  BY <3>2, <3>3, <3>4
    <2>4. Above(L1, S \cup {f[x]}) \subseteq S
        <3> SUFFICES ASSUME NEW p \in L1, NEW w \in S \cup {f[x]}, w.master = p.index
                     PROVE  p \in S
            BY DEF Above
        <3>1. PICK v \in M \cup N \cup {x} : w = f[v]
            OBVIOUS
        <3>2. PICK q \in L : p = f[q]
            BY <1>1
        <3>3. f[v].master = q.index
            BY <1>1, <3>1, <3>2
        <3>4. q \in M \cup N
            BY <2>3, <3>3
        <3>5. QED  BY <3>2, <3>4
    <2>5. MastersOf(L1, f[x]) \subseteq S
        <3> HIDE DEF L1, S
        <3>1. QED  BY <2>1, <2>4, MastersLeast
    <2>6. ASSUME f[x] \in S PROVE FALSE
        <3>1. PICK z \in M \cup N : f[z] = f[x]
            BY <2>6
        <3>2. z \in L /\ z.index = x.index
            BY <1>1, <2>1, <3>1
        <3>3. z = x
            BY <3>2 DEF LinksOK
        <3>4. x \notin M
            BY DEF LinksOK
        <3>5. x \in MastersOf(L, m) \cup {m} /\ l \in M \cup {x}
            BY <3>1, <3>3, <3>4
        <3>6. M \subseteq MastersOf(L, m)
            BY <3>5, MastersTransitive
        <3>7. QED  BY <3>5, <3>6
    <2>7. QED  BY <2>5, <2>6
<1>5. \A y \in L1 : y \notin MastersOf(L1, y)
    <2> HIDE DEF L1, f
    <2>1. QED  BY <1>1, <1>4
<1>6. QED  BY <1>2, <1>3, <1>5 DEF LinksOK

-----------------------------------------------------------------------------
(* The types of the state                                                  *)

\* The kernel and running.
HostInv ==
    /\ lastIndex \in Ifindex /\ link \subseteq Link /\ LinksOK(link)
    /\ \A l \in link : l.index <= lastIndex
    /\ addr \subseteq Addr /\ neigh \subseteq Neigh
    /\ EntriesOK(link, addr) /\ EntriesOK(link, neigh)
    /\ running \in Configured

\* The kernel is in order when the plugin starts.
LEMMA HostInit == Init => HostInv
<1> SUFFICES ASSUME Init PROVE HostInv
    OBVIOUS
<1>1. link \subseteq Link /\ LinksOK(link)
    BY GettersAssumption DEF Init
<1>2. PICK E \in KernelEntries : /\ EntriesOK(link, E.addrs) /\ EntriesOK(link, E.neighs)
                                 /\ addr = E.addrs /\ neigh = E.neighs
    BY DEF Init
<1>3. E \in [addrs : SUBSET Addr, neighs : SUBSET Neigh]
    BY GettersAssumption
<1>4. PICK k \in link : lastIndex = k.index /\ \A l \in link : l.index <= lastIndex
    BY DEF Init
<1>5. lastIndex \in Ifindex
    BY <1>1, <1>4 DEF Link
<1>6. running \in Configured
    BY DEF Init
<1>7. QED  BY <1>1, <1>2, <1>3, <1>4, <1>5, <1>6 DEF HostInv

\* The entries of links that are gone are gone.
LEMMA HostChanges ==
    ASSUME NEW L \in SUBSET Link, LinksOK(L), NEW A \in SUBSET Addr, OnePerIp(A),
           NEW N \in SUBSET Neigh, OnePerIp(N), NEW R \in Configured, HostBecomes(L, A, N, R),
           lastIndex' \in Ifindex, \A l \in L : l.index <= lastIndex'
    PROVE  HostInv'
<1>1. /\ link' = L /\ running' = R
      /\ addr' = {a \in A : \E l \in L : l.index = a.index}
      /\ neigh' = {x \in N : \E l \in L : l.index = x.index}
    BY DEF HostBecomes
<1>2. addr' \subseteq Addr /\ EntriesOK(L, addr')
    BY <1>1 DEF EntriesOK, OnePerIp
<1>3. neigh' \subseteq Neigh /\ EntriesOK(L, neigh')
    BY <1>1 DEF EntriesOK, OnePerIp
<1>4. QED  BY <1>1, <1>2, <1>3 DEF HostInv

\* Every change of the host keeps it so.
LEMMA HostEnvironment == ASSUME HostInv, Environment PROVE HostInv'
<1>1. /\ link \in SUBSET Link /\ LinksOK(link) /\ addr \in SUBSET Addr /\ OnePerIp(addr)
      /\ neigh \in SUBSET Neigh /\ OnePerIp(neigh) /\ running \in Configured
      /\ lastIndex \in Ifindex /\ \A l \in link : l.index <= lastIndex
    BY DEF HostInv, EntriesOK
<1>2. MaxIfindex \in Nat /\ lastIndex \in Nat /\ \A l \in link : l.index \in Nat
    BY <1>1, GettersAssumption DEF Link, Ifindex
<1>3. ASSUME NEW L \in SUBSET Link, LinksOK(L), \A l \in L : l.index <= lastIndex,
             HostBecomes(L, addr, neigh, running), UNCHANGED lastIndex
      PROVE  HostInv'
    BY <1>1, <1>3, HostChanges
<1>4. CASE LinkCreated
    <2>1. PICK n \in Name, b \in BOOLEAN, s \in Counters :
              /\ \A l \in link : l.name # n
              /\ lastIndex < MaxIfindex /\ lastIndex' = lastIndex + 1
              /\ HostBecomes(link \cup {[name |-> n, index |-> lastIndex', master |-> NoMaster,
                                         lladdr |-> b, stats |-> s]}, addr, neigh, running)
        BY <1>4 DEF LinkCreated
    <2>2. lastIndex' \in Ifindex /\ s \in Stats
        BY <1>2, <2>1, GettersAssumption DEF Ifindex
    <2>3. PICK k : k = [name |-> n, index |-> lastIndex', master |-> NoMaster,
                        lladdr |-> b, stats |-> s]
        OBVIOUS
    <2>4. k \in Link /\ k.master = NoMaster /\ k.name = n /\ k.index = lastIndex'
        BY <2>2, <2>3 DEF Link
    <2>5. \A l \in link : l.name # k.name /\ l.index # k.index
        BY <1>1, <1>2, <2>1, <2>4
    <2>6. LinksOK(link \cup {k})
        BY <1>1, <2>4, <2>5, LinksAdded
    <2>7. \A l \in link \cup {k} : l.index <= lastIndex'
        BY <1>1, <1>2, <2>1, <2>4
    <2>8. HostBecomes(link \cup {k}, addr, neigh, running)
        BY <2>1, <2>3
    <2>9. link \cup {k} \in SUBSET Link
        BY <1>1, <2>4
    <2>10. QED  BY <1>1, <2>2, <2>6, <2>7, <2>8, <2>9, HostChanges
<1>5. CASE LinkDeleted
    <2>1. PICK l \in link :
              /\ HostBecomes({IF m.master = l.index THEN [m EXCEPT !.master = NoMaster] ELSE m :
                                m \in link \ {l}}, addr, neigh, running)
              /\ UNCHANGED lastIndex
        BY <1>5 DEF LinkDeleted
    <2> DEFINE K == link \ {l}
               f == [m \in K |-> IF m.master = l.index THEN [m EXCEPT !.master = NoMaster] ELSE m]
               L1 == {f[m] : m \in K}
    <2>2. L1 = {IF m.master = l.index THEN [m EXCEPT !.master = NoMaster] ELSE m : m \in link \ {l}}
        OBVIOUS
    <2>3. ASSUME NEW m \in K
          PROVE  /\ f[m] \in Link /\ f[m].name = m.name /\ f[m].index = m.index
                 /\ \/ f[m].master = NoMaster
                    \/ f[m].master = m.master /\ m.master # l.index
        BY <1>1 DEF Link
    <2>4. \A m \in K : m.master = l.index \/ m.master = NoMaster \/ \E z \in K : z.index = m.master
        BY <1>1 DEF LinksOK
    <2>5. /\ K \in SUBSET link /\ f \in [K -> Link]
          /\ \A m \in K : /\ f[m].name = m.name /\ f[m].index = m.index
                          /\ \/ f[m].master = NoMaster
                             \/ f[m].master = m.master /\ \E z \in K : z.index = m.master
        BY <2>3, <2>4
    <2>6. LinksOK(L1)
        <3> HIDE DEF K, f
        <3>1. QED  BY <1>1, <2>5, LinksImage
    <2>7. L1 \in SUBSET Link /\ \A k \in L1 : k.index <= lastIndex
        <3> HIDE DEF f
        <3>1. QED  BY <1>1, <2>3
    <2>8. HostBecomes(L1, addr, neigh, running)
        <3> HIDE DEF L1
        <3>1. QED  BY <2>1, <2>2
    <2> HIDE DEF L1
    <2>9. QED  BY <1>3, <2>1, <2>6, <2>7, <2>8
<1>6. CASE LinkEnslaved
    <2>1. PICK l \in link, m \in link :
              /\ l # m /\ l.master = NoMaster /\ l \notin MastersOf(link, m)
              /\ HostBecomes((link \ {l}) \cup {[l EXCEPT !.master = m.index]}, addr, neigh, running)
              /\ UNCHANGED lastIndex
        BY <1>6 DEF LinkEnslaved
    <2>2. PICK k : k = [l EXCEPT !.master = m.index]
        OBVIOUS
    <2>3. k \in Link /\ k.index = l.index
        BY <1>1, <2>2 DEF Link
    <2>4. LinksOK((link \ {l}) \cup {k})
        BY <1>1, <2>1, <2>2, LinksEnslaved
    <2>5. /\ (link \ {l}) \cup {k} \in SUBSET Link
          /\ \A x \in (link \ {l}) \cup {k} : x.index <= lastIndex
        BY <1>1, <2>3
    <2>6. HostBecomes((link \ {l}) \cup {k}, addr, neigh, running)
        BY <2>1, <2>2
    <2>7. QED  BY <1>3, <2>1, <2>4, <2>5, <2>6
<1>7. CASE CountersChanged
    <2>1. PICK l \in link, s \in Counters :
              /\ HostBecomes((link \ {l}) \cup {[l EXCEPT !.stats = s]}, addr, neigh, running)
              /\ UNCHANGED lastIndex
        BY <1>7 DEF CountersChanged
    <2>2. PICK k : k = [l EXCEPT !.stats = s]
        OBVIOUS
    <2>3. k \in Link /\ k.name = l.name /\ k.index = l.index /\ k.master = l.master
        BY <1>1, <2>1, <2>2, GettersAssumption DEF Link
    <2> DEFINE f == [m \in link |-> IF m = l THEN k ELSE m]
               L1 == {f[m] : m \in link}
    <2>4. L1 = (link \ {l}) \cup {k}
        OBVIOUS
    <2>5. f \in [link -> Link] /\ \A m \in link :
             /\ f[m].name = m.name /\ f[m].index = m.index
             /\ \/ f[m].master = NoMaster
                \/ f[m].master = m.master /\ \E z \in link : z.index = m.master
        BY <1>1, <2>3 DEF LinksOK
    <2>6. LinksOK(L1)
        <3> HIDE DEF f
        <3>1. QED  BY <1>1, <2>5, LinksImage
    <2>7. L1 \in SUBSET Link /\ \A m \in L1 : m.index <= lastIndex
        <3> HIDE DEF f
        <3>1. QED  BY <1>1, <2>5
    <2>8. HostBecomes(L1, addr, neigh, running)
        <3> HIDE DEF L1
        <3>1. QED  BY <2>1, <2>2, <2>4
    <2> HIDE DEF L1
    <2>9. QED  BY <1>3, <2>1, <2>6, <2>7, <2>8
<1>8. CASE EntriesChanged
    <2>1. PICK E \in KernelEntries : HostBecomes(link, E.addrs, E.neighs, running) /\ UNCHANGED lastIndex
        BY <1>8 DEF EntriesChanged
    <2>2. /\ E.addrs \in SUBSET Addr /\ E.neighs \in SUBSET Neigh
          /\ OnePerIp(E.addrs) /\ OnePerIp(E.neighs)
        BY GettersAssumption
    <2>3. QED  BY <1>1, <2>1, <2>2, HostChanges
<1>9. CASE RunningChanged
    BY <1>1, <1>9, HostChanges DEF RunningChanged
<1>10. QED  BY <1>4, <1>5, <1>6, <1>7, <1>8, <1>9 DEF Environment

\* Nothing but the host changes the kernel and running.
LEMMA HostStep == HostInv /\ [Next]_vars => HostInv'
<1> SUFFICES ASSUME HostInv, [Next]_vars PROVE HostInv'
    OBVIOUS
<1>1. UNCHANGED <<kernelVars, running>> => HostInv'
    BY DEF kernelVars, HostInv
<1>2. ASSUME NEW c \in Client, ListStep(c) PROVE UNCHANGED <<kernelVars, running>>
    BY <1>2 DEF ListStep, ListStart, DumpLinks, DumpAddrs, DumpNeighs, InGetter
<1>3. ASSUME NEW c \in Client, GetterStep(c) PROVE UNCHANGED <<kernelVars, running>>
    BY <1>3, GetterCases DEF Called
<1>4. ASSUME NEW c \in Client, NextRequest(c) PROVE UNCHANGED <<kernelVars, running>>
    BY <1>4 DEF NextRequest
<1>5. UNCHANGED vars => UNCHANGED <<kernelVars, running>>
    BY DEF vars
<1>6. QED  BY <1>1, <1>2, <1>3, <1>4, <1>5, HostEnvironment DEF Next

\* The caches hold what a kernel may have, and the bounds are kept.
CacheInv ==
    /\ link_cache \subseteq Link /\ addr_cache \subseteq Addr /\ neigh_cache \subseteq Neigh
    /\ external \in 0..MaxExternal /\ refused \in 0..MaxRefusal

\* The caches are empty in the beginning.
LEMMA CacheInit == Init => CacheInv
    BY GettersAssumption DEF Init, CacheInv

\* Every step keeps it.
LEMMA CacheNext == HostInv /\ CacheInv /\ [Next]_vars => CacheInv'
<1> SUFFICES ASSUME HostInv, CacheInv, [Next]_vars PROVE CacheInv'
    OBVIOUS
<1>1. MaxExternal \in Nat /\ MaxRefusal \in Nat
    BY GettersAssumption
<1>2. link \subseteq Link /\ addr \subseteq Addr /\ neigh \subseteq Neigh
    BY DEF HostInv
<1>3. ASSUME link_cache' \in {link_cache, link, {}}, addr_cache' \in {addr_cache, addr, {}},
             neigh_cache' \in {neigh_cache, neigh, {}},
             external' \in {external, external + 1}, external' # external => external < MaxExternal,
             refused' \in {refused, 0} \/ Refuse
      PROVE  CacheInv'
    <2>1. /\ link_cache' \subseteq Link /\ addr_cache' \subseteq Addr /\ neigh_cache' \subseteq Neigh
        BY <1>2, <1>3 DEF CacheInv
    <2>2. external' \in 0..MaxExternal
        BY <1>1, <1>3 DEF CacheInv
    <2>3. refused' \in 0..MaxRefusal
        BY <1>1, <1>3 DEF CacheInv, Refuse
    <2>4. QED  BY <2>1, <2>2, <2>3 DEF CacheInv
<1>4. ASSUME NEW c \in Client, ListStep(c) PROVE CacheInv'
    <2>1. external' = external
        BY <1>4 DEF ListStep, ListStart, DumpLinks, DumpAddrs, DumpNeighs, InGetter
    <2>2. refused' \in {refused, 0} \/ Refuse
        BY <1>4 DEF ListStep, ListStart, DumpLinks, DumpAddrs, DumpNeighs, DumpWorks, DumpFails, Crash
    <2>3. link_cache' \in {link_cache, link, {}}
        BY <1>4 DEF ListStep, ListStart, DumpLinks, DumpAddrs, DumpNeighs, Crash, caches
    <2>4. addr_cache' \in {addr_cache, addr, {}} /\ neigh_cache' \in {neigh_cache, neigh, {}}
        BY <1>4 DEF ListStep, ListStart, DumpLinks, DumpAddrs, DumpNeighs, Crash, caches
    <2>5. QED  BY <1>3, <2>1, <2>2, <2>3, <2>4
<1>5. ASSUME NEW c \in Client, GetterStep(c) \/ NextRequest(c) PROVE UNCHANGED <<caches, external, refused>>
    BY <1>5, GetterCases DEF Called, NextRequest
<1>6. ASSUME NEW L, NEW A, NEW N, NEW R, HostBecomes(L, A, N, R) PROVE CacheInv'
    BY <1>3, <1>6 DEF HostBecomes, caches
<1>7. CASE Environment
    BY <1>6, <1>7 DEF Environment, LinkCreated, LinkDeleted, LinkEnslaved, CountersChanged,
                      EntriesChanged, RunningChanged
<1>8. UNCHANGED vars => UNCHANGED <<caches, external, refused>>
    BY DEF vars
<1>9. UNCHANGED <<caches, external, refused>> => CacheInv'
    BY <1>3 DEF caches
<1>10. QED  BY <1>4, <1>5, <1>7, <1>8, <1>9 DEF Next

\* A request has parents to serve exactly while it is below the list.
ParentsInv == \A c \in Client : parents[c] # {} <=> at[c] \in Stage

\* No request is below the list in the beginning.
LEMMA ParentsInit == Init => ParentsInv
    BY Stages DEF Init, ParentsInv, Answered

\* One client goes on.
LEMMA ParentsMoves ==
    ASSUME AllocInv, HeldInv, ParentsInv, NEW c \in Client, NEW p, NEW P,
           at' = [at EXCEPT ![c] = p], parents' = [parents EXCEPT ![c] = P],
           P # {} <=> p \in Stage
    PROVE  ParentsInv'
<1>1. at'[c] = p /\ \A d \in Client : d # c => at'[d] = at[d]
    BY DEF AllocInv
<1>2. parents'[c] = P /\ \A d \in Client : d # c => parents'[d] = parents[d]
    BY DEF HeldInv
<1>3. QED  BY <1>1, <1>2 DEF ParentsInv

\* A client leaves the getters, or is not below the list.
LEMMA ParentsStays ==
    ASSUME AllocInv, HeldInv, ParentsInv, NEW c \in Client, at[c] \notin Stage, NEW p, p \notin Stage,
           GoTo(c, p), UNCHANGED parents
    PROVE  ParentsInv'
<1>1. parents[c] = {} /\ parents' = [parents EXCEPT ![c] = {}]
    BY DEF ParentsInv, HeldInv
<1>2. QED  BY <1>1, ParentsMoves DEF GoTo

\* A request that fails has no parents left.
LEMMA ParentsFails == ASSUME AllocInv, HeldInv, ParentsInv, NEW c \in Client, Fail(c) PROVE ParentsInv'
<1>1. "failed" \notin Stage
    BY Stages DEF Answered
<1>2. QED  BY <1>1, ParentsMoves DEF Fail, GoTo

\* One that goes on has the parents of the next getter, or is answered.
LEMMA ParentsGoesOn ==
    ASSUME AllocInv, HeldInv, ParentsInv, NEW c \in Client, NEW k \in Int, k >= 1, NEW rep, GoOn(c, k, rep)
    PROVE  ParentsInv'
<1>1. CASE GoTo(c, "done") /\ parents' = [parents EXCEPT ![c] = {}]
    <2>1. "done" \notin Stage
        BY Stages DEF Answered
    <2>2. QED  BY <1>1, <2>1, ParentsMoves DEF GoTo
<1>2. ASSUME NEW j \in k..Len(Getters), ParentsOf(Getters[j], rep) # {}, GoTo(c, Getters[j]),
             parents' = [parents EXCEPT ![c] = ParentsOf(Getters[j], rep)]
      PROVE  ParentsInv'
    <2>1. j \in 1..Len(Getters)
        BY Stages
    <2>2. Getters[j] \in Stage
        BY <2>1, Stages
    <2>3. QED  BY <1>2, <2>2, ParentsMoves DEF GoTo
<1>3. QED  BY <1>1, <1>2 DEF GoOn

\* After a crash there are none.
LEMMA ParentsCrash == ASSUME AllocInv, Crash PROVE ParentsInv'
<1>1. \A c \in Client : at'[c] \in Answered /\ parents'[c] = {}
    BY DEF Crash, Active, Answered
<1>2. QED  BY <1>1, Stages DEF ParentsInv

\* Every step keeps it.
LEMMA ParentsNext == AllocInv /\ HeldInv /\ ParentsInv /\ [Next]_vars => ParentsInv'
<1> SUFFICES ASSUME AllocInv, HeldInv, ParentsInv, [Next]_vars PROVE ParentsInv'
    OBVIOUS
<1>1. ASSUME NEW c \in Client, ListStep(c) PROVE ParentsInv'
    <2>1. ASSUME NEW q \in InList \cup {"idle"}, at[c] = q, NEW p \in InList, GoTo(c, p), UNCHANGED parents
          PROVE  ParentsInv'
        BY <2>1, ParentsStays, Stages DEF Answered
    <2>2. CASE ListStart(c)
        BY <2>1, <2>2, ParentsFails DEF ListStart, InList
    <2>3. CASE DumpLinks(c)
        BY <2>1, <2>3, ParentsFails DEF DumpLinks, InList
    <2>4. CASE DumpAddrs(c)
        BY <2>1, <2>4, ParentsFails, ParentsCrash DEF DumpAddrs, InList
    <2>5. CASE DumpNeighs(c)
        <3>1. ASSUME AddInterfaces(c) PROVE ParentsInv'
            BY <3>1, ParentsGoesOn DEF AddInterfaces
        <3>2. QED  BY <2>5, <3>1, ParentsFails, ParentsCrash DEF DumpNeighs
    <2>6. QED  BY <1>1, <2>2, <2>3, <2>4, <2>5 DEF ListStep
<1>2. ASSUME NEW c \in Client, GetterStep(c) PROVE ParentsInv'
    <2>1. PICK getter \in Stage :
               \E p : Called(c, getter, p) /\ (Fail(c) \/ \E rep : Report(c, p, rep))
        BY <1>2, GetterCases
    <2>2. PICK p : Called(c, getter, p) /\ (Fail(c) \/ \E rep : Report(c, p, rep))
        BY <2>1
    <2>3. at[c] \in Stage /\ p \in parents[c]
        BY <2>2 DEF Called
    <2>4. CASE parents[c] # {p} /\ parents' = [parents EXCEPT ![c] = @ \ {p}] /\ UNCHANGED at
        <3>1. at' = [at EXCEPT ![c] = at[c]]
            BY <2>4 DEF AllocInv
        <3>2. parents[c] \ {p} # {}
            BY <2>3, <2>4
        <3>3. QED  BY <2>3, <2>4, <3>1, <3>2, ParentsMoves
    <2>5. ASSUME NEW rep, NEW k \in 1..Len(Getters), GoOn(c, k + 1, rep) PROVE ParentsInv'
        <3>1. k + 1 \in Int /\ k + 1 >= 1
            BY Stages
        <3>2. QED  BY <2>5, <3>1, ParentsGoesOn
    <2>6. QED  BY <2>2, <2>4, <2>5, ParentsFails DEF Report
<1>3. ASSUME NEW c \in Client, NextRequest(c) PROVE ParentsInv'
    BY <1>3, ParentsStays, Stages DEF NextRequest, Answered
<1>4. CASE Environment
    <2>1. UNCHANGED <<at, parents>>
        BY <1>4 DEF Environment, LinkCreated, LinkDeleted, LinkEnslaved, CountersChanged,
                    EntriesChanged, RunningChanged, HostBecomes, requestVars
    <2>2. QED  BY <2>1 DEF ParentsInv
<1>5. CASE UNCHANGED vars
    BY <1>5 DEF vars, requestVars, ParentsInv
<1>6. QED  BY <1>1, <1>2, <1>3, <1>4, <1>5 DEF Next

\* So that all of these always hold.
LEMMA TypesHold == Spec => [](HostInv /\ CacheInv /\ ParentsInv)
    BY HostInit, HostStep, CacheInit, CacheNext, ParentsInit, ParentsNext, AllHold, PTL DEF Spec

\* The types, with links whose masters never go round in a circle, one request
\* at a time in the list getter, parents exactly below it, and caches allocated
\* one after the other: whatever the host does, and however many clients ask.
THEOREM TypeCorrect == Spec => []TypeOK
<1>1. AllocInv /\ RefusedInv /\ HostInv /\ CacheInv /\ ParentsInv => TypeOK
    BY DEF AllocInv, RefusedInv, HostInv, CacheInv, ParentsInv, TypeOK, Point
<1>2. QED  BY <1>1, AllHold, TypesHold, PTL

-----------------------------------------------------------------------------
(* What a request that nothing disturbs has reported                       *)

\* What is reported for a link, and for the interfaces of S.
MastersFor(l) == {<<l.name, m.name>> : m \in MastersOf(link, l)}
AddressesFor(l, ips) ==
    {[name |-> l.name, ip |-> a.ip, plen |-> a.plen] :
        a \in {x \in addr : x.index = l.index /\ x.ip \in ips}}
NeighborsFor(l, ips) ==
    {[name |-> l.name, ip |-> x.ip] : x \in {y \in neigh : y.index = l.index /\ y.ip \in ips}}

LinksOf(S) == {l \in link : l.name \in S}
Masters(S) == UNION {MastersFor(l) : l \in LinksOf(S)}
Addresses(S, ips) == UNION {AddressesFor(l, ips) : l \in LinksOf(S)}
Neighbors(S, ips) == UNION {NeighborsFor(l, ips) : l \in LinksOf(S)}

\* A report when each getter j has served the interfaces of s[j].
Serving(rep, s) ==
    /\ rep.interfaces = {l.name : l \in link}
    /\ rep.phys = s[2] /\ {r.name : r \in rep.stats} = s[5]
    /\ rep.higher = Masters(s[3])
    /\ rep.addresses = Addresses(s[6], Ip4) \cup Addresses(s[8], Ip6)
    /\ rep.neighbors = Neighbors(s[7], Ip4) \cup Neighbors(s[9], Ip6)

\* What they have served when getter k has yet to serve todo.
Served(k, todo, all) ==
    [j \in 1..9 |-> IF j < k THEN all ELSE IF j = k THEN all \ todo ELSE {}]

Progress(k, todo, rep) == Serving(rep, Served(k, todo, rep.interfaces))

\* The getters that are not told apart by what they report.
LEMMA ProgressSame ==
    ASSUME NEW k, NEW m, NEW u, NEW v, NEW old, NEW new, Progress(k, u, old),
           new.interfaces = old.interfaces, new.phys = old.phys, new.stats = old.stats,
           new.higher = old.higher, new.addresses = old.addresses, new.neighbors = old.neighbors,
           \A j \in {2, 3, 5, 6, 7, 8, 9} :
              Served(k, u, old.interfaces)[j] = Served(m, v, old.interfaces)[j]
    PROVE  Progress(m, v, new)
<1> DEFINE s == Served(k, u, old.interfaces)
           t == Served(m, v, old.interfaces)
<1> HIDE DEF s, t
<1>1. \A j \in {2, 3, 5, 6, 7, 8, 9} : s[j] = t[j]
    BY DEF s, t
<1>2. Serving(old, s)
    BY DEF Progress, s
<1>3. Serving(new, t)
    BY <1>1, <1>2 DEF Serving
<1>4. QED  BY <1>3 DEF Progress, t

\* A getter that has served all its interfaces is where the next one begins.
LEMMA ProgressOn ==
    ASSUME NEW k \in 1..11, NEW rep, Progress(k, {}, rep)
    PROVE  /\ Progress(k + 1, rep.interfaces, rep)
           /\ k >= 9 => \A m \in 10..12 : \A todo : Progress(m, todo, rep)
<1>1. \A j \in 1..9 : Served(k, {}, rep.interfaces)[j] = Served(k + 1, rep.interfaces, rep.interfaces)[j]
    BY DEF Served
<1>2. ASSUME k >= 9, NEW m \in 10..12, NEW todo PROVE Progress(m, todo, rep)
    <2>1. \A j \in 1..9 : Served(k, {}, rep.interfaces)[j] = Served(m, todo, rep.interfaces)[j]
        BY <1>2 DEF Served
    <2>2. QED  BY <2>1, ProgressSame
<1>3. Progress(k + 1, rep.interfaces, rep)
    BY <1>1, ProgressSame
<1>4. QED  BY <1>2, <1>3

\* One interface more is served.
LEMMA ServedMore ==
    ASSUME NEW k \in 1..9, NEW todo, NEW all, NEW n \in todo, n \in all
    PROVE  Served(k, todo \ {n}, all)
           = [Served(k, todo, all) EXCEPT ![k] = Served(k, todo, all)[k] \cup {n}]
<1>1. all \ (todo \ {n}) = (all \ todo) \cup {n}
    OBVIOUS
<1>2. QED  BY <1>1 DEF Served

\* What is reported for it, there being one link of that name.
LEMMA LinksMore ==
    ASSUME LinksOK(link), NEW l \in link, NEW S
    PROVE  LinksOf(S \cup {l.name}) = LinksOf(S) \cup {l}
    BY DEF LinksOK, LinksOf

\* Its masters are reported.
LEMMA MastersMore ==
    ASSUME LinksOK(link), NEW l \in link, NEW S
    PROVE  Masters(S \cup {l.name}) = Masters(S) \cup MastersFor(l)
<1>1. LinksOf(S \cup {l.name}) = LinksOf(S) \cup {l}
    BY LinksMore
<1>2. QED  BY <1>1 DEF Masters

\* Its addresses of a family are reported.
LEMMA AddressesMore ==
    ASSUME LinksOK(link), NEW l \in link, NEW S, NEW ips
    PROVE  Addresses(S \cup {l.name}, ips) = Addresses(S, ips) \cup AddressesFor(l, ips)
    BY LinksMore DEF Addresses

\* Its neighbours of a family are reported.
LEMMA NeighborsMore ==
    ASSUME LinksOK(link), NEW l \in link, NEW S, NEW ips
    PROVE  Neighbors(S \cup {l.name}, ips) = Neighbors(S, ips) \cup NeighborsFor(l, ips)
    BY LinksMore DEF Neighbors

\* Nothing is reported for no interface.
LEMMA NothingServed == /\ Masters({}) = {} /\ \A ips : Addresses({}, ips) = {} /\ Neighbors({}, ips) = {}
    BY DEF Masters, Addresses, Neighbors, LinksOf

\* Each getter serves one interface more.
LEMMA PhysServes ==
    ASSUME NEW todo, NEW n \in todo, NEW old, NEW new, Progress(2, todo, old), IsReport(old),
           n \in old.interfaces, new = [old EXCEPT !.phys = @ \cup {n}]
    PROVE  Progress(2, todo \ {n}, new)
<1>1. /\ new.interfaces = old.interfaces /\ new.phys = old.phys \cup {n} /\ new.stats = old.stats
      /\ new.higher = old.higher /\ new.addresses = old.addresses /\ new.neighbors = old.neighbors
    BY DEF IsReport
<1> DEFINE s == Served(2, todo, old.interfaces)
           t == [s EXCEPT ![2] = s[2] \cup {n}]
<1>2. t[2] = s[2] \cup {n} /\ \A j \in 1..9 : j # 2 => t[j] = s[j]
    BY DEF Served
<1>3. Serving(old, s)
    BY DEF Progress
<1>4. t = Served(2, todo \ {n}, new.interfaces)
    BY <1>1, ServedMore
<1> HIDE DEF s, t
<1>5. Serving(new, t)
    BY <1>1, <1>2, <1>3 DEF Serving
<1>6. QED  BY <1>4, <1>5 DEF Progress

\* The one of higher-layer-if.
LEMMA HigherServes ==
    ASSUME LinksOK(link), NEW todo, NEW l \in link, l.name \in todo, NEW old, NEW new,
           Progress(3, todo, old), IsReport(old), l.name \in old.interfaces,
           new = [old EXCEPT !.higher = @ \cup MastersFor(l)]
    PROVE  Progress(3, todo \ {l.name}, new)
<1>1. /\ new.interfaces = old.interfaces /\ new.phys = old.phys /\ new.stats = old.stats
      /\ new.higher = old.higher \cup MastersFor(l) /\ new.addresses = old.addresses
      /\ new.neighbors = old.neighbors
    BY DEF IsReport
<1> DEFINE s == Served(3, todo, old.interfaces)
           t == [s EXCEPT ![3] = s[3] \cup {l.name}]
<1>2. t[3] = s[3] \cup {l.name} /\ \A j \in 1..9 : j # 3 => t[j] = s[j]
    BY DEF Served
<1>3. Serving(old, s)
    BY DEF Progress
<1>4. t = Served(3, todo \ {l.name}, new.interfaces)
    BY <1>1, ServedMore
<1> HIDE DEF s, t
<1>5. Masters(t[3]) = Masters(s[3]) \cup MastersFor(l)
    BY <1>2, MastersMore
<1>6. /\ Addresses(t[6], Ip4) = Addresses(s[6], Ip4) /\ Addresses(t[8], Ip6) = Addresses(s[8], Ip6)
      /\ Neighbors(t[7], Ip4) = Neighbors(s[7], Ip4) /\ Neighbors(t[9], Ip6) = Neighbors(s[9], Ip6)
      /\ t[2] = s[2] /\ t[5] = s[5]
    BY <1>2
<1>7. Serving(new, t)
    BY <1>1, <1>3, <1>5, <1>6 DEF Serving
<1>8. QED  BY <1>4, <1>7 DEF Progress

\* The one of the statistics.
LEMMA StatsServes ==
    ASSUME NEW todo, NEW n \in todo, NEW old, NEW new, Progress(5, todo, old), IsReport(old),
           n \in old.interfaces, NEW r, r.name = n, new = [old EXCEPT !.stats = @ \cup {r}]
    PROVE  Progress(5, todo \ {n}, new)
<1>1. /\ new.interfaces = old.interfaces /\ new.phys = old.phys /\ new.stats = old.stats \cup {r}
      /\ new.higher = old.higher /\ new.addresses = old.addresses /\ new.neighbors = old.neighbors
    BY DEF IsReport
<1> DEFINE s == Served(5, todo, old.interfaces)
           t == [s EXCEPT ![5] = s[5] \cup {n}]
<1>2. t[5] = s[5] \cup {n} /\ \A j \in 1..9 : j # 5 => t[j] = s[j]
    BY DEF Served
<1>3. Serving(old, s)
    BY DEF Progress
<1>4. t = Served(5, todo \ {n}, new.interfaces)
    BY <1>1, ServedMore
<1> HIDE DEF s, t
<1>5. {x.name : x \in new.stats} = {x.name : x \in old.stats} \cup {n}
    BY <1>1
<1>6. Serving(new, t)
    BY <1>1, <1>2, <1>3, <1>5 DEF Serving
<1>7. QED  BY <1>4, <1>6 DEF Progress

\* Those of the addresses, one family each.
LEMMA AddressesServe ==
    ASSUME LinksOK(link), NEW todo, NEW l \in link, l.name \in todo, NEW old, NEW new,
           NEW k, NEW ips, (k = 6 /\ ips = Ip4) \/ (k = 8 /\ ips = Ip6),
           Progress(k, todo, old), IsReport(old), l.name \in old.interfaces,
           new = [old EXCEPT !.addresses = @ \cup AddressesFor(l, ips)]
    PROVE  Progress(k, todo \ {l.name}, new)
<1>1. /\ new.interfaces = old.interfaces /\ new.phys = old.phys /\ new.stats = old.stats
      /\ new.higher = old.higher /\ new.addresses = old.addresses \cup AddressesFor(l, ips)
      /\ new.neighbors = old.neighbors
    BY DEF IsReport
<1> DEFINE s == Served(k, todo, old.interfaces)
           t == [s EXCEPT ![k] = s[k] \cup {l.name}]
<1>2. t[k] = s[k] \cup {l.name} /\ \A j \in 1..9 : j # k => t[j] = s[j]
    BY DEF Served
<1>3. Serving(old, s)
    BY DEF Progress
<1>4. t = Served(k, todo \ {l.name}, new.interfaces)
    BY <1>1, ServedMore
<1> HIDE DEF s, t
<1>5. Addresses(t[k], ips) = Addresses(s[k], ips) \cup AddressesFor(l, ips)
    BY <1>2, AddressesMore
<1>6. /\ Masters(t[3]) = Masters(s[3]) /\ t[2] = s[2] /\ t[5] = s[5]
      /\ Neighbors(t[7], Ip4) = Neighbors(s[7], Ip4) /\ Neighbors(t[9], Ip6) = Neighbors(s[9], Ip6)
    BY <1>2
<1>7. Addresses(t[6], Ip4) \cup Addresses(t[8], Ip6)
      = (Addresses(s[6], Ip4) \cup Addresses(s[8], Ip6)) \cup AddressesFor(l, ips)
    BY <1>2, <1>5
<1>8. Serving(new, t)
    BY <1>1, <1>3, <1>6, <1>7 DEF Serving
<1>9. QED  BY <1>4, <1>8 DEF Progress

\* Those of the neighbours, one family each.
LEMMA NeighborsServe ==
    ASSUME LinksOK(link), NEW todo, NEW l \in link, l.name \in todo, NEW old, NEW new,
           NEW k, NEW ips, (k = 7 /\ ips = Ip4) \/ (k = 9 /\ ips = Ip6),
           Progress(k, todo, old), IsReport(old), l.name \in old.interfaces,
           new = [old EXCEPT !.neighbors = @ \cup NeighborsFor(l, ips)]
    PROVE  Progress(k, todo \ {l.name}, new)
<1>1. /\ new.interfaces = old.interfaces /\ new.phys = old.phys /\ new.stats = old.stats
      /\ new.higher = old.higher /\ new.addresses = old.addresses
      /\ new.neighbors = old.neighbors \cup NeighborsFor(l, ips)
    BY DEF IsReport
<1> DEFINE s == Served(k, todo, old.interfaces)
           t == [s EXCEPT ![k] = s[k] \cup {l.name}]
<1>2. t[k] = s[k] \cup {l.name} /\ \A j \in 1..9 : j # k => t[j] = s[j]
    BY DEF Served
<1>3. Serving(old, s)
    BY DEF Progress
<1>4. t = Served(k, todo \ {l.name}, new.interfaces)
    BY <1>1, ServedMore
<1> HIDE DEF s, t
<1>5. Neighbors(t[k], ips) = Neighbors(s[k], ips) \cup NeighborsFor(l, ips)
    BY <1>2, NeighborsMore
<1>6. /\ Masters(t[3]) = Masters(s[3]) /\ t[2] = s[2] /\ t[5] = s[5]
      /\ Addresses(t[6], Ip4) = Addresses(s[6], Ip4) /\ Addresses(t[8], Ip6) = Addresses(s[8], Ip6)
    BY <1>2
<1>7. Neighbors(t[7], Ip4) \cup Neighbors(t[9], Ip6)
      = (Neighbors(s[7], Ip4) \cup Neighbors(s[9], Ip6)) \cup NeighborsFor(l, ips)
    BY <1>2, <1>5
<1>8. Serving(new, t)
    BY <1>1, <1>3, <1>6, <1>7 DEF Serving
<1>9. QED  BY <1>4, <1>8 DEF Progress

\* The getters, each once; those below the first nine are called for what the
\* address and neighbour lists reported.
LEMMA GetterPlaces ==
    /\ Len(Getters) = 11
    /\ \A j, k \in 1..11 : Getters[j] = Getters[k] => j = k
    /\ \A k \in 1..9 : \A rep :
          /\ ParentsOf(Getters[k], rep) = rep.interfaces \cup rep.kept.interfaces
          /\ MayServe(Getters[k], rep) = rep.interfaces \cup rep.kept.interfaces
<1>1. \A k \in 1..9 : k = 1 \/ k = 2 \/ k = 3 \/ k = 4 \/ k = 5 \/ k = 6 \/ k = 7 \/ k = 8 \/ k = 9
    OBVIOUS
<1>2. \A k \in 1..11 : k \in 1..9 \/ k = 10 \/ k = 11
    OBVIOUS
<1>3. Len(Getters) = 11
    BY DEF Getters
<1>4. \A k \in 1..9 : Getters[k] # "address_origin" /\ Getters[k] # "neighbor_origin"
    BY <1>1 DEF Getters
<1>5. \A k \in 1..9 : \A rep :
         /\ ParentsOf(Getters[k], rep) = rep.interfaces \cup rep.kept.interfaces
         /\ MayServe(Getters[k], rep) = rep.interfaces \cup rep.kept.interfaces
    BY <1>4 DEF ParentsOf, MayServe
<1>6. \A j, k \in 1..9 : Getters[j] = Getters[k] => j = k
    BY <1>1 DEF Getters
<1>7. Getters[10] = "address_origin" /\ Getters[11] = "neighbor_origin"
    BY DEF Getters
<1>8. \A j, k \in 1..11 : Getters[j] = Getters[k] => j = k
    BY <1>2, <1>4, <1>6, <1>7
<1>9. QED  BY <1>3, <1>5, <1>8

\* Only the first getter is called for a kept interface that is not reported: it
\* finds no link and fails.
KeptLeft(k, todo, rep) ==
    rep.kept.interfaces \subseteq rep.interfaces \cup (IF k = 1 THEN todo ELSE {})

\* What a request is about to report when it is at a point.
Answering(p, todo, rep) ==
    /\ \A k \in 1..11 : p = Getters[k] => Progress(k, todo, rep) /\ KeptLeft(k, todo, rep)
    /\ p = "done" => Progress(12, {}, rep)

\* With no interface there is nothing to serve.
LEMMA ProgressEmpty ==
    ASSUME NEW k, NEW u, NEW rep, Progress(k, u, rep), rep.interfaces = {}
    PROVE  \A m : \A todo : Progress(m, todo, rep)
<1> TAKE m
<1> TAKE todo
<1>1. \A j \in 1..9 : Served(k, u, rep.interfaces)[j] = Served(m, todo, rep.interfaces)[j]
    BY DEF Served
<1>2. QED  BY <1>1, ProgressSame

\* Where a request goes on, all before it is served.
LEMMA AnswersGoOn ==
    ASSUME AllocInv, HeldInv, NEW c \in Client, NEW m \in 1..12, NEW rep, GoOn(c, m, rep),
           Progress(m, rep.interfaces, rep),
           m > 1 => rep.kept.interfaces \subseteq rep.interfaces,
           m >= 10 => \A k \in 10..12 : \A todo : Progress(k, todo, rep)
    PROVE  Answering(at'[c], parents'[c], rep)
<1> DEFINE rest == {j \in m..Len(Getters) : ParentsOf(Getters[j], rep) # {}}
           both == rep.interfaces \cup rep.kept.interfaces
<1>1. m <= 9 /\ both # {} => m \in rest
    BY GetterPlaces
<1>2. rest \subseteq m..11
    BY GetterPlaces
<1>3. \/ rest = {} /\ at'[c] = "done"
      \/ \E j \in rest : /\ \A i \in rest : j <= i
                         /\ at'[c] = Getters[j] /\ parents'[c] = ParentsOf(Getters[j], rep)
    BY DEF GoOn, GoTo, AllocInv, HeldInv
<1>4. \A k \in 1..11 : Getters[k] # "done"
    BY Stages, GetterPlaces DEF Answered
<1> HIDE DEF rest
<1>5. CASE both = {}
    <2>1. \A k : \A todo : Progress(k, todo, rep) /\ KeptLeft(k, todo, rep)
        BY <1>5, ProgressEmpty DEF KeptLeft
    <2>2. QED  BY <2>1 DEF Answering
<1>6. CASE m >= 10
    <2>1. \A k \in 10..12 : \A todo : Progress(k, todo, rep) /\ KeptLeft(k, todo, rep)
        BY <1>6 DEF KeptLeft
    <2>2. CASE at'[c] = "done"
        BY <1>4, <2>1, <2>2 DEF Answering
    <2>3. ASSUME NEW j \in rest, at'[c] = Getters[j] PROVE Answering(at'[c], parents'[c], rep)
        <3>1. j \in 10..11 /\ j \in 1..11 /\ j \in 10..12
            BY <1>2, <1>6
        <3>2. \A k \in 1..11 : at'[c] = Getters[k] => k \in 10..12
            <4>1. \A k \in 1..11 : at'[c] = Getters[k] => k = j
                BY <2>3, <3>1, GetterPlaces
            <4>2. QED  BY <3>1, <4>1
        <3>3. at'[c] # "done"
            BY <1>4, <2>3, <3>1
        <3>4. QED  BY <2>1, <3>2, <3>3 DEF Answering
    <2>4. QED  BY <1>3, <2>2, <2>3
<1>7. CASE both # {} /\ m <= 9
    <2>1. m \in rest
        BY <1>1, <1>7
    <2>2. PICK j \in rest : /\ \A i \in rest : j <= i
                            /\ at'[c] = Getters[j] /\ parents'[c] = ParentsOf(Getters[j], rep)
        BY <1>3, <2>1
    <2>3. j = m /\ m \in 1..9 /\ m \in 1..11
        BY <1>2, <1>7, <2>1, <2>2
    <2>4. at'[c] = Getters[m] /\ parents'[c] = both
        BY <2>2, <2>3, GetterPlaces
    <2>5. \A k \in 1..11 : at'[c] = Getters[k] => k = m
        BY <2>3, <2>4, GetterPlaces
    <2>6. at'[c] # "done"
        BY <1>4, <2>3, <2>4
    <2>7. Progress(m, both, rep)
        <3>1. \A i \in 1..9 : Served(m, rep.interfaces, rep.interfaces)[i]
                              = Served(m, both, rep.interfaces)[i]
            BY DEF Served
        <3>2. QED  BY <3>1, ProgressSame
    <2>8. KeptLeft(m, both, rep)
        BY <2>3 DEF KeptLeft
    <2>9. QED  BY <2>4, <2>5, <2>6, <2>7, <2>8 DEF Answering
<1>8. QED  BY <1>5, <1>6, <1>7

\* A getter has served its interface.
LEMMA AnswersReport ==
    ASSUME AllocInv, HeldInv, NEW c \in Client, NEW k \in 1..11, at[c] = Getters[k],
           NEW p, NEW rep, Report(c, p, rep), Progress(k, parents[c] \ {p}, rep),
           KeptLeft(k, parents[c] \ {p}, rep)
    PROVE  Answering(at'[c], parents'[c], rep)
<1>1. \A j \in 1..11 : at[c] = Getters[j] => j = k
    BY GetterPlaces
<1>2. CASE parents' = [parents EXCEPT ![c] = @ \ {p}] /\ UNCHANGED at
    <2>1. parents'[c] = parents[c] \ {p} /\ at'[c] = at[c]
        BY <1>2 DEF HeldInv
    <2>2. at[c] # "done"
        BY Stages, GetterPlaces DEF Answered
    <2>3. QED  BY <1>1, <2>1, <2>2 DEF Answering
<1>3. CASE parents[c] = {p} /\ \E j \in 1..Len(Getters) : at[c] = Getters[j] /\ GoOn(c, j + 1, rep)
    <2>1. GoOn(c, k + 1, rep)
        BY <1>1, <1>3, GetterPlaces
    <2>2. Progress(k, {}, rep) /\ rep.kept.interfaces \subseteq rep.interfaces
        <3>1. parents[c] \ {p} = {}
            BY <1>3
        <3>2. KeptLeft(k, {}, rep)
            BY <3>1
        <3>3. rep.kept.interfaces \subseteq rep.interfaces
            BY <3>2 DEF KeptLeft
        <3>4. QED  BY <3>1, <3>3
    <2>3. /\ Progress(k + 1, rep.interfaces, rep)
          /\ k >= 9 => \A m \in 10..12 : \A todo : Progress(m, todo, rep)
        BY <2>2, ProgressOn
    <2>4. k + 1 \in 1..12 /\ (k + 1 >= 10 => k >= 9)
        OBVIOUS
    <2>5. QED  BY <2>1, <2>2, <2>3, <2>4, AnswersGoOn
<1>4. QED  BY <1>2, <1>3 DEF Report

\* A getter that reports brings its request on by one interface.
Serves(c) ==
    \E k \in 1..11 : \E p, rep :
       /\ at[c] = Getters[k] /\ Report(c, p, rep)
       /\ Progress(k, parents[c] \ {p}, rep) /\ KeptLeft(k, parents[c] \ {p}, rep)

\* The getters that report nothing, or lower-layer-if.
LEMMA OthersServe ==
    ASSUME NEW c, NEW k \in {1, 4, 10, 11}, at[c] = Getters[k], NEW p, NEW rep, Report(c, p, rep),
           IsReport(report[c]), Progress(k, parents[c], report[c]),
           KeptLeft(k, parents[c] \ {p}, report[c]),
           rep = report[c] \/ \E S : rep = [report[c] EXCEPT !.lower = S]
    PROVE  Serves(c)
<1>1. \A j \in {2, 3, 5, 6, 7, 8, 9} :
         Served(k, parents[c], report[c].interfaces)[j]
         = Served(k, parents[c] \ {p}, report[c].interfaces)[j]
    BY DEF Served
<1>2. /\ rep.interfaces = report[c].interfaces /\ rep.phys = report[c].phys
      /\ rep.stats = report[c].stats /\ rep.higher = report[c].higher
      /\ rep.addresses = report[c].addresses /\ rep.neighbors = report[c].neighbors
      /\ rep.kept = report[c].kept
    BY DEF IsReport
<1>3. Progress(k, parents[c] \ {p}, rep)
    BY <1>1, <1>2, ProgressSame
<1>4. k \in 1..11 /\ KeptLeft(k, parents[c] \ {p}, rep)
    BY <1>2 DEF KeptLeft
<1>5. QED  BY <1>3, <1>4 DEF Serves

\* Each getter below the list, with the caches as the kernel is.
LEMMA GetterServes ==
    ASSUME NEW c \in Client, GetterStep(c), ~Fail(c), LinksOK(link),
           link_cache = link, addr_cache = addr, neigh_cache = neigh, IsReport(report[c]),
           parents[c] \subseteq MayServe(at[c], report[c]),
           \A k \in 1..11 : at[c] = Getters[k] =>
              Progress(k, parents[c], report[c]) /\ KeptLeft(k, parents[c], report[c])
    PROVE  Serves(c)
<1> DEFINE old == report[c]
           todo == parents[c]
<1>1. /\ Getters[1] = "leaf" /\ Getters[2] = "phys_address" /\ Getters[3] = "higher_layer_if"
      /\ Getters[4] = "lower_layer_if" /\ Getters[5] = "statistics"
      /\ Getters[6] = "ipv4_address" /\ Getters[7] = "ipv4_neighbor"
      /\ Getters[8] = "ipv6_address" /\ Getters[9] = "ipv6_neighbor"
      /\ Getters[10] = "address_origin" /\ Getters[11] = "neighbor_origin"
    BY DEF Getters
<1>2. ASSUME NEW k \in 2..9, NEW n, Called(c, Getters[k], n)
      PROVE  /\ at[c] = Getters[k] /\ n \in todo /\ n \in old.interfaces
             /\ Progress(k, todo, old) /\ old.kept.interfaces \subseteq old.interfaces
    <2>1. at[c] = Getters[k] /\ n \in todo
        BY <1>2 DEF Called
    <2>2. k \in 1..9 /\ k \in 1..11 /\ k # 1
        OBVIOUS
    <2>3. n \in old.interfaces \cup old.kept.interfaces
        BY <2>1, <2>2, GetterPlaces
    <2>4. old.kept.interfaces \subseteq old.interfaces
        BY <2>1, <2>2 DEF KeptLeft
    <2>5. QED  BY <2>1, <2>2, <2>3, <2>4
<1>3. \A n : \A l \in CurrentLink(n) : l \in link /\ l.name = n
    BY DEF CurrentLink
<1>4. ASSUME NEW k \in 2..9, NEW n, NEW new, at[c] = Getters[k], Report(c, n, new),
              Progress(k, todo \ {n}, new),
              \E S : \/ new = [old EXCEPT !.phys = S] \/ new = [old EXCEPT !.higher = S]
                     \/ new = [old EXCEPT !.stats = S] \/ new = [old EXCEPT !.addresses = S]
                     \/ new = [old EXCEPT !.neighbors = S]
       PROVE  Serves(c)
    <2>1. k \in 1..11 /\ k # 1
        OBVIOUS
    <2>2. new.interfaces = old.interfaces /\ new.kept = old.kept
        BY <1>4 DEF IsReport
    <2>3. KeptLeft(k, todo \ {n}, new)
        BY <1>4, <2>1, <2>2 DEF KeptLeft
    <2>4. QED  BY <1>4, <2>1, <2>3 DEF Serves
<1>5. ASSUME NEW n, leaf(c, n) PROVE Serves(c)
    <2>1. at[c] = Getters[1] /\ Report(c, n, old) /\ CurrentLink(n) # {}
        BY <1>1, <1>5 DEF leaf, Called
    <2>2. Progress(1, todo, old) /\ KeptLeft(1, todo, old)
        BY <2>1
    <2>3. n \in old.interfaces
        BY <1>3, <2>1, <2>2 DEF Progress, Serving
    <2>4. KeptLeft(1, todo \ {n}, old)
        BY <2>2, <2>3 DEF KeptLeft
    <2>5. QED  BY <2>1, <2>2, <2>4, OthersServe
<1>6. ASSUME NEW n, phys_address(c, n) PROVE Serves(c)
    <2> DEFINE new == [old EXCEPT !.phys = @ \cup {n}]
    <2>1. Called(c, Getters[2], n) /\ Report(c, n, new)
        BY <1>1, <1>6 DEF phys_address
    <2>2. at[c] = Getters[2] /\ n \in todo /\ n \in old.interfaces /\ Progress(2, todo, old)
        BY <1>2, <2>1
    <2>3. Progress(2, todo \ {n}, new)
        BY <2>2, PhysServes
    <2>4. \E S : new = [old EXCEPT !.phys = S]
        OBVIOUS
    <2>5. QED  BY <1>4, <2>1, <2>2, <2>3, <2>4
<1>7. ASSUME NEW n, higher_layer_if(c, n) PROVE Serves(c)
    <2>1. Called(c, Getters[3], n)
        BY <1>1, <1>7 DEF higher_layer_if
    <2>2. PICK l \in CurrentLink(n) :
             Report(c, n, [old EXCEPT !.higher = @ \cup {<<n, m.name>> : m \in MastersOf(link, l)}])
        BY <1>7 DEF higher_layer_if
    <2> DEFINE new == [old EXCEPT !.higher = @ \cup MastersFor(l)]
    <2>3. l \in link /\ l.name = n
        BY <1>3
    <2>4. MastersFor(l) = {<<n, m.name>> : m \in MastersOf(link, l)}
        BY <2>3 DEF MastersFor
    <2>5. Report(c, n, new)
        BY <2>2, <2>4
    <2>6. at[c] = Getters[3] /\ n \in todo /\ n \in old.interfaces /\ Progress(3, todo, old)
        BY <1>2, <2>1
    <2>7. Progress(3, todo \ {n}, new)
        BY <2>3, <2>6, HigherServes
    <2>8. \E S : new = [old EXCEPT !.higher = S]
        OBVIOUS
    <2>9. QED  BY <1>4, <2>5, <2>6, <2>7, <2>8
<1>8. ASSUME NEW n, lower_layer_if(c, n) PROVE Serves(c)
    <2>1. Called(c, Getters[4], n) /\ \E S : Report(c, n, [old EXCEPT !.lower = S])
        BY <1>1, <1>8 DEF lower_layer_if
    <2>2. at[c] = Getters[4] /\ Progress(4, todo, old) /\ KeptLeft(4, todo \ {n}, old)
        BY <1>2, <2>1 DEF KeptLeft
    <2>3. QED  BY <2>1, <2>2, OthersServe
<1>9. ASSUME NEW n, statistics(c, n) PROVE Serves(c)
    <2>1. Called(c, Getters[5], n)
        BY <1>1, <1>9 DEF statistics
    <2>2. PICK r : r.name = n /\ Report(c, n, [old EXCEPT !.stats = @ \cup {r}])
        BY <1>9 DEF statistics
    <2> DEFINE new == [old EXCEPT !.stats = @ \cup {r}]
    <2>3. at[c] = Getters[5] /\ n \in todo /\ n \in old.interfaces /\ Progress(5, todo, old)
        BY <1>2, <2>1
    <2>4. Progress(5, todo \ {n}, new)
        BY <2>2, <2>3, StatsServes
    <2>5. \E S : new = [old EXCEPT !.stats = S]
        OBVIOUS
    <2>6. QED  BY <1>4, <2>2, <2>3, <2>4, <2>5
<1>10. ASSUME NEW n, NEW k, NEW ips, (k = 6 /\ ips = Ip4) \/ (k = 8 /\ ips = Ip6),
             AddressList(c, Getters[k], n, ips)
      PROVE  Serves(c)
    <2>1. Called(c, Getters[k], n) /\ k \in 2..9
        BY <1>10 DEF AddressList
    <2>2. PICK l \in CurrentLink(n) :
             Report(c, n, [old EXCEPT !.addresses = @ \cup
                    {[name |-> n, ip |-> a.ip, plen |-> a.plen] :
                       a \in {a \in addr : a.index = l.index /\ a.ip \in ips}}])
        BY <1>10 DEF AddressList
    <2> DEFINE new == [old EXCEPT !.addresses = @ \cup AddressesFor(l, ips)]
    <2>3. l \in link /\ l.name = n
        BY <1>3
    <2>4. AddressesFor(l, ips) = {[name |-> n, ip |-> a.ip, plen |-> a.plen] :
                                    a \in {a \in addr : a.index = l.index /\ a.ip \in ips}}
        BY <2>3 DEF AddressesFor
    <2>5. Report(c, n, new)
        BY <2>2, <2>4
    <2>6. at[c] = Getters[k] /\ n \in todo /\ n \in old.interfaces /\ Progress(k, todo, old)
        BY <1>2, <2>1
    <2>7. Progress(k, todo \ {n}, new)
        BY <1>10, <2>3, <2>6, AddressesServe
    <2>8. \E S : new = [old EXCEPT !.addresses = S]
        OBVIOUS
    <2>9. QED  BY <1>4, <2>1, <2>5, <2>6, <2>7, <2>8
<1>11. ASSUME NEW n, NEW k, NEW ips, (k = 7 /\ ips = Ip4) \/ (k = 9 /\ ips = Ip6),
              NeighborList(c, Getters[k], n, ips)
       PROVE  Serves(c)
    <2>1. Called(c, Getters[k], n) /\ k \in 2..9
        BY <1>11 DEF NeighborList
    <2>2. PICK l \in CurrentLink(n) :
             Report(c, n, [old EXCEPT !.neighbors = @ \cup
                    {[name |-> n, ip |-> x.ip] :
                       x \in {x \in neigh : x.index = l.index /\ x.ip \in ips}}])
        BY <1>11 DEF NeighborList
    <2> DEFINE new == [old EXCEPT !.neighbors = @ \cup NeighborsFor(l, ips)]
    <2>3. l \in link /\ l.name = n
        BY <1>3
    <2>4. NeighborsFor(l, ips) = {[name |-> n, ip |-> x.ip] :
                                    x \in {x \in neigh : x.index = l.index /\ x.ip \in ips}}
        BY <2>3 DEF NeighborsFor
    <2>5. Report(c, n, new)
        BY <2>2, <2>4
    <2>6. at[c] = Getters[k] /\ n \in todo /\ n \in old.interfaces /\ Progress(k, todo, old)
        BY <1>2, <2>1
    <2>7. Progress(k, todo \ {n}, new)
        BY <1>11, <2>3, <2>6, NeighborsServe
    <2>8. \E S : new = [old EXCEPT !.neighbors = S]
        OBVIOUS
    <2>9. QED  BY <1>4, <2>1, <2>5, <2>6, <2>7, <2>8
<1>12. ASSUME NEW r, address_origin(c, r) PROVE Serves(c)
    <2>1. at[c] = Getters[10] /\ Report(c, r, old)
        BY <1>1, <1>12 DEF address_origin, Called
    <2>2. Progress(10, todo, old) /\ KeptLeft(10, todo \ {r}, old)
        BY <2>1 DEF KeptLeft
    <2>3. QED  BY <2>1, <2>2, OthersServe
<1>13. ASSUME NEW r, neighbor_origin(c, r) PROVE Serves(c)
    <2>1. at[c] = Getters[11] /\ Report(c, r, old)
        BY <1>1, <1>13 DEF neighbor_origin, Called
    <2>2. Progress(11, todo, old) /\ KeptLeft(11, todo \ {r}, old)
        BY <2>1 DEF KeptLeft
    <2>3. QED  BY <2>1, <2>2, OthersServe
<1>14. ASSUME NEW n, ipv4_address(c, n) \/ ipv6_address(c, n) PROVE Serves(c)
    BY <1>1, <1>10, <1>14 DEF ipv4_address, ipv6_address
<1>15. ASSUME NEW n, ipv4_neighbor(c, n) \/ ipv6_neighbor(c, n) PROVE Serves(c)
    BY <1>1, <1>11, <1>15 DEF ipv4_neighbor, ipv6_neighbor
<1>16. QED  BY <1>5, <1>6, <1>7, <1>8, <1>9, <1>12, <1>13, <1>14, <1>15 DEF GetterStep

\* The caches a request has filled are as the kernel is.
Filled(c) ==
    /\ at[c] \in Stage \cup (InList \ {"links"}) => link_cache = link
    /\ at[c] \in Stage \cup {"alloc_neighs", "refill_neighs"} => addr_cache = addr
    /\ at[c] \in Stage => neigh_cache = neigh

\* A request that nothing disturbed has reported all that it is past.
QuietOf(c) == during[c] = {} => Filled(c) /\ Answering(at[c], parents[c], report[c])
QuietInv == \A c \in Client : QuietOf(c)

\* Nothing is reported yet where a request begins, or failed.
LEMMA QuietIdle ==
    ASSUME NEW p, NEW todo, NEW rep, p \in {"idle", "failed", "links"}
    PROVE  Answering(p, todo, rep) /\ p \notin Stage /\ p \notin InList \ {"links"}
<1>1. p \notin Stage /\ p # "done" /\ p \notin InList \ {"links"}
    BY Stages DEF Answered, InList
<1>2. \A k \in 1..11 : p # Getters[k]
    BY <1>1, Stages, GetterPlaces
<1>3. QED  BY <1>1, <1>2 DEF Answering

\* No request is under way in the beginning.
LEMMA QuietInit == Init => QuietInv
<1> SUFFICES ASSUME Init, NEW c \in Client PROVE QuietOf(c)
    BY DEF QuietInv
<1>1. at[c] = "idle"
    BY DEF Init
<1>2. QED  BY <1>1, QuietIdle DEF QuietOf, Filled

\* What a request has yet to report does not depend on the caches.
LEMMA AnsweringStays ==
    ASSUME UNCHANGED <<link, addr, neigh>>, NEW p, NEW todo, NEW rep, Answering(p, todo, rep)
    PROVE  Answering(p, todo, rep)'
<1>1. \A l : MastersOf(link, l)' = MastersOf(link, l)
    BY DEF MastersOf, Above
<1>2. \A S : LinksOf(S)' = LinksOf(S)
    BY DEF LinksOf
<1>3. \A S : Masters(S)' = Masters(S)
    BY <1>1, <1>2 DEF Masters, MastersFor
<1>4. \A S, ips : Addresses(S, ips)' = Addresses(S, ips)
    BY <1>2 DEF Addresses, AddressesFor
<1>5. \A S, ips : Neighbors(S, ips)' = Neighbors(S, ips)
    BY <1>2 DEF Neighbors, NeighborsFor
<1>6. \A r, s : Serving(r, s) => Serving(r, s)'
    BY <1>3, <1>4, <1>5 DEF Serving
<1>7. \A k, t, r : Progress(k, t, r) => Progress(k, t, r)'
    BY <1>6 DEF Progress, Served
<1>8. QED  BY <1>7 DEF Answering, KeptLeft

\* A client that takes no step, with the caches it reads as they were.
LEMMA QuietStays ==
    ASSUME NEW d, QuietOf(d), UNCHANGED <<link, addr, neigh>>, at'[d] = at[d],
           parents'[d] = parents[d], report'[d] = report[d], during[d] \subseteq during'[d],
           \/ during'[d] # {} \/ at[d] \notin Stage \cup (InList \ {"links"})
           \/ UNCHANGED <<link_cache, addr_cache, neigh_cache>>
    PROVE  QuietOf(d)'
<1> SUFFICES ASSUME during'[d] = {} PROVE Filled(d)' /\ Answering(at[d], parents[d], report[d])'
    BY DEF QuietOf
<1>1. Filled(d) /\ Answering(at[d], parents[d], report[d])
    BY DEF QuietOf
<1>2. Filled(d)'
    BY <1>1 DEF Filled, InList
<1>3. QED  BY <1>1, <1>2, AnsweringStays

\* A client that does.
LEMMA QuietMoves ==
    ASSUME NEW c, UNCHANGED <<link, addr, neigh>>,
           during'[c] = {} => Filled(c)' /\ Answering(at'[c], parents'[c], report'[c])
    PROVE  QuietOf(c)'
<1> SUFFICES ASSUME during'[c] = {} PROVE Filled(c)' /\ Answering(at[c], parents[c], report[c])'
    BY DEF QuietOf
<1>1. Filled(c)' /\ Answering(at'[c], parents'[c], report'[c])
    OBVIOUS
<1>2. PICK p, todo, rep : p = at'[c] /\ todo = parents'[c] /\ rep = report'[c]
    OBVIOUS
<1>3. Answering(p, todo, rep)'
    BY <1>1, <1>2, AnsweringStays
<1>4. QED  BY <1>1, <1>2, <1>3

\* To where nothing was reported yet.
LEMMA QuietReset ==
    ASSUME NEW c, UNCHANGED <<link, addr, neigh>>, at'[c] \in {"idle", "failed", "links"}
    PROVE  QuietOf(c)'
<1>1. /\ Answering(at'[c], parents'[c], report'[c])
      /\ at'[c] \notin Stage /\ at'[c] \notin InList \ {"links"}
    BY QuietIdle
<1>2. Filled(c)'
    BY <1>1 DEF Filled, InList
<1>3. QED  BY <1>1, <1>2, QuietMoves

\* An interface is reported for every link, with nothing below it yet.
LEMMA NothingYet ==
    ASSUME link_cache = link, NEW old, OnlyKept(old), NEW rep,
           rep = [old EXCEPT !.interfaces = {l.name : l \in link_cache}]
    PROVE  Progress(1, rep.interfaces, rep)
<1> DEFINE s == Served(1, rep.interfaces, rep.interfaces)
<1>1. \A j \in 1..9 : s[j] = {}
    BY DEF Served
<1>2. /\ rep.interfaces = {l.name : l \in link} /\ rep.phys = {} /\ rep.stats = {}
      /\ rep.higher = {} /\ rep.addresses = {} /\ rep.neighbors = {}
    <2>1. PICK k : old = [NoReport EXCEPT !.kept = k]
        BY DEF OnlyKept
    <2>2. QED  BY <2>1 DEF NoReport
<1>3. /\ Masters(s[3]) = {} /\ Addresses(s[6], Ip4) = {} /\ Addresses(s[8], Ip6) = {}
      /\ Neighbors(s[7], Ip4) = {} /\ Neighbors(s[9], Ip6) = {} /\ s[2] = {} /\ s[5] = {}
    <2> HIDE DEF s
    <2>1. s[2] = {} /\ s[3] = {} /\ s[5] = {} /\ s[6] = {} /\ s[7] = {} /\ s[8] = {} /\ s[9] = {}
        BY <1>1
    <2>2. QED  BY <2>1, NothingServed
<1> HIDE DEF s
<1>4. {r.name : r \in rep.stats} = {}
    BY <1>2
<1>5. Serving(rep, s)
    BY <1>2, <1>3, <1>4 DEF Serving
<1>6. QED  BY <1>5 DEF Progress, s

\* The others while one request is in the list getter.
LEMMA QuietOthers ==
    ASSUME AllocInv, HeldInv, ReportInv, QuietInv, NEW c \in Client, ListStep(c), ~Crash,
           NEW d \in Client, d # c
    PROVE  QuietOf(d)'
<1>1. UNCHANGED <<link, addr, neigh>>
    BY DEF ListStep, ListStart, DumpLinks, DumpAddrs, DumpNeighs, InGetter, kernelVars
<1>2. ASSUME NEW p, GoTo(c, p), UNCHANGED parents,
             report' = report \/ \E k : report' = [report EXCEPT ![c].kept = k]
      PROVE  at'[d] = at[d] /\ parents'[d] = parents[d] /\ report'[d] = report[d]
    BY <1>2 DEF GoTo, AllocInv, ReportInv
<1>3. Fail(c) => at'[d] = at[d] /\ parents'[d] = parents[d] /\ report'[d] = report[d]
    BY DEF Fail, GoTo, AllocInv, HeldInv, ReportInv
<1>4. AddInterfaces(c) => at'[d] = at[d] /\ parents'[d] = parents[d] /\ report'[d] = report[d]
    BY DEF AddInterfaces, GoOn, GoTo, AllocInv, HeldInv, ReportInv
<1>5. at'[d] = at[d] /\ parents'[d] = parents[d] /\ report'[d] = report[d]
    BY <1>2, <1>3, <1>4 DEF ListStep, ListStart, DumpLinks, DumpAddrs, DumpNeighs
<1>6. during = [e \in Client |-> during[e]]
    BY DEF HeldInv
<1>7. during[d] \subseteq during'[d]
    BY <1>6 DEF ListStep, ListStart, DumpLinks, DumpAddrs, DumpNeighs, Note
<1>8. CASE ListStart(c)
    BY <1>1, <1>5, <1>7, <1>8, QuietStays DEF ListStart, QuietInv
<1>9. CASE DumpLinks(c)
    <2>1. \/ UNCHANGED <<link_cache, addr_cache, neigh_cache>>
          \/ Active(d) => during'[d] # {}
        BY <1>6, <1>9 DEF DumpLinks
    <2>2. ~Active(d) => at[d] \notin Stage \cup (InList \ {"links"})
        BY Stages DEF Active
    <2>3. QED  BY <1>1, <1>5, <1>7, <2>1, <2>2, QuietStays DEF QuietInv
<1>10. CASE at[c] \in InList \ {"links"}
    <2>1. at[d] \in Stage => Overtaken(d)
        BY <1>10 DEF HeldInv
    <2>2. at[d] \notin InList
        BY <1>10 DEF AllocInv
    <2>3. during'[d] # {} \/ at[d] \notin Stage \cup (InList \ {"links"})
        BY <1>7, <2>1, <2>2 DEF Overtaken
    <2>4. QED  BY <1>1, <1>5, <1>7, <2>3, QuietStays DEF QuietInv
<1>11. DumpAddrs(c) \/ DumpNeighs(c) => at[c] \in InList \ {"links"}
    BY DEF DumpAddrs, DumpNeighs, InList
<1>12. QED  BY <1>8, <1>9, <1>10, <1>11 DEF ListStep

\* A plugin that ended has answered, or let go of, every request.
LEMMA QuietCrash == ASSUME AllocInv, QuietInv, Crash, UNCHANGED <<link, addr, neigh>> PROVE QuietInv'
<1> SUFFICES ASSUME NEW d \in Client PROVE QuietOf(d)'
    BY DEF QuietInv
<1>1. CASE Active(d)
    <2>1. at'[d] = "failed"
        BY <1>1 DEF Crash
    <2>2. QED  BY <2>1, QuietReset
<1>2. CASE at[d] \in {"idle", "failed"}
    <2>1. at'[d] \in {"idle", "failed", "links"}
        BY <1>2 DEF Crash
    <2>2. QED  BY <2>1, QuietReset
<1>3. CASE at[d] = "done"
    <2>1. at'[d] = "done" /\ report'[d] = report[d] /\ during'[d] = during[d]
        BY <1>3 DEF Crash, history, Active, Answered
    <2>2. "done" \notin Stage /\ "done" \notin InList
        BY Stages DEF Answered
    <2>3. \A k \in 1..11 : Getters[k] # "done"
        BY <2>2, Stages, GetterPlaces
    <2>4. during[d] = {} => Progress(12, {}, report[d])
        BY <1>3 DEF QuietInv, QuietOf, Answering
    <2>5. during'[d] = {} => Answering(at'[d], parents'[d], report'[d])
        BY <2>1, <2>3, <2>4 DEF Answering
    <2>6. Filled(d)'
        BY <2>1, <2>2 DEF Filled, InList
    <2>7. QED  BY <2>5, <2>6, QuietMoves
<1>4. QED  BY <1>1, <1>2, <1>3 DEF Active, Answered

\* The list getter: a cache is as the kernel is, or the dump was refused.
LEMMA QuietLister ==
    ASSUME AllocInv, HeldInv, ReportInv, QuietInv, NEW c \in Client, ListStep(c), ~Crash
    PROVE  QuietOf(c)'
<1>1. UNCHANGED <<link, addr, neigh>>
    BY DEF ListStep, ListStart, DumpLinks, DumpAddrs, DumpNeighs, InGetter, kernelVars
<1>2. during = [e \in Client |-> during[e]] /\ \A p : GoTo(c, p) => at'[c] = p
    BY DEF HeldInv, AllocInv, GoTo
<1>3. CASE Fail(c)
    BY <1>1, <1>2, <1>3, QuietReset DEF Fail
<1>4. CASE GoTo(c, "links")
    BY <1>1, <1>2, <1>4, QuietReset
<1>5. \A p \in InList : at'[c] = p => Answering(at'[c], parents'[c], report'[c]) /\ at'[c] \notin Stage
    <2>1. \A p \in InList : p \notin Stage /\ p # "done" /\ \A k \in 1..11 : Getters[k] # p
        BY Stages, GetterPlaces DEF Answered
    <2>2. QED  BY <2>1 DEF Answering
<1>6. CASE DumpLinks(c) /\ ~Fail(c)
    <2>1. at'[c] \in {"alloc_addrs", "refill_addrs"}
        BY <1>2, <1>6 DEF DumpLinks
    <2>2. during'[c] = {} => link_cache' = link
        BY <1>2, <1>6 DEF DumpLinks
    <2>3. at'[c] \in InList
        BY <2>1 DEF InList
    <2>4. during'[c] = {} => Filled(c)'
        BY <1>1, <1>5, <2>1, <2>2, <2>3 DEF Filled
    <2>5. QED  BY <1>1, <1>5, <2>3, <2>4, QuietMoves
<1>7. CASE DumpAddrs(c) /\ ~Fail(c)
    <2>1. at'[c] \in {"alloc_neighs", "refill_neighs"} /\ link_cache' = link_cache
        BY <1>2, <1>7 DEF DumpAddrs, caches
    <2>2. during'[c] = {} => addr_cache' = addr /\ during[c] = {}
        BY <1>2, <1>7 DEF DumpAddrs, Note
    <2>3. at[c] \in InList \ {"links"}
        BY <1>7 DEF DumpAddrs, InList
    <2>4. during[c] = {} => link_cache = link
        BY <2>3 DEF QuietInv, QuietOf, Filled
    <2>5. at'[c] \in InList
        BY <2>1 DEF InList
    <2>6. during'[c] = {} => Filled(c)'
        BY <1>1, <1>5, <2>1, <2>2, <2>4, <2>5 DEF Filled
    <2>7. QED  BY <1>1, <1>5, <2>5, <2>6, QuietMoves
<1>8. CASE DumpNeighs(c) /\ ~Fail(c)
    <2>1. AddInterfaces(c) /\ UNCHANGED <<link_cache, addr_cache>>
        BY <1>8 DEF DumpNeighs
    <2>2. during'[c] = {} => neigh_cache' = neigh /\ during[c] = {}
        BY <1>2, <1>8 DEF DumpNeighs, Note
    <2>3. at[c] \in {"alloc_neighs", "refill_neighs"} /\ at[c] \in InList \ {"links"}
        BY <1>8 DEF DumpNeighs, InList
    <2>4. during[c] = {} => link_cache = link /\ addr_cache = addr
        BY <2>3 DEF QuietInv, QuietOf, Filled
    <2>5. during'[c] = {} => Filled(c)'
        BY <1>1, <2>1, <2>2, <2>4 DEF Filled
    <2>6. PICK rep : rep = [report[c] EXCEPT !.interfaces = {l.name : l \in link_cache}]
                     /\ GoOn(c, 1, rep)
        BY <2>1 DEF AddInterfaces
    <2>7. report'[c] = rep
        BY <2>6 DEF GoOn, ReportInv
    <2>8. ASSUME during[c] = {} PROVE Answering(at'[c], parents'[c], rep)
        <3>1. Progress(1, rep.interfaces, rep)
            <4>1. OnlyKept(report[c])
                BY <2>3 DEF ReportInv
            <4>2. QED  BY <2>4, <2>6, <2>8, <4>1, NothingYet
        <3>2. 1 \in 1..12 /\ ~(1 >= 10) /\ ~(1 > 1)
            OBVIOUS
        <3>3. QED  BY <2>6, <3>1, <3>2, AnswersGoOn
    <2>9. QED  BY <1>1, <2>2, <2>5, <2>7, <2>8, QuietMoves
<1>9. QED  BY <1>3, <1>4, <1>6, <1>7, <1>8 DEF ListStep, ListStart

\* A getter serves its request, and no other one's.
LEMMA QuietGetter ==
    ASSUME AllocInv, HeldInv, ReportInv, HostInv, QuietInv, NEW c \in Client, GetterStep(c),
           NEW d \in Client
    PROVE  QuietOf(d)'
<1>1. /\ at[c] \in Stage /\ UNCHANGED <<link, addr, neigh, link_cache, addr_cache, neigh_cache, during>>
      /\ \E p \in Stage \cup {"done", "failed"} : at' = [at EXCEPT ![c] = p]
    BY GetterMoves DEF kernelVars, caches, history
<1>2. PICK getter, q : Called(c, getter, q) /\ (Fail(c) \/ \E rep : Report(c, q, rep))
    BY GetterCases
<1>3. CASE d # c
    <2>1. at'[d] = at[d] /\ parents'[d] = parents[d] /\ report'[d] = report[d]
        BY <1>1, <1>2, <1>3 DEF Fail, Report, GoOn, AllocInv, HeldInv, ReportInv
    <2>2. QED  BY <1>1, <2>1, QuietStays DEF QuietInv
<1>4. CASE Fail(c) /\ d = c
    <2>1. at'[c] = "failed"
        BY <1>4 DEF Fail, GoTo, AllocInv
    <2>2. QED  BY <1>1, <1>4, <2>1, QuietReset
<1>5. CASE ~Fail(c) /\ d = c
    <2> SUFFICES ASSUME during[c] = {} PROVE Filled(c)' /\ Answering(at'[c], parents'[c], report'[c])
        BY <1>1, <1>5, QuietMoves
    <2>1. /\ link_cache = link /\ addr_cache = addr /\ neigh_cache = neigh
          /\ \A k \in 1..11 : at[c] = Getters[k] =>
                Progress(k, parents[c], report[c]) /\ KeptLeft(k, parents[c], report[c])
        BY <1>1 DEF QuietInv, QuietOf, Filled, Answering
    <2>2. LinksOK(link) /\ IsReport(report[c]) /\ parents[c] \subseteq MayServe(at[c], report[c])
        BY <1>1 DEF HostInv, ReportInv, HeldInv
    <2>3. Serves(c)
        BY <1>5, <2>1, <2>2, GetterServes
    <2>4. PICK k \in 1..11 : \E p, rep :
                 /\ at[c] = Getters[k] /\ Report(c, p, rep)
                 /\ Progress(k, parents[c] \ {p}, rep) /\ KeptLeft(k, parents[c] \ {p}, rep)
        BY <2>3 DEF Serves
    <2>5. PICK p, rep : /\ at[c] = Getters[k] /\ Report(c, p, rep)
                        /\ Progress(k, parents[c] \ {p}, rep) /\ KeptLeft(k, parents[c] \ {p}, rep)
        BY <2>4
    <2>6. Answering(at'[c], parents'[c], rep)
        BY <2>5, AnswersReport
    <2>7. report'[c] = rep
        BY <2>5 DEF Report, GoOn, ReportInv
    <2>8. Filled(c)'
        BY <1>1, <2>1 DEF Filled
    <2>9. QED  BY <2>6, <2>7, <2>8
<1>6. QED  BY <1>3, <1>4, <1>5

\* The host disturbs every request there is.
LEMMA QuietHost ==
    ASSUME AllocInv, NEW L, NEW A, NEW N, NEW R, HostBecomes(L, A, N, R)
    PROVE  QuietInv'
<1> SUFFICES ASSUME NEW c \in Client PROVE QuietOf(c)'
    BY DEF QuietInv
<1>1. at' = at /\ (at[c] # "idle" => "changed" \in during'[c])
    BY DEF HostBecomes, requestVars
<1>2. CASE at[c] # "idle"
    BY <1>1, <1>2 DEF QuietOf
<1>3. CASE at[c] = "idle"
    <2>1. at'[c] = "idle"
        BY <1>1, <1>3
    <2>2. /\ "idle" \notin Stage /\ "idle" \notin InList /\ \A k \in 1..11 : Getters[k] # "idle"
        BY Stages, GetterPlaces DEF Answered
    <2>3. Filled(c)' /\ Answering(at[c], parents[c], report[c])'
        BY <2>1, <2>2 DEF Filled, Answering, InList
    <2>4. QED  BY <2>3 DEF QuietOf
<1>4. QED  BY <1>2, <1>3

\* Every step keeps it.
LEMMA QuietNext == AllocInv /\ ReportInv /\ HeldInv /\ HostInv /\ QuietInv /\ [Next]_vars => QuietInv'
<1> SUFFICES ASSUME AllocInv, ReportInv, HeldInv, HostInv, QuietInv, [Next]_vars PROVE QuietInv'
    OBVIOUS
<1>1. ASSUME NEW c \in Client, ListStep(c) PROVE QuietInv'
    <2>1. UNCHANGED <<link, addr, neigh>>
        BY <1>1 DEF ListStep, ListStart, DumpLinks, DumpAddrs, DumpNeighs, InGetter, kernelVars
    <2>2. CASE Crash
        BY <2>1, <2>2, QuietCrash
    <2>3. CASE ~Crash
        BY <1>1, <2>3, QuietOthers, QuietLister DEF QuietInv
    <2>4. QED  BY <2>2, <2>3
<1>2. ASSUME NEW c \in Client, GetterStep(c) PROVE QuietInv'
    BY <1>2, QuietGetter DEF QuietInv
<1>3. ASSUME NEW c \in Client, NextRequest(c) PROVE QuietInv'
    <2>1. /\ at' = [at EXCEPT ![c] = "idle"] /\ report' = [report EXCEPT ![c] = NoReport]
          /\ during' = [during EXCEPT ![c] = {}] /\ UNCHANGED <<caches, kernelVars, parents>>
        BY <1>3 DEF NextRequest, GoTo
    <2>2. UNCHANGED <<link, addr, neigh, link_cache, addr_cache, neigh_cache>>
        BY <2>1 DEF caches, kernelVars
    <2>3. at'[c] = "idle"
        BY <2>1 DEF AllocInv
    <2>4. ASSUME NEW d \in Client, d # c PROVE QuietOf(d)'
        <3>1. at'[d] = at[d] /\ parents'[d] = parents[d] /\ report'[d] = report[d]
            BY <2>1, <2>4 DEF AllocInv, ReportInv
        <3>2. during'[d] = during[d]
            BY <2>1, <2>4 DEF HeldInv
        <3>3. QED  BY <2>2, <3>1, <3>2, QuietStays DEF QuietInv
    <2>5. QuietOf(c)'
        BY <2>2, <2>3, QuietReset
    <2>6. QED  BY <2>4, <2>5 DEF QuietInv
<1>4. CASE Environment
    BY <1>4, QuietHost DEF Environment, LinkCreated, LinkDeleted, LinkEnslaved, CountersChanged,
                           EntriesChanged, RunningChanged
<1>5. CASE UNCHANGED vars
    <2>1. UNCHANGED <<at, parents, report, during, link, addr, neigh, link_cache, addr_cache, neigh_cache>>
        BY <1>5 DEF vars, kernelVars, caches, requestVars, history
    <2>2. QED  BY <2>1, QuietStays DEF QuietInv
<1>6. QED  BY <1>1, <1>2, <1>3, <1>4, <1>5 DEF Next

\* When all are served, what is reported is what the kernel has.
LEMMA AllServed ==
    ASSUME HostInv, NEW rep, Progress(12, {}, rep)
    PROVE  /\ rep.interfaces = {l.name : l \in link} /\ rep.phys = rep.interfaces
           /\ {r.name : r \in rep.stats} = rep.interfaces
           /\ rep.higher = UNION {{<<l.name, m.name>> : m \in MastersOf(link, l)} : l \in link}
           /\ rep.addresses =
                 UNION {{[name |-> l.name, ip |-> a.ip, plen |-> a.plen] :
                           a \in {x \in addr : x.index = l.index}} : l \in link}
           /\ rep.neighbors =
                 UNION {{[name |-> l.name, ip |-> x.ip] :
                           x \in {y \in neigh : y.index = l.index}} : l \in link}
<1> DEFINE all == {l.name : l \in link}
<1>1. rep.interfaces = all
    BY DEF Progress, Serving
<1>2. \A j \in 1..9 : Served(12, {}, all)[j] = all
    BY DEF Served
<1>3. /\ rep.phys = all /\ {r.name : r \in rep.stats} = all /\ rep.higher = Masters(all)
      /\ rep.addresses = Addresses(all, Ip4) \cup Addresses(all, Ip6)
      /\ rep.neighbors = Neighbors(all, Ip4) \cup Neighbors(all, Ip6)
    <2> DEFINE s == Served(12, {}, all)
    <2>1. Serving(rep, s)
        BY <1>1 DEF Progress
    <2>2. /\ s[2] = all /\ s[3] = all /\ s[5] = all /\ s[6] = all /\ s[7] = all /\ s[8] = all
          /\ s[9] = all
        BY <1>2
    <2> HIDE DEF s, all
    <2>3. QED  BY <2>1, <2>2 DEF Serving
<1>4. LinksOf(all) = link
    <2>1. \A l \in link : l.name \in all
        OBVIOUS
    <2> HIDE DEF all
    <2>2. QED  BY <2>1 DEF LinksOf
<1>5. Masters(all) = UNION {{<<l.name, m.name>> : m \in MastersOf(link, l)} : l \in link}
    BY <1>4 DEF Masters, MastersFor
<1>6. /\ \A x \in addr : x.ip \in Ip4 \/ x.ip \in Ip6
      /\ \A x \in neigh : x.ip \in Ip4 \/ x.ip \in Ip6
    BY DEF HostInv, Addr, Neigh, Ip
<1>7. Addresses(all, Ip4) \cup Addresses(all, Ip6)
      = UNION {{[name |-> l.name, ip |-> a.ip, plen |-> a.plen] :
                  a \in {x \in addr : x.index = l.index}} : l \in link}
    <2>1. \A l : {[name |-> l.name, ip |-> a.ip, plen |-> a.plen] :
                   a \in {x \in addr : x.index = l.index}}
                 = AddressesFor(l, Ip4) \cup AddressesFor(l, Ip6)
        BY <1>6 DEF AddressesFor
    <2>2. \A ips : Addresses(all, ips) = UNION {AddressesFor(l, ips) : l \in link}
        BY <1>4 DEF Addresses
    <2> DEFINE mine(l) == {[name |-> l.name, ip |-> a.ip, plen |-> a.plen] :
                   a \in {x \in addr : x.index = l.index}}
    <2> HIDE DEF mine
    <2>3. \A l : mine(l) = AddressesFor(l, Ip4) \cup AddressesFor(l, Ip6)
        BY <2>1 DEF mine
    <2>4. Addresses(all, Ip4) \cup Addresses(all, Ip6) = UNION {mine(l) : l \in link}
        BY <2>2, <2>3
    <2>5. QED  BY <2>4 DEF mine
<1>8. Neighbors(all, Ip4) \cup Neighbors(all, Ip6)
      = UNION {{[name |-> l.name, ip |-> x.ip] :
                  x \in {y \in neigh : y.index = l.index}} : l \in link}
    <2>1. \A l : {[name |-> l.name, ip |-> x.ip] : x \in {y \in neigh : y.index = l.index}}
                 = NeighborsFor(l, Ip4) \cup NeighborsFor(l, Ip6)
        BY <1>6 DEF NeighborsFor
    <2>2. \A ips : Neighbors(all, ips) = UNION {NeighborsFor(l, ips) : l \in link}
        BY <1>4 DEF Neighbors
    <2> DEFINE mine(l) == {[name |-> l.name, ip |-> x.ip] : x \in {y \in neigh : y.index = l.index}}
    <2> HIDE DEF mine
    <2>3. \A l : mine(l) = NeighborsFor(l, Ip4) \cup NeighborsFor(l, Ip6)
        BY <2>1 DEF mine
    <2>4. Neighbors(all, Ip4) \cup Neighbors(all, Ip6) = UNION {mine(l) : l \in link}
        BY <2>2, <2>3
    <2>5. QED  BY <2>4 DEF mine
<1>9. QED  BY <1>1, <1>3, <1>5, <1>7, <1>8

\* So that it always holds.
LEMMA QuietHolds == Spec => []QuietInv
    BY QuietInit, QuietNext, AllHold, TypesHold, PTL DEF Spec

\* A request that no change of the host, no refused call and no other request
\* disturbed is answered with all the kernel has: every interface, its masters,
\* statistics, addresses and neighbours of both families, and nothing else.
THEOREM QuietReported == Spec => []QuietReport
<1>1. HostInv /\ QuietInv => QuietReport
    <2> SUFFICES ASSUME HostInv, QuietInv, NEW c \in Client, at[c] = "done", during[c] = {}
                 PROVE  Progress(12, {}, report[c])
        BY AllServed DEF QuietReport
    <2>1. QED  BY DEF QuietInv, QuietOf, Answering
<1>2. QED  BY <1>1, QuietHolds, TypesHold, PTL
=============================================================================
