------------------------- MODULE RoutingRibs_proofs -------------------------
(***************************************************************************)
(* Proofs about RoutingRibs, for every set of tables, destinations, routes *)
(* and links and every bound: its types, that the getter of the RIB routes *)
(* implements RibService, and that exactly one route of each destination   *)
(* is active.                                                              *)
(***************************************************************************)
EXTENDS RoutingRibs, TLAPS, FiniteSetTheorems

-----------------------------------------------------------------------------
(* The inductive invariant                                                 *)

EntryType == [route : RouteSet, hops : SUBSET Ifindex, active : BOOLEAN]

\* The next hops a route should be collected with.
Wanted(r) == IF r.special THEN {} ELSE r.hops

\* An entry stands for a route of the dump, with next hops of its own; all of
\* them unless a dump was refused.
EntryOK(e) ==
    /\ e.route \in routes_cache /\ e.hops \subseteq e.route.hops
    /\ refused = 0 => e.hops = Wanted(e.route)

TypeInv ==
    /\ lastIndex \in 1..MaxIfindex /\ link \subseteq 1..lastIndex
    /\ fib \subseteq RouteSet /\ KernelOK(link, fib)
    /\ step \in {"idle", "links", "ribs", "routes", "report", "reported", "failed", "crashed"}
    /\ routes_cache \subseteq RouteSet /\ link_cache \subseteq Ifindex
    /\ todo \subseteq routes_cache /\ (step = "idle" => routes_cache = {})
    /\ external \in 0..MaxExternal /\ refused \in 0..MaxRefusal /\ linkGone \in BOOLEAN

\* The lists are there from the first route to the answer.
RibsInv ==
    /\ DOMAIN ribs \subseteq RibKey
    /\ ribs \in [DOMAIN ribs -> [Dest -> Seq(EntryType)]]
    /\ \A k \in DOMAIN ribs, d \in Dest : \A n \in 1..Len(ribs[k][d]) : EntryOK(ribs[k][d][n])
    /\ IF step \in {"routes", "report", "reported"}
         THEN \A r \in routes_cache : RibOf(r) \in DOMAIN ribs
         ELSE ribs = NoRibs

\* tmp_route is a route of the dump while it is collected, else it is empty.
TmpInv ==
    /\ cur = NoRoute => left = {} /\ got = {}
    /\ cur # NoRoute => /\ step = "routes" /\ cur \in routes_cache
                        /\ left \subseteq cur.hops /\ got \subseteq cur.hops
                        /\ refused = 0 => left \cup got = Wanted(cur)

\* Unless a link was deleted, the next hops of the dump are links of the
\* kernel, and of the dump of the links once that was made.
DumpInv ==
    ~linkGone =>
        /\ step \in {"links", "ribs", "routes", "report"} =>
              \A r \in routes_cache : r.hops \subseteq link
        /\ step \in {"ribs", "routes", "report"} =>
              \A r \in routes_cache : r.hops \subseteq link_cache

IInv == TypeInv /\ RibsInv /\ TmpInv /\ DumpInv /\ CrashExplained

-----------------------------------------------------------------------------
(* The steps                                                               *)

\* A route of the model has the fields of a route.
LEMMA RouteFields ==
    ASSUME NEW r \in RouteSet
    PROVE  r \in Route /\ r.hops \subseteq Ifindex /\ r # NoRoute /\ RibOf(r) \in RibKey
    BY RibsAssumption DEF Route, Dest, RibOf, RibKey, Family

LEMMA NoRibsTyped ==
    DOMAIN NoRibs = {} /\ NoRibs \in [DOMAIN NoRibs -> [Dest -> Seq(EntryType)]]
    BY DEF NoRibs

\* The counters begin within their bounds, and so does the set of links.
LEMMA Bounds ==
    /\ 0 \in 0..MaxExternal /\ 0 \in 0..MaxRefusal /\ 2 \in 1..MaxIfindex
    /\ {1, 2} \subseteq 1..2
    BY RibsAssumption

LEMMA InitInv == Init => IInv
<1> SUFFICES ASSUME Init PROVE IInv
    OBVIOUS
<1>1. TypeInv
    <2>1. link \subseteq 1..lastIndex /\ lastIndex \in 1..MaxIfindex
        BY Bounds DEF Init
    <2>2. fib \subseteq RouteSet /\ KernelOK(link, fib)
        BY DEF Init
    <2>3. QED  BY <2>1, <2>2, Bounds DEF Init, TypeInv
<1>2. RibsInv
    BY NoRibsTyped DEF Init, RibsInv
<1>3. TmpInv /\ DumpInv /\ CrashExplained
    BY DEF Init, TmpInv, DumpInv, CrashExplained
<1>4. QED  BY <1>1, <1>2, <1>3 DEF IInv

\* After error_out nothing is left of the request.
LEMMA AnswerInv ==
    ASSUME IInv, NEW result \in {"idle", "failed", "crashed"},
           Answer(result), UNCHANGED <<kernelVars, external, linkGone>>,
           refused' \in 0..MaxRefusal,
           result = "crashed" => linkGone
    PROVE  IInv'
<1>1. TypeInv'
    BY DEF IInv, TypeInv, Answer, kernelVars, KernelOK
<1>2. RibsInv'
    BY NoRibsTyped DEF Answer, RibsInv, NoRibs
<1>3. TmpInv' /\ DumpInv' /\ CrashExplained'
    BY DEF Answer, TmpInv, DumpInv, CrashExplained
<1>4. QED  BY <1>1, <1>2, <1>3 DEF IInv

LEMMA DumpRoutesInv == IInv /\ DumpRoutes => IInv'
<1> SUFFICES ASSUME IInv, DumpRoutes PROVE IInv'
    OBVIOUS
<1>1. TypeInv'
    BY Bounds DEF IInv, TypeInv, DumpRoutes, kernelVars, tmp, KernelOK
<1>2. RibsInv'
    BY NoRibsTyped DEF IInv, RibsInv, DumpRoutes
<1>3. TmpInv' /\ DumpInv' /\ CrashExplained'
    BY DEF IInv, TypeInv, TmpInv, DumpInv, CrashExplained, DumpRoutes, tmp, kernelVars, KernelOK
<1>4. QED  BY <1>1, <1>2, <1>3 DEF IInv

LEMMA DumpLinksInv == IInv /\ DumpLinks => IInv'
<1> SUFFICES ASSUME IInv, DumpLinks PROVE IInv'
    OBVIOUS
<1>1. TypeInv'
    <2>1. link \subseteq Ifindex
        BY RibsAssumption DEF IInv, TypeInv, Ifindex
    <2>2. QED  BY <2>1 DEF IInv, TypeInv, DumpLinks, Request, kernelVars, tmp, KernelOK
<1>2. RibsInv'
    BY NoRibsTyped DEF IInv, RibsInv, DumpLinks
<1>3. TmpInv' /\ DumpInv' /\ CrashExplained'
    BY DEF IInv, TmpInv, DumpInv, CrashExplained, DumpLinks, Request, tmp, kernelVars
<1>4. QED  BY <1>1, <1>2, <1>3 DEF IInv

LEMMA CollectRibsInv == IInv /\ routing_collect_ribs => IInv'
<1> SUFFICES ASSUME IInv, routing_collect_ribs PROVE IInv'
    OBVIOUS
<1> USE DEF routing_collect_ribs, Request, kernelVars, caches, tmp
<1>1. TypeInv'
    BY DEF IInv, TypeInv, KernelOK
<1>2. RibsInv'
    <2>1. DOMAIN ribs' = {RibOf(r) : r \in routes_cache}
        OBVIOUS
    <2>2. DOMAIN ribs' \subseteq RibKey
        BY <2>1, RouteFields DEF IInv, TypeInv
    <2>3. NoRoutes \in [Dest -> Seq(EntryType)] /\ \A d \in Dest : Len(NoRoutes[d]) = 0
        BY DEF NoRoutes
    <2>4. \A k \in DOMAIN ribs' : ribs'[k] = NoRoutes
        OBVIOUS
    <2>5. ribs' \in [DOMAIN ribs' -> [Dest -> Seq(EntryType)]]
        BY <2>3
    <2>6. QED  BY <2>1, <2>2, <2>3, <2>4, <2>5 DEF RibsInv
<1>3. TmpInv' /\ DumpInv' /\ CrashExplained'
    BY DEF IInv, RibsInv, TmpInv, DumpInv, CrashExplained
<1>4. QED  BY <1>1, <1>2, <1>3 DEF IInv

\* What is left of the lists when a step leaves them alone and refuses at most
\* one more call.
LEMMA RibsKept ==
    ASSUME IInv, UNCHANGED <<ribs, routes_cache>>,
           refused' = 0 => refused = 0,
           step \in {"routes", "report", "reported"} <=> step' \in {"routes", "report", "reported"}
    PROVE  RibsInv'
<1>1. \A e : EntryOK(e) => EntryOK(e)'
    BY DEF EntryOK
<1>2. \A k \in DOMAIN ribs, d \in Dest : \A n \in 1..Len(ribs[k][d]) : EntryOK(ribs[k][d][n])'
    BY <1>1 DEF IInv, RibsInv
<1>3. QED  BY <1>2 DEF IInv, RibsInv

LEMMA CollectRouteInv ==
    ASSUME IInv, NEW r \in RouteSet, CollectRoute(r)
    PROVE  IInv'
<1> USE DEF Request, kernelVars, caches, tmp
<1>0. refused \in 0..MaxRefusal /\ r \in routes_cache
    BY DEF IInv, TypeInv, CollectRoute
<1>1. CASE Answer("failed")
    BY <1>0, <1>1, AnswerInv DEF CollectRoute
<1>2. CASE Answer("crashed")
    <2>1. step = "routes"
        BY DEF CollectRoute
    <2>2. ~(r.hops \subseteq link_cache)
        BY <1>2, RouteFields, <2>1 DEF CollectRoute, Crash, Answer
    <2>3. linkGone
        BY <2>1, <2>2, <1>0 DEF IInv, DumpInv, TypeInv
    <2>4. QED  BY <1>0, <1>2, <2>3, AnswerInv DEF CollectRoute
<1>3. CASE /\ cur' = r /\ todo' = todo \ {r}
           /\ left' = (IF Several(r) THEN r.hops ELSE {})
           /\ got' = (IF r.special THEN {} ELSE r.hops \ left')
           /\ UNCHANGED <<step, caches, ribs>>
    <2>1. UNCHANGED <<kernelVars, external, linkGone, refused, step, caches, ribs>>
        BY <1>3 DEF CollectRoute
    <2>2. TypeInv'
        BY <1>3, <2>1 DEF IInv, TypeInv, KernelOK
    <2>3. RibsInv'
        BY <2>1, RibsKept
    <2>4. TmpInv'
        BY <1>0, <1>3, <2>1, RouteFields DEF TmpInv, CollectRoute, Several, Wanted
    <2>5. DumpInv' /\ CrashExplained'
        BY <2>1 DEF IInv, DumpInv, CrashExplained
    <2>6. QED  BY <2>2, <2>3, <2>4, <2>5 DEF IInv
<1>4. QED  BY <1>1, <1>2, <1>3 DEF CollectRoute, Crash

LEMMA NexthopInv ==
    ASSUME IInv, NEW i \in Ifindex, foreach_nexthop(i)
    PROVE  IInv'
<1> USE DEF Request, kernelVars, caches, tmp
<1>1. /\ cur # NoRoute /\ step = "routes" /\ cur \in routes_cache
      /\ i \in cur.hops /\ left \subseteq cur.hops /\ got \subseteq cur.hops
      /\ refused = 0 => left \cup got = Wanted(cur)
    BY DEF foreach_nexthop, IInv, TmpInv
<1>2. refused \in 0..MaxRefusal /\ MaxRefusal \in Nat
    BY RibsAssumption DEF IInv, TypeInv
<1>3. CASE i \notin link /\ Crash /\ UNCHANGED refused
    <2>1. linkGone
        BY <1>1, <1>3 DEF IInv, DumpInv
    <2>2. QED  BY <1>2, <1>3, <2>1, AnswerInv DEF foreach_nexthop, Crash
<1>4. CASE /\ left' = left \ {i}
           /\ \/ got' = got \cup {i} /\ refused' = refused
              \/ got' = got /\ Refuse
           /\ UNCHANGED <<step, caches, ribs, todo, cur>>
    <2>1. UNCHANGED <<kernelVars, external, linkGone, step, caches, ribs, todo, cur>>
        BY <1>4 DEF foreach_nexthop
    <2>2. refused' \in 0..MaxRefusal /\ (refused' = 0 => refused = 0 /\ got' = got \cup {i})
        BY <1>2, <1>4 DEF Refuse
    <2>3. TypeInv'
        BY <2>1, <2>2 DEF IInv, TypeInv, KernelOK
    <2>4. RibsInv'
        BY <2>1, <2>2, RibsKept
    <2>5. TmpInv'
        BY <1>1, <1>4, <2>1, <2>2 DEF TmpInv, foreach_nexthop, Wanted
    <2>6. DumpInv' /\ CrashExplained'
        BY <2>1 DEF IInv, DumpInv, CrashExplained
    <2>7. QED  BY <2>3, <2>4, <2>5, <2>6 DEF IInv
<1>5. QED  BY <1>3, <1>4 DEF foreach_nexthop

\* The route that was collected makes a good entry.
LEMMA EntryTyped ==
    ASSUME IInv, cur # NoRoute, left = {}
    PROVE  Entry \in EntryType /\ EntryOK(Entry)
<1>1. cur \in RouteSet /\ cur \in routes_cache /\ got \subseteq cur.hops
      /\ (refused = 0 => got = Wanted(cur))
    BY DEF IInv, TypeInv, TmpInv
<1>2. got \subseteq Ifindex
    BY <1>1, RouteFields
<1>3. QED  BY <1>1, <1>2 DEF Entry, EntryType, EntryOK, Wanted

\* The list of each destination before a step that adds or marks a route.
LEMMA ListTyped ==
    ASSUME IInv, NEW k \in DOMAIN ribs, NEW d \in Dest
    PROVE  /\ ribs[k] \in [Dest -> Seq(EntryType)]
           /\ ribs[k][d] \in Seq(EntryType) /\ Len(ribs[k][d]) \in Nat
           /\ \A n \in 1..Len(ribs[k][d]) :
                 ribs[k][d][n] \in EntryType /\ EntryOK(ribs[k][d][n])
<1>1. ribs[k] \in [Dest -> Seq(EntryType)]
    BY DEF IInv, RibsInv
<1>2. ribs[k][d] \in Seq(EntryType)
    BY <1>1
<1>3. \A n \in 1..Len(ribs[k][d]) : EntryOK(ribs[k][d][n])
    BY DEF IInv, RibsInv
<1>4. QED  BY <1>1, <1>2, <1>3

\* A list with a good entry in front is a good list.
LEMMA ListAdded ==
    ASSUME IInv, cur # NoRoute, left = {}, NEW k \in DOMAIN ribs, NEW d \in Dest
    PROVE  /\ route_list_hash_add(k, d) \in Seq(EntryType)
           /\ \A n \in 1..Len(route_list_hash_add(k, d)) : EntryOK(route_list_hash_add(k, d)[n])
<1>1. <<Entry>> \in Seq(EntryType) /\ Len(<<Entry>>) = 1 /\ <<Entry>>[1] = Entry
    BY EntryTyped
<1> DEFINE s == ribs[k][d]
           t == <<Entry>> \o s
<1>2. s \in Seq(EntryType) /\ \A n \in 1..Len(s) : EntryOK(s[n])
    BY ListTyped
<1>3. t \in Seq(EntryType) /\ Len(t) = 1 + Len(s) /\ t[1] = Entry
    BY <1>1, <1>2
<1>4. \A n \in 1..Len(t) : n # 1 => n - 1 \in 1..Len(s) /\ t[n] = s[n - 1]
    BY <1>1, <1>2, <1>3
<1>5. \A n \in 1..Len(t) : EntryOK(t[n])
    <2> SUFFICES ASSUME NEW n \in 1..Len(t) PROVE EntryOK(t[n])
        OBVIOUS
    <2>1. CASE n = 1
        BY <2>1, <1>3, EntryTyped
    <2>2. CASE n # 1
        <3>1. n - 1 \in 1..Len(s) /\ t[n] = s[n - 1]
            BY <2>2, <1>4
        <3>2. EntryOK(s[n - 1])
            BY <3>1, <1>2
        <3>3. QED  BY <3>1, <3>2
    <2>3. QED  BY <2>1, <2>2
<1>6. QED  BY <1>3, <1>5 DEF route_list_hash_add

LEMMA AddRouteInv == IInv /\ AddRoute => IInv'
<1> SUFFICES ASSUME IInv, AddRoute PROVE IInv'
    OBVIOUS
<1> DEFINE key == CHOOSE x \in DOMAIN ribs : SameRib(x, cur)
<1>1. /\ cur # NoRoute /\ left = {} /\ cur' = NoRoute /\ got' = {} /\ left' = {}
      /\ ribs' = [ribs EXCEPT ![key][cur.dest] = route_list_hash_add(key, cur.dest)]
      /\ UNCHANGED <<step, routes_cache, link_cache, todo, refused, link, lastIndex, fib,
                     external, linkGone>>
    BY DEF AddRoute, Request, kernelVars, caches
<1>2. step = "routes" /\ cur \in routes_cache /\ cur.dest \in Dest
    BY <1>1, RouteFields DEF IInv, TypeInv, TmpInv, Route
<1>3. key \in DOMAIN ribs
    <2>1. RibOf(cur) \in DOMAIN ribs
        BY <1>2 DEF IInv, RibsInv
    <2>2. QED  BY <2>1 DEF SameRib
<1>4. DOMAIN ribs' = DOMAIN ribs
    BY <1>1
<1> DEFINE new == route_list_hash_add(key, cur.dest)
<1>5. /\ new \in Seq(EntryType)
      /\ \A n \in 1..Len(new) : EntryOK(new[n])
    BY <1>1, <1>2, <1>3, ListAdded
<1>6. /\ ribs \in [DOMAIN ribs -> [Dest -> Seq(EntryType)]]
      /\ ribs' = [ribs EXCEPT ![key] = [ribs[key] EXCEPT ![cur.dest] = new]]
    BY <1>1 DEF IInv, RibsInv
<1> HIDE DEF key, new
<1>7. [ribs[key] EXCEPT ![cur.dest] = new] \in [Dest -> Seq(EntryType)]
    BY <1>2, <1>3, <1>5, <1>6
<1>8. ribs' \in [DOMAIN ribs -> [Dest -> Seq(EntryType)]]
    BY <1>3, <1>6, <1>7
<1>9. ASSUME NEW k \in DOMAIN ribs, NEW d \in Dest
      PROVE  ribs'[k][d] = IF k = key /\ d = cur.dest THEN new ELSE ribs[k][d]
    BY <1>2, <1>3, <1>6, <1>9
<1>10. ASSUME NEW k \in DOMAIN ribs, NEW d \in Dest, NEW n \in 1..Len(ribs'[k][d])
       PROVE  EntryOK(ribs'[k][d][n])
    <2>1. CASE k = key /\ d = cur.dest
        BY <1>5, <1>9, <1>10, <2>1
    <2>2. CASE ~(k = key /\ d = cur.dest)
        BY <1>9, <1>10, <2>2, ListTyped
    <2>3. QED  BY <2>1, <2>2
<1>11. RibsInv'
    <2>1. /\ DOMAIN ribs' \subseteq RibKey
          /\ ribs' \in [DOMAIN ribs' -> [Dest -> Seq(EntryType)]]
        BY <1>4, <1>8 DEF IInv, RibsInv
    <2>2. \A k \in DOMAIN ribs, d \in Dest : \A n \in 1..Len(ribs'[k][d]) :
             EntryOK(ribs[k][d][n])'
        <3> SUFFICES ASSUME NEW k \in DOMAIN ribs, NEW d \in Dest,
                            NEW n \in 1..Len(ribs'[k][d])
                     PROVE  EntryOK(ribs[k][d][n])'
            OBVIOUS
        <3>1. EntryOK(ribs'[k][d][n])
            BY <1>10
        <3>2. QED  BY <1>1, <3>1 DEF EntryOK
    <2>3. step' = "routes" /\ \A r \in routes_cache' : RibOf(r) \in DOMAIN ribs'
        BY <1>1, <1>2, <1>4 DEF IInv, RibsInv
    <2>4. QED  BY <1>4, <2>1, <2>2, <2>3 DEF RibsInv
<1>12. TypeInv'
    BY <1>1 DEF IInv, TypeInv, KernelOK
<1>13. TmpInv' /\ DumpInv' /\ CrashExplained'
    BY <1>1 DEF IInv, TmpInv, DumpInv, CrashExplained
<1>14. QED  BY <1>11, <1>12, <1>13 DEF IInv

LEMMA SelectActiveInv == IInv /\ SelectActive => IInv'
<1> SUFFICES ASSUME IInv, SelectActive PROVE IInv'
    OBVIOUS
<1> DEFINE Mark(s, n) == [s[n] EXCEPT !.active = Preferred(s, n)]
           Marked(s) == [n \in 1..Len(s) |-> Mark(s, n)]
<1>1. /\ step = "routes" /\ step' = "report" /\ cur = NoRoute
      /\ ribs' = [k \in DOMAIN ribs |-> [d \in Dest |-> Marked(ribs[k][d])]]
      /\ UNCHANGED <<routes_cache, link_cache, todo, cur, left, got, refused, link, lastIndex,
                     fib, external, linkGone>>
    BY DEF SelectActive, Request, kernelVars, caches, tmp
<1>2. ASSUME NEW k \in DOMAIN ribs, NEW d \in Dest
      PROVE  /\ Marked(ribs[k][d]) \in Seq(EntryType)
             /\ \A n \in 1..Len(Marked(ribs[k][d])) : EntryOK(Marked(ribs[k][d])[n])
    <2> DEFINE s == ribs[k][d]
    <2>1. s \in Seq(EntryType) /\ Len(s) \in Nat
          /\ \A n \in 1..Len(s) : s[n] \in EntryType /\ EntryOK(s[n])
        BY <1>2, ListTyped
    <2>2. ASSUME NEW n \in 1..Len(s)
          PROVE  Mark(s, n) \in EntryType /\ EntryOK(Mark(s, n))
        <3>1. s[n] \in EntryType /\ EntryOK(s[n])
            BY <2>1, <2>2
        <3>2. Preferred(s, n) \in BOOLEAN
            BY DEF Preferred
        <3>3. /\ Mark(s, n) \in EntryType
              /\ Mark(s, n).route = s[n].route /\ Mark(s, n).hops = s[n].hops
            BY <3>1, <3>2 DEF EntryType
        <3>4. QED  BY <3>1, <3>3 DEF EntryOK
    <2> HIDE DEF Mark, s
    <2>3. Marked(s) \in [1..Len(s) -> EntryType]
        BY <2>2
    <2>4. Marked(s) \in Seq(EntryType) /\ Len(Marked(s)) = Len(s)
        BY <2>1, <2>3
    <2>5. \A n \in 1..Len(Marked(s)) : EntryOK(Marked(s)[n])
        BY <2>2, <2>4
    <2>6. QED  BY <2>4, <2>5 DEF s
<1>3. RibsInv'
    <2> HIDE DEF Marked
    <2>1. DOMAIN ribs' = DOMAIN ribs
        BY <1>1
    <2>2. ribs' \in [DOMAIN ribs' -> [Dest -> Seq(EntryType)]]
        BY <1>1, <1>2
    <2>3. \A k \in DOMAIN ribs, d \in Dest : ribs'[k][d] = Marked(ribs[k][d])
        BY <1>1
    <2>4. ASSUME NEW k \in DOMAIN ribs, NEW d \in Dest, NEW n \in 1..Len(ribs'[k][d])
          PROVE  EntryOK(ribs'[k][d][n])
        BY <1>2, <2>3, <2>4
    <2>5. \A r \in routes_cache' : RibOf(r) \in DOMAIN ribs'
        BY <1>1, <2>1 DEF IInv, RibsInv
    <2>6. DOMAIN ribs' \subseteq RibKey
        BY <2>1 DEF IInv, RibsInv
    <2>7. (\A k \in DOMAIN ribs, d \in Dest : \A n \in 1..Len(ribs[k][d]) : EntryOK(ribs[k][d][n]))'
        <3>1. UNCHANGED <<routes_cache, refused>>
            BY <1>1
        <3>2. QED  BY <2>1, <2>4, <3>1 DEF EntryOK
    <2>8. QED  BY <1>1, <2>2, <2>5, <2>6, <2>7 DEF RibsInv
<1>4. TypeInv'
    BY <1>1 DEF IInv, TypeInv, KernelOK
<1>5. TmpInv' /\ DumpInv' /\ CrashExplained'
    BY <1>1 DEF IInv, TmpInv, DumpInv, CrashExplained
<1>6. QED  BY <1>3, <1>4, <1>5 DEF IInv

\* The next hops that are to be written are next hops of routes of the dump.
LEMMA ListHopsOfDump ==
    ASSUME IInv, NEW i \in ListHops
    PROVE  \E r \in routes_cache : i \in r.hops /\ Cardinality(r.hops) > 1
<1>1. PICK e \in Entries : i \in e.hops /\ Cardinality(e.route.hops) > 1
    BY DEF ListHops
<1>2. PICK k \in DOMAIN ribs, d \in Dest : \E n \in 1..Len(ribs[k][d]) : e = ribs[k][d][n]
    BY <1>1 DEF Entries
<1>3. EntryOK(e)
    BY <1>2, ListTyped
<1>4. QED  BY <1>1, <1>3 DEF EntryOK

LEMMA ReportInv == IInv /\ Report => IInv'
<1> SUFFICES ASSUME IInv, Report PROVE IInv'
    OBVIOUS
<1> USE DEF Request, kernelVars, caches, tmp
<1>0. refused' \in 0..MaxRefusal
    BY DEF IInv, TypeInv, Report
<1>1. CASE step' = "reported" /\ UNCHANGED <<caches, ribs, todo, tmp>>
    <2>1. UNCHANGED <<kernelVars, external, linkGone, refused>> /\ step = "report"
        BY <1>1 DEF Report
    <2>2. RibsInv'
        BY <1>1, <2>1, RibsKept
    <2>3. TypeInv' /\ TmpInv' /\ DumpInv' /\ CrashExplained'
        BY <1>1, <2>1 DEF IInv, TypeInv, KernelOK, TmpInv, DumpInv, CrashExplained
    <2>4. QED  BY <2>2, <2>3 DEF IInv
<1>2. CASE Answer("failed")
    BY <1>0, <1>2, AnswerInv DEF Report
<1>3. CASE ~(ListHops \subseteq link_cache) /\ Answer("crashed")
    <2>1. PICK i \in ListHops : i \notin link_cache
        BY <1>3
    <2>2. linkGone
        BY <2>1, ListHopsOfDump DEF IInv, DumpInv, Report
    <2>3. QED  BY <1>0, <1>3, <2>2, AnswerInv DEF Report
<1>4. QED  BY <1>1, <1>2, <1>3 DEF Report, Crash

LEMMA EnvironmentInv == IInv /\ Environment => IInv'
<1> SUFFICES ASSUME IInv, Environment PROVE IInv'
    OBVIOUS
<1>1. PICK l, f : /\ KernelChanges(l, f) /\ f \subseteq RouteSet
                  /\ \/ l = link /\ UNCHANGED <<lastIndex, linkGone>>
                     \/ /\ lastIndex < MaxIfindex /\ lastIndex' = lastIndex + 1
                        /\ l = link \cup {lastIndex'} /\ UNCHANGED linkGone
                     \/ l \subseteq link /\ linkGone' = TRUE /\ UNCHANGED lastIndex
    <2>1. fib \subseteq RouteSet
        BY DEF IInv, TypeInv
    <2>2. CASE RouteAdded
        <3>1. PICK r \in RouteSet \ fib :
                 KernelChanges(link, fib \cup {r}) /\ UNCHANGED <<lastIndex, linkGone>>
            BY <2>2 DEF RouteAdded
        <3>2. QED  BY <2>1, <3>1
    <2>3. CASE RouteDeleted
        BY <2>1, <2>3 DEF RouteDeleted
    <2>4. CASE LinkCreated
        BY <2>1, <2>4 DEF LinkCreated
    <2>5. CASE LinkDeleted
        BY <2>1, <2>5 DEF LinkDeleted
    <2>6. QED  BY <2>2, <2>3, <2>4, <2>5 DEF Environment
<1>2. /\ step \in {"links", "ribs", "routes", "report"}
      /\ link' = l /\ fib' = {r \in f : r.hops \subseteq l}
      /\ UNCHANGED <<step, routes_cache, link_cache, ribs, todo, cur, left, got, refused>>
      /\ external' \in 0..MaxExternal
    BY <1>1, RibsAssumption
    DEF KernelChanges, KernelBecomes, caches, tmp, IInv, TypeInv
<1>3. linkGone' \in BOOLEAN /\ (~linkGone' => ~linkGone /\ link \subseteq link')
    <2>1. linkGone \in BOOLEAN
        BY DEF IInv, TypeInv
    <2>2. CASE UNCHANGED linkGone /\ link \subseteq l
        BY <1>2, <2>1, <2>2
    <2>3. CASE linkGone' = TRUE
        BY <2>3
    <2>4. QED  BY <1>1, <2>2, <2>3
<1>4. lastIndex' \in 1..MaxIfindex /\ link' \subseteq 1..lastIndex'
    <2>1. MaxIfindex \in Nat /\ lastIndex \in 1..MaxIfindex /\ link \subseteq 1..lastIndex
        BY RibsAssumption DEF IInv, TypeInv
    <2>2. CASE l \subseteq link /\ UNCHANGED lastIndex
        BY <1>2, <2>1, <2>2
    <2>3. CASE /\ lastIndex < MaxIfindex /\ lastIndex' = lastIndex + 1
               /\ l = link \cup {lastIndex'}
        <3>1. lastIndex' \in 1..MaxIfindex
            BY <2>1, <2>3
        <3>2. 1..lastIndex \subseteq 1..lastIndex' /\ lastIndex' \in 1..lastIndex'
            BY <2>1, <2>3
        <3>3. QED  BY <1>2, <2>1, <2>3, <3>1, <3>2
    <2>4. QED  BY <1>1, <2>2, <2>3
<1>5. TypeInv'
    BY <1>1, <1>2, <1>3, <1>4 DEF IInv, TypeInv, KernelOK
<1>6. RibsInv'
    BY <1>2, RibsKept
<1>7. TmpInv' /\ CrashExplained'
    BY <1>2 DEF IInv, TmpInv, CrashExplained
<1>8. DumpInv'
    BY <1>2, <1>3 DEF IInv, DumpInv
<1>9. QED  BY <1>5, <1>6, <1>7, <1>8 DEF IInv

LEMMA StutterInv == IInv /\ UNCHANGED vars => IInv'
<1> SUFFICES ASSUME IInv, UNCHANGED vars PROVE IInv'
    OBVIOUS
<1> USE DEF vars, kernelVars, caches, tmp
<1>1. RibsInv'
    BY RibsKept
<1>2. TypeInv' /\ TmpInv' /\ DumpInv' /\ CrashExplained'
    BY DEF IInv, TypeInv, KernelOK, TmpInv, DumpInv, CrashExplained
<1>3. QED  BY <1>1, <1>2 DEF IInv

LEMMA NextInv == IInv /\ [Next]_vars => IInv'
<1> SUFFICES ASSUME IInv, [Next]_vars PROVE IInv'
    OBVIOUS
<1>1. CASE DumpRoutes
    BY <1>1, DumpRoutesInv
<1>2. CASE DumpLinks
    BY <1>2, DumpLinksInv
<1>3. CASE RequestRefused
    <2>1. refused' \in 0..MaxRefusal
        BY <1>3, RibsAssumption DEF RequestRefused, Refuse, IInv, TypeInv
    <2>2. QED  BY <1>3, <2>1, AnswerInv DEF RequestRefused, Request
<1>4. CASE routing_collect_ribs
    BY <1>4, CollectRibsInv
<1>5. CASE \E r \in RouteSet : CollectRoute(r)
    BY <1>5, CollectRouteInv
<1>6. CASE \E i \in Ifindex : foreach_nexthop(i)
    BY <1>6, NexthopInv
<1>7. CASE AddRoute \/ SelectActive \/ Report
    BY <1>7, AddRouteInv, SelectActiveInv, ReportInv
<1>8. CASE NextRequest
    BY <1>8, AnswerInv DEF NextRequest, Request, IInv, TypeInv
<1>9. CASE Environment
    BY <1>9, EnvironmentInv
<1>10. CASE UNCHANGED vars
    BY <1>10, StutterInv
<1>11. QED
    BY <1>1, <1>2, <1>3, <1>4, <1>5, <1>6, <1>7, <1>8, <1>9, <1>10 DEF Next, GetterStep

-----------------------------------------------------------------------------
(* The theorems                                                            *)

\* The inductive invariant holds in every state of the getter.
THEOREM Invariance == Spec => []IInv
    BY InitInv, NextInv, PTL DEF Spec

\* Every variable keeps its type, tmp_route is empty between two routes, and
\* no list is left over from an earlier request.
THEOREM TypeCorrect == Spec => []TypeOK
<1>1. ASSUME IInv, NEW e \in Entries
      PROVE  e.route \in RouteSet /\ e.hops \subseteq Ifindex /\ e.active \in BOOLEAN
    <2>1. PICK k \in DOMAIN ribs, d \in Dest : \E n \in 1..Len(ribs[k][d]) : e = ribs[k][d][n]
        BY <1>1 DEF Entries
    <2>2. e \in EntryType
        BY <1>1, <2>1, ListTyped
    <2>3. QED  BY <2>2 DEF EntryType
<1>2. IInv => TypeOK
    <2> SUFFICES ASSUME IInv PROVE TypeOK
        OBVIOUS
    <2>1. cur \in RouteSet \cup {NoRoute} /\ (cur = NoRoute => left = {} /\ got = {})
        BY DEF IInv, TypeInv, TmpInv
    <2>2. step \notin {"routes", "report", "reported"} => ribs = NoRibs /\ cur = NoRoute
        BY DEF IInv, RibsInv, TmpInv
    <2>3. \A e \in Entries : e.route \in RouteSet /\ e.hops \subseteq Ifindex /\ e.active \in BOOLEAN
        BY <1>1
    <2>4. QED  BY <2>1, <2>2, <2>3 DEF IInv, TypeInv, RibsInv, TypeOK
<1>3. QED  BY <1>2, Invariance, PTL

\* The plugin crashes over a missing link only when a link was deleted during
\* the request, however many routes, links and changes there are.
THEOREM CrashesExplained == Spec => []CrashExplained
    BY Invariance, PTL DEF IInv

\* Without a refused dump every route is collected with exactly its own next
\* hops, whatever the kernel does in between.
THEOREM NextHopsCollected == Spec => []NextHopsComplete
<1>1. ASSUME IInv, refused = 0, NEW e \in Entries
      PROVE  e.hops = IF e.route.special THEN {} ELSE e.route.hops
    <2>1. PICK k \in DOMAIN ribs, d \in Dest : \E n \in 1..Len(ribs[k][d]) : e = ribs[k][d][n]
        BY <1>1 DEF Entries
    <2>2. EntryOK(e)
        BY <1>1, <2>1, ListTyped
    <2>3. QED  BY <1>1, <2>2 DEF EntryOK, Wanted
<1>2. IInv => NextHopsComplete
    BY <1>1 DEF NextHopsComplete
<1>3. QED  BY <1>2, Invariance, PTL

\* A request fails only if a call was refused or the dump has a route with
\* several next hops; the RIB of a route is never missing.
THEOREM FailuresExplained == Spec => RequestFailureExplained
<1>1. ASSUME IInv, [Next]_vars, step' = "failed", step # "failed", refused' = 0
      PROVE  \E r \in routes_cache : Cardinality(r.hops) > 1
    <2>1. CASE Report
        <3>1. ListHops # {}
            BY <1>1, <2>1 DEF Report, Crash, Answer
        <3>2. QED  BY <1>1, <3>1, ListHopsOfDump
    <2>2. CASE RequestRefused
        <3>1. refused \in Nat /\ refused' = refused + 1
            BY <1>1, <2>2, RibsAssumption DEF RequestRefused, Refuse, IInv, TypeInv
        <3>2. QED  BY <1>1, <3>1
    <2>3. CASE \E r \in RouteSet : CollectRoute(r)
        <3>1. PICK r \in RouteSet : CollectRoute(r)
            BY <2>3
        <3>2. step = "routes" /\ RibOf(r) \in DOMAIN ribs
            BY <1>1, <3>1 DEF CollectRoute, IInv, TypeInv, RibsInv
        <3>3. ~(\A k \in DOMAIN ribs : ~SameRib(k, r))
            BY <3>2 DEF SameRib
        <3>4. QED  BY <1>1, <3>1, <3>2, <3>3 DEF CollectRoute, Crash, Answer
    <2>4. CASE \E i \in Ifindex : foreach_nexthop(i)
        <3>1. PICK i \in Ifindex : foreach_nexthop(i)
            BY <2>4
        <3>2. step' \in {step, "crashed"}
            BY <3>1 DEF foreach_nexthop, Crash, Answer
        <3>3. QED  BY <1>1, <3>2
    <2>5. CASE DumpRoutes \/ DumpLinks \/ routing_collect_ribs \/ SelectActive
        BY <1>1, <2>5 DEF DumpRoutes, DumpLinks, routing_collect_ribs, SelectActive
    <2>6. CASE AddRoute
        BY <1>1, <2>6 DEF AddRoute
    <2>7. CASE NextRequest
        BY <1>1, <2>7 DEF NextRequest, Answer
    <2>8. CASE Environment
        BY <1>1, <2>8 DEF Environment, RouteAdded, RouteDeleted, LinkCreated, LinkDeleted,
                          KernelChanges, KernelBecomes
    <2>9. CASE UNCHANGED vars
        BY <1>1, <2>9 DEF vars
    <2>10. QED
        BY <1>1, <2>1, <2>2, <2>3, <2>4, <2>5, <2>6, <2>7, <2>8, <2>9 DEF Next, GetterStep
<1>2. IInv /\ [Next]_vars =>
        [step' = "failed" /\ step # "failed" /\ refused' = 0 =>
            \E r \in routes_cache : Cardinality(r.hops) > 1]_vars
    BY <1>1
<1>3. QED  BY <1>2, Invariance, PTL DEF Spec, RequestFailureExplained

-----------------------------------------------------------------------------
(* The lists that are collected                                            *)

InList(r) ==
    \E n \in 1..Len(ribs[RibOf(r)][r.dest]) : ribs[RibOf(r)][r.dest][n].route = r

\* The entry at a position is in the list of its route, is the only one of
\* that route, and the route is not to be collected any more.
PositionOK(k, d, n) ==
    LET r == ribs[k][d][n].route
    IN  /\ RibOf(r) = k /\ r.dest = d
        /\ r \notin todo /\ r # cur
        /\ \A m \in 1..Len(ribs[k][d]) : ribs[k][d][m].route = r => m = n

\* Each route of the dump is at one of three places: to be collected, in
\* tmp_route, or in the lists, and there once.
PlaceInv ==
    /\ \A k \in DOMAIN ribs, d \in Dest : \A n \in 1..Len(ribs[k][d]) : PositionOK(k, d, n)
    /\ cur \notin todo
    /\ step \in {"routes", "report", "reported"} =>
          \A r \in routes_cache : r \in todo \/ r = cur \/ InList(r)
    /\ step \in {"report", "reported"} => todo = {} /\ cur = NoRoute

\* Once marked, the preferred entries are the active ones.
ActiveInv ==
    step \in {"report", "reported"} =>
        \A k \in DOMAIN ribs, d \in Dest : \A n \in 1..Len(ribs[k][d]) :
            ribs[k][d][n].active <=> Preferred(ribs[k][d], n)

JInv == IInv /\ PlaceInv /\ ActiveInv

-----------------------------------------------------------------------------
(* What the steps do to the lists                                          *)

LEMMA RouteIsNotNoRoute == IInv => NoRoute \notin todo /\ NoRoute \notin routes_cache
    BY RouteFields DEF IInv, TypeInv

LEMMA InitJ == Init => JInv
<1> SUFFICES ASSUME Init PROVE JInv
    OBVIOUS
<1>1. IInv
    BY InitInv
<1>2. PlaceInv /\ ActiveInv
    BY NoRibsTyped DEF Init, PlaceInv, ActiveInv
<1>3. QED  BY <1>1, <1>2 DEF JInv

\* While there are no lists, there is nothing to be in its place.
LEMMA NoListsJ ==
    ASSUME IInv', ribs' = NoRibs, step' \notin {"routes", "report", "reported"}
    PROVE  PlaceInv' /\ ActiveInv'
<1>1. cur' = NoRoute /\ NoRoute \notin todo'
    <2>1. cur' = NoRoute
        BY DEF IInv, TmpInv
    <2>2. todo' \subseteq RouteSet
        BY DEF IInv, TypeInv
    <2>3. QED  BY <2>1, <2>2, RouteFields
<1>2. DOMAIN ribs' = {}
    BY NoRibsTyped DEF NoRibs
<1>3. QED  BY <1>1, <1>2 DEF PlaceInv, ActiveInv

\* A step that leaves the lists and what is to be collected alone.
LEMMA KeptJ ==
    ASSUME JInv, ribs' = ribs, routes_cache' = routes_cache, todo' = todo, cur' = cur,
           step' = step \/ (step = "report" /\ step' = "reported")
    PROVE  PlaceInv' /\ ActiveInv'
    BY DEF JInv, PlaceInv, ActiveInv, PositionOK, InList, Preferred

LEMMA CollectRibsJ ==
    ASSUME JInv, routing_collect_ribs
    PROVE  PlaceInv' /\ ActiveInv'
<1>1. /\ step' = "routes" /\ todo' = routes_cache /\ routes_cache' = routes_cache
      /\ ribs' = [k \in {RibOf(r) : r \in routes_cache} |-> NoRoutes] /\ cur' = cur
      /\ cur = NoRoute
    BY DEF routing_collect_ribs, caches, tmp, JInv, IInv, TmpInv
<1>2. \A k \in DOMAIN ribs', d \in Dest : Len(ribs'[k][d]) = 0
    BY <1>1 DEF NoRoutes
<1>3. cur' \notin todo'
    BY <1>1, RouteIsNotNoRoute DEF JInv
<1>4. \A k \in DOMAIN ribs', d \in Dest : \A n \in 1..Len(ribs'[k][d]) : FALSE
    BY <1>2
<1>5. \A r \in routes_cache' : r \in todo'
    BY <1>1
<1>6. QED  BY <1>1, <1>3, <1>4, <1>5 DEF PlaceInv, ActiveInv

LEMMA CollectRouteJ ==
    ASSUME JInv, IInv', NEW r \in RouteSet, CollectRoute(r)
    PROVE  PlaceInv' /\ ActiveInv'
<1>1. CASE Answer("failed") \/ Answer("crashed")
    BY <1>1, NoListsJ DEF Answer
<1>2. CASE ~(Answer("failed") \/ Answer("crashed"))
    <2>1. /\ step = "routes" /\ cur = NoRoute /\ r \in todo
          /\ cur' = r /\ todo' = todo \ {r}
          /\ UNCHANGED <<step, routes_cache, ribs>>
        BY <1>2 DEF CollectRoute, Crash, caches
    <2>2. \A k \in DOMAIN ribs, d \in Dest : \A n \in 1..Len(ribs[k][d]) : PositionOK(k, d, n)'
        BY <2>1 DEF JInv, PlaceInv, PositionOK
    <2>3. \A q \in routes_cache : q \in todo' \/ q = cur' \/ InList(q)'
        <3>1. \A q \in routes_cache : q # NoRoute
            BY RouteIsNotNoRoute DEF JInv
        <3>2. QED  BY <2>1, <3>1 DEF JInv, PlaceInv, InList
    <2>4. QED  BY <2>1, <2>2, <2>3 DEF PlaceInv, ActiveInv
<1>3. QED  BY <1>1, <1>2

LEMMA NexthopJ ==
    ASSUME JInv, IInv', NEW i \in Ifindex, foreach_nexthop(i)
    PROVE  PlaceInv' /\ ActiveInv'
<1>1. CASE Answer("crashed")
    BY <1>1, NoListsJ DEF Answer
<1>2. CASE ~Answer("crashed")
    <2>1. UNCHANGED <<ribs, routes_cache, todo, cur>> /\ step' = step
        BY <1>2 DEF foreach_nexthop, Crash, caches
    <2>2. QED  BY <2>1, KeptJ
<1>3. QED  BY <1>1, <1>2

\* The list with the new entry in front.
LEMMA Prefixed ==
    ASSUME NEW s \in Seq(EntryType), NEW e \in EntryType
    PROVE  LET t == <<e>> \o s
           IN  /\ t \in Seq(EntryType) /\ Len(t) = 1 + Len(s) /\ t[1] = e
               /\ \A n \in 1..Len(t) : n # 1 => n - 1 \in 1..Len(s) /\ t[n] = s[n - 1]
               /\ \A n \in 1..Len(s) : n + 1 \in 1..Len(t) /\ t[n + 1] = s[n]
<1>1. <<e>> \in Seq(EntryType) /\ Len(<<e>>) = 1 /\ <<e>>[1] = e
    OBVIOUS
<1> DEFINE t == <<e>> \o s
<1>2. t \in Seq(EntryType) /\ Len(t) = 1 + Len(s) /\ t[1] = e
    BY <1>1
<1>3. \A n \in 1..Len(t) : n # 1 => n - 1 \in 1..Len(s) /\ t[n] = s[n - 1]
    BY <1>1, <1>2
<1>4. \A n \in 1..Len(s) : n + 1 \in 1..Len(t) /\ t[n + 1] = s[n]
    BY <1>1, <1>2
<1>5. QED  BY <1>2, <1>3, <1>4

LEMMA AddRouteJ ==
    ASSUME JInv, IInv', AddRoute
    PROVE  PlaceInv' /\ ActiveInv'
<1> DEFINE key == RibOf(cur)
           s == ribs[key][cur.dest]
           t == <<Entry>> \o s
<1>1. /\ cur # NoRoute /\ left = {} /\ cur' = NoRoute
      /\ UNCHANGED <<step, routes_cache, todo>>
    BY DEF AddRoute, caches
<1>2. step = "routes" /\ cur \in routes_cache /\ cur.dest \in Dest /\ key \in DOMAIN ribs
    BY <1>1, RouteFields DEF JInv, IInv, TypeInv, TmpInv, RibsInv, Route
<1>3. (CHOOSE x \in DOMAIN ribs : SameRib(x, cur)) = key
    BY <1>2 DEF SameRib
<1>4. ribs' = [ribs EXCEPT ![key][cur.dest] = t]
    BY <1>3 DEF AddRoute, route_list_hash_add
<1>5. Entry \in EntryType /\ Entry.route = cur
    BY <1>1, EntryTyped DEF JInv, Entry
<1>6. s \in Seq(EntryType)
    BY <1>2, ListTyped DEF JInv
<1>7. /\ Len(t) = 1 + Len(s) /\ t[1] = Entry /\ Len(s) \in Nat
      /\ \A n \in 1..Len(t) : n # 1 => n - 1 \in 1..Len(s) /\ t[n] = s[n - 1]
      /\ \A n \in 1..Len(s) : n + 1 \in 1..Len(t) /\ t[n + 1] = s[n]
    BY <1>5, <1>6, Prefixed
<1>8. /\ DOMAIN ribs' = DOMAIN ribs
      /\ \A k \in DOMAIN ribs, d \in Dest :
            ribs'[k][d] = IF k = key /\ d = cur.dest THEN t ELSE ribs[k][d]
    <2>1. ribs \in [DOMAIN ribs -> [Dest -> Seq(EntryType)]]
        BY DEF JInv, IInv, RibsInv
    <2> HIDE DEF key, t
    <2>2. QED  BY <1>2, <1>4, <2>1
<1>9. \A n \in 1..Len(s) : /\ RibOf(s[n].route) = key /\ s[n].route.dest = cur.dest
                           /\ s[n].route \notin todo /\ s[n].route # cur
                           /\ \A m \in 1..Len(s) : s[m].route = s[n].route => m = n
    BY <1>2 DEF JInv, PlaceInv, PositionOK
<1> HIDE DEF key, s, t
<1>10. cur \notin todo /\ NoRoute \notin routes_cache /\ NoRoute \notin todo
    BY RouteIsNotNoRoute DEF JInv, PlaceInv
<1>11. ASSUME NEW n \in 1..Len(t)
       PROVE  /\ RibOf(t[n].route) = key /\ t[n].route.dest = cur.dest
              /\ t[n].route \notin todo /\ t[n].route # NoRoute
              /\ \A m \in 1..Len(t) : t[m].route = t[n].route => m = n
    <2>1. CASE n = 1
        <3>1. t[n].route = cur
            BY <1>5, <1>7, <2>1
        <3>2. ASSUME NEW m \in 1..Len(t), t[m].route = cur, m # 1 PROVE FALSE
            BY <1>7, <1>9, <3>2
        <3>3. QED  BY <1>1, <1>10, <2>1, <3>1, <3>2 DEF key
    <2>2. CASE n # 1
        <3>1. n - 1 \in 1..Len(s) /\ t[n] = s[n - 1]
            BY <1>7, <2>2
        <3>2. t[n].route # cur /\ t[1].route = cur
            BY <1>5, <1>7, <1>9, <3>1
        <3>3. ASSUME NEW m \in 1..Len(t), t[m].route = t[n].route PROVE m = n
            <4>1. m # 1
                BY <3>2, <3>3
            <4>2. m - 1 \in 1..Len(s) /\ t[m] = s[m - 1]
                BY <1>7, <4>1
            <4>3. m - 1 = n - 1
                BY <1>9, <3>1, <3>3, <4>2
            <4>4. QED  BY <4>3
        <3>4. t[n].route # NoRoute
            <4>1. t[n] \in EntryType
                BY <1>6, <3>1
            <4>2. QED  BY <4>1, RouteFields DEF EntryType
        <3>5. QED  BY <1>9, <3>1, <3>3, <3>4
    <2>3. QED  BY <2>1, <2>2
<1>12. ASSUME NEW k \in DOMAIN ribs, NEW d \in Dest, NEW n \in 1..Len(ribs'[k][d])
       PROVE  PositionOK(k, d, n)'
    <2>1. CASE k = key /\ d = cur.dest
        <3>1. ribs'[k][d] = t
            BY <1>8, <2>1
        <3>2. QED  BY <1>1, <1>11, <2>1, <3>1 DEF PositionOK
    <2>2. CASE ~(k = key /\ d = cur.dest)
        <3>1. ribs'[k][d] = ribs[k][d]
            BY <1>8, <2>2
        <3>2. PositionOK(k, d, n) /\ n \in 1..Len(ribs[k][d])
            BY <3>1, <1>12 DEF JInv, PlaceInv
        <3>3. ribs[k][d][n].route # NoRoute
            <4>1. ribs[k][d][n] \in EntryType
                BY <3>2, ListTyped DEF JInv
            <4>2. QED  BY <4>1, RouteFields DEF EntryType
        <3>4. QED  BY <1>1, <3>1, <3>2, <3>3 DEF PositionOK
    <2>3. QED  BY <2>1, <2>2
<1>13. ASSUME NEW q \in routes_cache, q \notin todo PROVE InList(q)'
    <2>1. q.dest \in Dest /\ RibOf(q) \in DOMAIN ribs
        BY <1>2, RouteFields DEF JInv, IInv, TypeInv, RibsInv, Route
    <2>2. q = cur \/ InList(q)
        BY <1>2, <1>13 DEF JInv, PlaceInv
    <2>3. CASE RibOf(q) = key /\ q.dest = cur.dest
        <3>1. ribs'[RibOf(q)][q.dest] = t /\ ribs[RibOf(q)][q.dest] = s
            BY <1>8, <2>1, <2>3 DEF s
        <3>2. CASE q = cur
            <4>1. 1 \in 1..Len(t) /\ t[1].route = q
                BY <1>5, <1>7, <3>2
            <4>2. QED  BY <3>1, <4>1 DEF InList
        <3>3. CASE InList(q)
            <4>1. PICK n \in 1..Len(s) : s[n].route = q
                BY <3>1, <3>3 DEF InList
            <4>2. n + 1 \in 1..Len(t) /\ t[n + 1].route = q
                BY <1>7, <4>1
            <4>3. QED  BY <3>1, <4>2 DEF InList
        <3>4. QED  BY <2>2, <3>2, <3>3
    <2>4. CASE ~(RibOf(q) = key /\ q.dest = cur.dest)
        <3>1. ribs'[RibOf(q)][q.dest] = ribs[RibOf(q)][q.dest] /\ q # cur
            BY <1>8, <2>1, <2>4 DEF key
        <3>2. QED  BY <2>2, <3>1 DEF InList
    <2>5. QED  BY <2>3, <2>4
<1>14. PlaceInv'
    BY <1>1, <1>2, <1>8, <1>10, <1>12, <1>13 DEF PlaceInv
<1>15. ActiveInv'
    BY <1>1, <1>2 DEF ActiveInv
<1>16. QED  BY <1>14, <1>15

LEMMA SelectActiveJ ==
    ASSUME JInv, IInv', SelectActive
    PROVE  PlaceInv' /\ ActiveInv'
<1> DEFINE Mark(s, n) == [s[n] EXCEPT !.active = Preferred(s, n)]
           Marked(s) == [n \in 1..Len(s) |-> Mark(s, n)]
<1>1. /\ step = "routes" /\ todo = {} /\ cur = NoRoute /\ step' = "report"
      /\ ribs' = [k \in DOMAIN ribs |-> [d \in Dest |-> Marked(ribs[k][d])]]
      /\ UNCHANGED <<routes_cache, todo, cur>>
    BY DEF SelectActive, caches, tmp
<1>2. ASSUME NEW k \in DOMAIN ribs, NEW d \in Dest
      PROVE  /\ Len(ribs'[k][d]) = Len(ribs[k][d])
             /\ \A n \in 1..Len(ribs[k][d]) :
                   /\ ribs'[k][d][n].route = ribs[k][d][n].route
                   /\ ribs'[k][d][n].active = Preferred(ribs[k][d], n)
    <2> DEFINE s == ribs[k][d]
    <2>1. s \in Seq(EntryType) /\ Len(s) \in Nat /\ \A n \in 1..Len(s) : s[n] \in EntryType
        BY <1>2, ListTyped DEF JInv
    <2>2. ribs'[k][d] = Marked(s)
        BY <1>1, <1>2
    <2>3. \A n \in 1..Len(s) : Mark(s, n).route = s[n].route
                               /\ Mark(s, n).active = Preferred(s, n)
        BY <2>1 DEF EntryType
    <2> HIDE DEF Mark, s
    <2>4. Len(Marked(s)) = Len(s) /\ \A n \in 1..Len(s) : Marked(s)[n] = Mark(s, n)
        BY <2>1
    <2>5. QED  BY <2>2, <2>3, <2>4 DEF s
<1>3. DOMAIN ribs' = DOMAIN ribs
    BY <1>1
<1> HIDE DEF Marked
<1>4. ASSUME NEW k \in DOMAIN ribs, NEW d \in Dest, NEW n \in 1..Len(ribs[k][d])
      PROVE  PositionOK(k, d, n)' /\ (ribs'[k][d][n].active <=> Preferred(ribs'[k][d], n))
    <2>1. PositionOK(k, d, n)
        BY <1>4 DEF JInv, PlaceInv
    <2>2. PositionOK(k, d, n)'
        BY <1>1, <1>2, <1>4, <2>1 DEF PositionOK
    <2>3. Preferred(ribs'[k][d], n) <=> Preferred(ribs[k][d], n)
        <3>1. \A m \in 1..(n - 1) : m \in 1..Len(ribs[k][d])
            BY <1>4, ListTyped DEF JInv
        <3> DEFINE s == ribs[k][d]
                   t == ribs'[k][d]
        <3>2. Len(t) = Len(s) /\ \A m \in 1..Len(s) : t[m].route = s[m].route
            BY <1>2, <1>4
        <3> HIDE DEF s, t
        <3>3. Preferred(t, n) <=> Preferred(s, n)
            BY <1>4, <3>1, <3>2 DEF Preferred, s
        <3>4. QED  BY <3>3 DEF s, t
    <2>4. QED  BY <1>2, <1>4, <2>2, <2>3
<1>5. \A q \in routes_cache : InList(q) => InList(q)'
    <2>1. ASSUME NEW q \in routes_cache, InList(q) PROVE InList(q)'
        <3>1. q.dest \in Dest /\ RibOf(q) \in DOMAIN ribs
            BY <1>1, <2>1, RouteFields DEF JInv, IInv, TypeInv, RibsInv, Route
        <3>2. QED  BY <1>2, <2>1, <3>1 DEF InList
    <2>2. QED  BY <2>1
<1>6. \A q \in routes_cache : InList(q)
    BY <1>1, RouteIsNotNoRoute DEF JInv, PlaceInv
<1>7. cur' \notin todo'
    BY <1>1
<1>8. PlaceInv'
    BY <1>1, <1>2, <1>3, <1>4, <1>5, <1>6, <1>7 DEF PlaceInv
<1>9. ActiveInv'
    BY <1>1, <1>2, <1>3, <1>4 DEF ActiveInv
<1>10. QED  BY <1>8, <1>9

LEMMA NextJ == JInv /\ [Next]_vars => JInv'
<1> SUFFICES ASSUME JInv, [Next]_vars PROVE JInv'
    OBVIOUS
<1>0. IInv /\ IInv'
    BY NextInv DEF JInv
<1>1. CASE DumpRoutes \/ DumpLinks
    <2>1. ribs' = NoRibs /\ step' \in {"links", "ribs"}
        BY <1>0, <1>1 DEF DumpRoutes, DumpLinks, IInv, RibsInv
    <2>2. QED  BY <1>0, <2>1, NoListsJ DEF JInv
<1>2. CASE RequestRefused \/ NextRequest
    BY <1>0, <1>2, NoListsJ DEF RequestRefused, NextRequest, Answer, JInv
<1>3. CASE routing_collect_ribs
    BY <1>0, <1>3, CollectRibsJ DEF JInv
<1>4. CASE \E r \in RouteSet : CollectRoute(r)
    BY <1>0, <1>4, CollectRouteJ DEF JInv
<1>5. CASE \E i \in Ifindex : foreach_nexthop(i)
    BY <1>0, <1>5, NexthopJ DEF JInv
<1>6. CASE AddRoute \/ SelectActive
    BY <1>0, <1>6, AddRouteJ, SelectActiveJ DEF JInv
<1>7. CASE Report
    <2>1. CASE Answer("failed") \/ Answer("crashed")
        BY <1>0, <2>1, NoListsJ DEF Answer, JInv
    <2>2. CASE ~(Answer("failed") \/ Answer("crashed"))
        <3>1. /\ UNCHANGED <<ribs, routes_cache, todo, cur>>
              /\ step = "report" /\ step' = "reported"
            BY <1>7, <2>2 DEF Report, Crash, caches, tmp
        <3>2. QED  BY <1>0, <3>1, KeptJ DEF JInv
    <2>3. QED  BY <2>1, <2>2
<1>8. CASE Environment \/ UNCHANGED vars
    <2>1. UNCHANGED <<ribs, routes_cache, todo, cur, step>>
        BY <1>8 DEF Environment, RouteAdded, RouteDeleted, LinkCreated, LinkDeleted,
                    KernelChanges, KernelBecomes, vars, caches, tmp
    <2>2. QED  BY <1>0, <2>1, KeptJ DEF JInv
<1>9. QED
    BY <1>1, <1>2, <1>3, <1>4, <1>5, <1>6, <1>7, <1>8 DEF Next, GetterStep

LEMMA InvarianceJ == Spec => []JInv
    BY InitJ, NextJ, PTL DEF Spec

-----------------------------------------------------------------------------
(* One active route                                                        *)

\* A set of natural numbers has a least element: the intervals 0..t are
\* finite sets, and those are well-founded by inclusion.
LEMMA LeastNumber ==
    ASSUME NEW T, T \subseteq Nat, T # {}
    PROVE  \E x \in T : \A y \in T : x <= y
<1> DEFINE C == {0..t : t \in T}
           R == StrictSubsetOrdering(Nat)
<1>1. \A t \in T : 0..t \in FiniteSubsetsOf(Nat)
    <2> SUFFICES ASSUME NEW t \in T PROVE 0..t \in FiniteSubsetsOf(Nat)
        OBVIOUS
    <2>1. IsFiniteSet(0..t) /\ 0..t \subseteq Nat
        BY FS_Interval
    <2>2. QED  BY <2>1 DEF FiniteSubsetsOf
<1>2. C \subseteq FiniteSubsetsOf(Nat) /\ C # {}
    BY <1>1
<1>3. IsWellFoundedOn(R, FiniteSubsetsOf(Nat))
    BY FS_StrictSubsetOrderingWellFounded
<1> HIDE DEF R
<1>4. \E a \in C : \A b \in C : <<b, a>> \notin R
    <2> HIDE DEF C
    <2>1. QED  BY <1>2, <1>3, WFMin
<1>5. PICK x \in T : \A y \in T : <<0..y, 0..x>> \notin R
    BY <1>4
<1>6. ASSUME NEW y \in T, y < x PROVE FALSE
    <2>1. 0..y \subseteq 0..x /\ 0..y # 0..x
        <3>1. x \in 0..x /\ x \notin 0..y
            BY <1>6
        <3>2. QED  BY <1>6, <3>1
    <2>2. <<0..y, 0..x>> \in R
        BY <2>1 DEF R, StrictSubsetOrdering
    <2>3. QED  BY <1>5, <2>2
<1>7. QED  BY <1>5, <1>6

\* Of a list that is not empty exactly one entry is preferred: the first of
\* those with the least preference.
LEMMA PreferredOnce ==
    ASSUME NEW s \in Seq(EntryType), Len(s) \in Nat, s # <<>>,
           \A n \in 1..Len(s) : s[n].route.preference \in Nat
    PROVE  \E n \in 1..Len(s) :
              \A m \in 1..Len(s) : /\ Preferred(s, m) <=> m = n
                                   /\ s[n].route.preference <= s[m].route.preference
<1> DEFINE pref(n) == s[n].route.preference
           P == {pref(n) : n \in 1..Len(s)}
<1>1. 1 \in 1..Len(s)
    OBVIOUS
<1>2. P \subseteq Nat /\ P # {}
    BY <1>1
<1> HIDE DEF pref
<1>3. PICK p \in P : \A q \in P : p <= q
    <2> HIDE DEF P
    <2>1. QED  BY <1>2, LeastNumber
<1> DEFINE F == {n \in 1..Len(s) : pref(n) = p}
<1>4. F \subseteq Nat /\ F # {}
    BY <1>3
<1>5. PICK n \in F : \A m \in F : n <= m
    <2> HIDE DEF F
    <2>1. QED  BY <1>4, LeastNumber
<1>6. /\ n \in 1..Len(s) /\ pref(n) = p
      /\ \A m \in 1..Len(s) : /\ pref(m) \in Nat /\ pref(n) <= pref(m)
                              /\ m < n => pref(n) < pref(m)
    <2>1. \A m \in 1..Len(s) : pref(m) \in Nat /\ p <= pref(m)
        BY <1>3 DEF pref
    <2>2. \A m \in 1..Len(s) : m < n => pref(m) # p
        BY <1>5
    <2>3. QED  BY <1>5, <2>1, <2>2
<1>7. ASSUME NEW m \in 1..Len(s) PROVE Preferred(s, m) <=> m = n
    <2>1. ASSUME m = n PROVE Preferred(s, m)
        <3>1. \A j \in 1..(m - 1) : j \in 1..Len(s) /\ j < n
            BY <1>6, <2>1
        <3>2. QED  BY <1>6, <2>1, <3>1 DEF Preferred, pref
    <2>2. ASSUME Preferred(s, m) PROVE m = n
        <3>1. /\ \A j \in 1..Len(s) : pref(m) <= pref(j)
              /\ \A j \in 1..(m - 1) : pref(m) < pref(j)
            BY <2>2 DEF Preferred, pref
        <3>2. ~(n < m) /\ ~(m < n)
            <4>1. pref(m) \in Nat /\ pref(n) \in Nat /\ pref(m) <= pref(n) /\ pref(n) <= pref(m)
                BY <1>6, <3>1
            <4>2. n < m => pref(m) < pref(n)
                BY <1>6, <3>1
            <4>3. m < n => pref(n) < pref(m)
                BY <1>6
            <4>4. QED  BY <4>1, <4>2, <4>3
        <3>3. QED  BY <1>6, <3>2
    <2>3. QED  BY <2>1, <2>2
<1>8. QED  BY <1>6, <1>7 DEF pref

\* Every destination of every RIB that is reported has exactly one active
\* route, and no route to that destination is preferred to it.
THEOREM ActiveRouteUnique == Spec => []OneActive
<1>1. JInv => OneActive
    <2> SUFFICES ASSUME JInv, Collected, NEW k \in DOMAIN ribs, NEW d \in Dest, ribs[k][d] # <<>>
                 PROVE  \E n \in 1..Len(ribs[k][d]) : \A m \in 1..Len(ribs[k][d]) :
                            /\ ribs[k][d][m].active <=> m = n
                            /\ ribs[k][d][n].route.preference <= ribs[k][d][m].route.preference
        BY DEF OneActive
    <2> DEFINE s == ribs[k][d]
    <2>1. s \in Seq(EntryType) /\ Len(s) \in Nat /\ \A n \in 1..Len(s) : s[n] \in EntryType
        BY ListTyped DEF JInv
    <2>2. \A n \in 1..Len(s) : s[n].route.preference \in Nat
        BY <2>1, RouteFields DEF EntryType, Route
    <2>3. \A m \in 1..Len(s) : s[m].active <=> Preferred(s, m)
        BY DEF JInv, ActiveInv, Collected
    <2>4. s # <<>>
        OBVIOUS
    <2> HIDE DEF s
    <2>5. PICK n \in 1..Len(s) :
              \A m \in 1..Len(s) : /\ Preferred(s, m) <=> m = n
                                   /\ s[n].route.preference <= s[m].route.preference
        BY <2>1, <2>2, <2>4, PreferredOnce
    <2>6. \A m \in 1..Len(s) : /\ s[m].active <=> m = n
                               /\ s[n].route.preference <= s[m].route.preference
        BY <2>3, <2>5
    <2>7. QED  BY <2>6 DEF s
<1>2. QED  BY <1>1, InvarianceJ, PTL

-----------------------------------------------------------------------------
(* The refinement                                                          *)

LEMMA InitService == Init => Service!Init
<1> SUFFICES ASSUME Init PROVE Service!Init
    OBVIOUS
<1>1. fib \subseteq RouteSet
    BY DEF Init
<1>2. Status = "idle" /\ Reported = {}
    BY DEF Init, Status, Reported
<1>3. QED  BY <1>1, <1>2 DEF Init, Service!Init

\* What is reported, entry by entry.
LEMMA ReportedIs ==
    ASSUME step = "reported"
    PROVE  \A e : e \in Reported <=>
                \E k \in DOMAIN ribs, d \in Dest : \E n \in 1..Len(ribs[k][d]) : e = Position(k, d, n)
<1> DEFINE Of(k, d) == {Position(k, d, n) : n \in 1..Len(ribs[k][d])}
<1>1. Reported = UNION {Of(k, d) : k \in DOMAIN ribs, d \in Dest}
    BY DEF Reported
<1>2. \A k, d, e : e \in Of(k, d) <=> \E n \in 1..Len(ribs[k][d]) : e = Position(k, d, n)
    OBVIOUS
<1> HIDE DEF Of
<1>3. \A e : e \in Reported <=> \E k \in DOMAIN ribs, d \in Dest : e \in Of(k, d)
    BY <1>1
<1>4. QED  BY <1>2, <1>3

\* The lists hold the answer the service owes.
LEMMA ListsAnswer == JInv /\ step = "reported" => Service!Answers(Reported, routes_cache)
<1> SUFFICES ASSUME JInv, step = "reported"
             PROVE  Service!Answers(Reported, routes_cache)
    OBVIOUS
<1>1. ASSUME NEW k \in DOMAIN ribs, NEW d \in Dest, NEW n \in 1..Len(ribs[k][d])
      PROVE  LET e == Position(k, d, n)
             IN  /\ e.route = ribs[k][d][n].route /\ e.position = n
                 /\ e.route \in routes_cache /\ e.hops \subseteq e.route.hops
                 /\ RibOf(e.route) = k /\ e.route.dest = d
                 /\ e.list = Service!ListOf(e.route)
                 /\ e.list.table = k[1] /\ e.list.family = k[2] /\ e.list.dest = d
    <2>1. ribs[k][d][n] \in EntryType /\ EntryOK(ribs[k][d][n])
        BY ListTyped DEF JInv
    <2>2. PositionOK(k, d, n)
        BY DEF JInv, PlaceInv
    <2>3. k = <<ribs[k][d][n].route.table, Family(d)>> /\ ribs[k][d][n].route.dest = d
        BY <2>2 DEF PositionOK, RibOf
    <2>4. QED  BY <2>1, <2>2, <2>3 DEF Position, EntryOK, PositionOK, Service!ListOf, Family
<1>2. ASSUME NEW e \in Reported
      PROVE  \E k \in DOMAIN ribs, d \in Dest : \E n \in 1..Len(ribs[k][d]) : e = Position(k, d, n)
    BY ReportedIs
<1>3. {e.route : e \in Reported} = routes_cache
    <2>1. ASSUME NEW e \in Reported PROVE e.route \in routes_cache
        BY <1>1, <1>2
    <2>2. ASSUME NEW r \in routes_cache PROVE \E e \in Reported : e.route = r
        <3>1. r.dest \in Dest /\ RibOf(r) \in DOMAIN ribs
            BY RouteFields DEF JInv, IInv, TypeInv, RibsInv, Route
        <3>2. PICK n \in 1..Len(ribs[RibOf(r)][r.dest]) : ribs[RibOf(r)][r.dest][n].route = r
            BY RouteIsNotNoRoute DEF JInv, PlaceInv, InList
        <3>3. Position(RibOf(r), r.dest, n) \in Reported
            BY <3>1, ReportedIs
        <3>4. QED  BY <1>1, <3>1, <3>2, <3>3
    <2>3. QED  BY <2>1, <2>2
<1>4. ASSUME NEW e \in Reported, NEW f \in Reported,
             e.route = f.route \/ (e.list = f.list /\ e.position = f.position)
      PROVE  e = f
    <2>1. PICK k \in DOMAIN ribs, d \in Dest : \E n \in 1..Len(ribs[k][d]) : e = Position(k, d, n)
        BY <1>2
    <2>2. PICK n \in 1..Len(ribs[k][d]) : e = Position(k, d, n)
        BY <2>1
    <2>3. PICK j \in DOMAIN ribs, c \in Dest : \E m \in 1..Len(ribs[j][c]) : f = Position(j, c, m)
        BY <1>2
    <2>4. PICK m \in 1..Len(ribs[j][c]) : f = Position(j, c, m)
        BY <2>3
    <2>5. CASE e.route = f.route
        <3>1. j = k /\ c = d
            BY <1>1, <2>2, <2>4, <2>5
        <3>2. m = n
            BY <1>1, <2>2, <2>4, <2>5, <3>1 DEF JInv, PlaceInv, PositionOK
        <3>3. QED  BY <2>2, <2>4, <3>1, <3>2
    <2>6. CASE e.list = f.list /\ e.position = f.position
        <3>1. k[1] = j[1] /\ k[2] = j[2] /\ d = c /\ n = m
            BY <1>1, <2>2, <2>4, <2>6
        <3>2. k = j
            <4>1. k \in Table \X {"ipv4", "ipv6"} /\ j \in Table \X {"ipv4", "ipv6"}
                BY DEF JInv, IInv, RibsInv, RibKey
            <4>2. k = <<k[1], k[2]>> /\ j = <<j[1], j[2]>>
                BY <4>1
            <4>3. QED  BY <3>1, <4>2
        <3>3. QED  BY <2>2, <2>4, <3>1, <3>2
    <2>7. QED  BY <1>4, <2>5, <2>6
<1>5. \A e \in Reported : e.list = Service!ListOf(e.route) /\ e.hops \subseteq e.route.hops
    BY <1>1, <1>2
<1>6. \A e, f \in Reported : e.route = f.route => e = f
    BY <1>4
<1>7. \A e, f \in Reported : e.list = f.list /\ e.position = f.position => e = f
    BY <1>4
<1> HIDE DEF Reported
<1>8. QED  BY <1>3, <1>5, <1>6, <1>7 DEF Service!Answers

LEMMA EndStep ==
    ASSUME Answer("failed") \/ Answer("crashed"), Status = "running", fib' = fib
    PROVE  Service!End
<1>1. step' \in {"failed", "crashed"} /\ routes_cache' = {}
    BY DEF Answer
<1>2. Status' = "ended" /\ Reported' = {}
    BY <1>1 DEF Status, Reported
<1>3. QED  BY <1>1, <1>2 DEF Service!End

\* A step within the request, and one of the links only, is invisible.
LEMMA StutterStep ==
    ASSUME fib' = fib, routes_cache' = routes_cache, Status' = Status,
           step # "reported", step' # "reported"
    PROVE  UNCHANGED Service!vars
    BY DEF Reported, Service!vars

LEMMA NextService == JInv /\ JInv' /\ [Next]_vars => [Service!Next]_(Service!vars)
<1> SUFFICES ASSUME JInv, JInv', [Next]_vars PROVE Service!Next \/ UNCHANGED Service!vars
    OBVIOUS
<1> DEFINE Inside == {"links", "ribs", "routes", "report"}
<1>0. /\ step \in Inside => Status = "running"
      /\ step' \in Inside => Status' = "running"
    BY DEF Status
<1>1. CASE DumpRoutes
    <2>1. Status = "idle" /\ Status' = "running" /\ Reported = {} /\ Reported' = {}
        BY <1>1 DEF DumpRoutes, Status, Reported
    <2>2. QED  BY <1>1, <2>1 DEF DumpRoutes, kernelVars, Service!Begin, Service!Next
<1>2. CASE RequestRefused
    BY <1>0, <1>2, EndStep DEF RequestRefused, Request, kernelVars, Service!Next
<1>3. CASE DumpLinks \/ routing_collect_ribs \/ AddRoute \/ SelectActive
    <2>1. step \in Inside /\ step' \in Inside
        BY <1>3 DEF DumpLinks, routing_collect_ribs, AddRoute, SelectActive, JInv, IInv, TmpInv
    <2>2. fib' = fib /\ routes_cache' = routes_cache
        BY <1>3 DEF DumpLinks, routing_collect_ribs, AddRoute, SelectActive, Request, kernelVars, caches
    <2>3. QED  BY <1>0, <2>1, <2>2, StutterStep
<1>4. CASE \E r \in RouteSet : CollectRoute(r)
    <2> PICK r \in RouteSet : CollectRoute(r)
        BY <1>4
    <2>1. step \in Inside /\ fib' = fib
        BY DEF CollectRoute, Request, kernelVars
    <2>2. \/ Answer("failed") \/ Answer("crashed")
          \/ step' = step /\ routes_cache' = routes_cache
        BY DEF CollectRoute, Crash, caches
    <2>3. QED  BY <1>0, <2>1, <2>2, EndStep, StutterStep DEF Service!Next
<1>5. CASE \E i \in Ifindex : foreach_nexthop(i)
    <2> PICK i \in Ifindex : foreach_nexthop(i)
        BY <1>5
    <2>1. step \in Inside /\ fib' = fib
        BY DEF foreach_nexthop, Request, kernelVars, JInv, IInv, TmpInv
    <2>2. Answer("crashed") \/ (step' = step /\ routes_cache' = routes_cache)
        BY DEF foreach_nexthop, Crash, caches
    <2>3. QED  BY <1>0, <2>1, <2>2, EndStep, StutterStep DEF Service!Next
<1>6. CASE Report
    <2>1. step = "report" /\ fib' = fib /\ Status = "running"
        BY <1>0, <1>6 DEF Report, Request, kernelVars
    <2>2. CASE Answer("failed") \/ Answer("crashed")
        BY <2>1, <2>2, EndStep DEF Service!Next
    <2>3. CASE step' = "reported" /\ UNCHANGED <<caches, ribs, todo, tmp>>
        <3>1. routes_cache' = routes_cache
            BY <2>3 DEF caches
        <3>2. Status' = "answered"
            BY <2>3 DEF Status
        <3>3. Service!Answers(Reported, routes_cache)'
            <4>1. (JInv /\ step = "reported" => Service!Answers(Reported, routes_cache))'
                BY ListsAnswer, PTL
            <4>2. QED  BY <2>3, <4>1
        <3>4. QED  BY <2>1, <3>1, <3>2, <3>3 DEF Service!Answer, Service!Answers, Service!ListOf, Service!Next
    <2>4. QED  BY <1>6, <2>2, <2>3 DEF Report, Crash
<1>7. CASE NextRequest
    <2>1. Status \in {"answered", "ended"} /\ fib' = fib /\ step' = "idle" /\ routes_cache' = {}
        BY <1>7 DEF NextRequest, Answer, Request, kernelVars, Status
    <2>2. Status' = "idle" /\ Reported' = {}
        BY <2>1 DEF Status, Reported
    <2>3. QED  BY <2>1, <2>2 DEF Service!Close, Service!Next
<1>8. CASE Environment
    <2>1. step' = step /\ step # "reported" /\ routes_cache' = routes_cache
        BY <1>8 DEF Environment, RouteAdded, RouteDeleted, LinkCreated, LinkDeleted,
                    KernelChanges, KernelBecomes, caches
    <2>2. Status' = Status /\ Reported' = Reported
        BY <2>1 DEF Status, Reported
    <2>3. fib' \subseteq RouteSet
        BY DEF JInv, IInv, TypeInv
    <2>4. QED  BY <2>1, <2>2, <2>3 DEF Service!KernelChanges, Service!Next
<1>9. CASE UNCHANGED vars
    BY <1>9 DEF vars, kernelVars, caches, Status, Reported, Position, Service!vars
<1>10. QED
    BY <1>1, <1>2, <1>3, <1>4, <1>5, <1>6, <1>7, <1>8, <1>9 DEF Next, GetterStep

\* The getter implements the service: an answer is one picture of the routes
\* of the kernel, each at exactly one place.
THEOREM Implements == Spec => ServiceImplemented
    BY InitService, NextService, NextJ, InvarianceJ, PTL DEF ServiceImplemented, Service!Spec, Spec
=============================================================================
