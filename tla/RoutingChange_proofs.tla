------------------------ MODULE RoutingChange_proofs ------------------------
(***************************************************************************)
(* Proofs about RoutingChange, for any destinations, gateways, routes of   *)
(* clients and of the host, and any bounds.                                *)
(***************************************************************************)
EXTENDS RoutingChange, TLAPS

-----------------------------------------------------------------------------
(* Types                                                                   *)

LEMMA FamiliesAre ==
    /\ Families[1] = Dest4 /\ Families[2] = Dest6
    /\ \A f \in {1, 2} : Families[f] \subseteq Dest
    BY DEF Families, Dest

LEMMA EmptyPlan == <<>> \in Seq([dest : Families[1], gw : NextHop]) /\ <<>> \in Seq(Families[1])
    OBVIOUS

LEMMA NoRoutesTyped == NoRoutes \in Routes
    BY DEF NoRoutes, Routes

\* The next hops of a route, and the gateways that are read of it.
LEMMA HopsTyped ==
    ASSUME NEW r \in Route
    PROVE  /\ r # NoRoute /\ \A p \in DOMAIN r.hops : r.hops[p] \in NextHop
           /\ Hops(r) # {} /\ LastRead(r) \subseteq Hops(r) /\ Hops(r) \subseteq NextHop
<1>1. r # NoRoute /\ r.hops \in [{Simple} -> NextHop] \cup HopList
    BY RoutingAssumption DEF Route
<1>2. /\ \A p \in DOMAIN r.hops : r.hops[p] \in NextHop
      /\ \E p \in DOMAIN r.hops : TRUE
    <2>1. CASE r.hops \in [{Simple} -> NextHop]
        BY <2>1
    <2>2. CASE r.hops \in HopList
        <3>1. PICK P \in (SUBSET Entry) \ {{}} : r.hops \in [P -> NextHop]
            BY <2>2 DEF HopList
        <3>2. QED  BY <3>1
    <2>3. QED  BY <1>1, <2>1, <2>2
<1>3. Hops(r) # {} /\ Hops(r) \subseteq NextHop
    BY <1>1, <1>2 DEF Hops
<1>4. LastRead(r) \subseteq Hops(r)
    <2>1. CASE Leaves(r) = {}
        <3>1. PICK p \in DOMAIN r.hops : r.hops[p] = NoGateway
            BY <1>2, <2>1 DEF Leaves
        <3>2. QED  BY <1>1, <2>1, <3>1 DEF LastRead, Hops
    <2>2. CASE Leaves(r) # {}
        BY <1>1, <2>2 DEF LastRead, Leaves, Hops
    <2>3. QED  BY <2>1, <2>2
<1>5. QED  BY <1>1, <1>2, <1>3, <1>4

LEMMA NextHopNonEmpty == NoGateway \in NextHop
    BY DEF NextHop

\* What an entry that stays may hand to the route seen last.
LEMMA ChangedTyped ==
    ASSUME NEW d, running[d] \in Route, cand[d] \in Route
    PROVE  ChangedGateways(d) \subseteq NextHop
    BY HopsTyped DEF ChangedGateways, Leaves

LEMMA TypeInit == Init => TypeOK
<1> SUFFICES ASSUME Init PROVE TypeOK
    OBVIOUS
<1>1. fib \in [Dest -> SUBSET NextHop]
    BY RoutingAssumption DEF Init
<1>2. 0 \in 0..MaxStarts /\ 0 \in 0..MaxExternal /\ 0 \in 0..MaxRefusal
    BY RoutingAssumption
<1>3. QED  BY <1>1, <1>2, NoRoutesTyped, EmptyPlan DEF Init, TypeOK

\* A step of the plugin's life.
LEMMA TypeInitStep ==
    ASSUME TypeOK, NEW here, here # "up", InInit(here),
           running' \in Routes /\ startup' \in Routes /\ cand' \in Routes /\ dumped' \in Routes,
           loaded' \in BOOLEAN /\ missed' \in BOOLEAN,
           plugin' \in {"off", "ribs", "routes", "merge", "copy", "subscribe", "up"},
           starts' \in 0..MaxStarts, refused' \in 0..MaxRefusal
    PROVE  TypeOK'
<1>1. event = "idle" /\ UNCHANGED <<event, family, pending, head, new, del, fib, instep, external,
                                    disturbed>>
    BY DEF TypeOK, InInit, plan
<1>2. QED  BY <1>1 DEF TypeOK

LEMMA TypePlugin == ASSUME TypeOK, Plugin PROVE TypeOK'
<1>1. CASE PluginStart
    <2>1. starts' \in 0..MaxStarts /\ refused' \in 0..MaxRefusal
        BY <1>1, RoutingAssumption DEF TypeOK, PluginStart
    <2>2. QED  BY <1>1, <2>1, TypeInitStep DEF TypeOK, PluginStart, KeepData
<1>2. 0 \in 0..MaxRefusal
    BY RoutingAssumption
<1>3. CASE routing_startup_load_ribs
    BY <1>2, <1>3, NoRoutesTyped, TypeInitStep
    DEF TypeOK, routing_startup_load_ribs, KeepData, RefuseInit, InitFails
<1>4. CASE routing_startup_load_control_plane_protocols
    <2>1. dumped' \in Routes /\ plugin' \in {"off", "merge"}
        <3>1. ASSUME NEW g \in NextHop PROVE SimpleRoute(g) \in Route
            BY DEF SimpleRoute, Route
        <3>2. ASSUME NEW c \in LoadedRoutes PROVE c \in Routes
            <4>1. PICK f \in [Dest -> NextHop] :
                      c = [d \in Dest |-> IF fib[d] = {} THEN NoRoute ELSE SimpleRoute(f[d])]
                BY DEF LoadedRoutes
            <4>2. \A d \in Dest : SimpleRoute(f[d]) \in Route
                BY <3>1
            <4>3. QED  BY <4>1, <4>2 DEF Routes
        <3>3. QED  BY <1>4, <3>2, NoRoutesTyped
                   DEF routing_startup_load_control_plane_protocols, RefuseInit, InitFails
    <2>2. starts' \in 0..MaxStarts /\ refused' \in 0..MaxRefusal
        BY <1>2, <1>4 DEF TypeOK, routing_startup_load_control_plane_protocols, RefuseInit, InitFails
    <2>3. InInit("routes") /\ KeepData
        BY <1>4 DEF routing_startup_load_control_plane_protocols
    <2>4. QED  BY <2>1, <2>2, <2>3, TypeInitStep DEF TypeOK, KeepData
<1>5. CASE MergeRoutes
    <2>1. [d \in Dest |-> MergedRoute(running[d], dumped[d])] \in Routes
        <3>1. ASSUME NEW r \in Route \cup {NoRoute}, NEW c \in Route \cup {NoRoute}
              PROVE  MergedRoute(r, c) \in Route \cup {NoRoute}
            BY DEF MergedRoute, Route
        <3>2. QED  BY <3>1 DEF TypeOK, Routes
    <2>2. running' \in Routes /\ cand' \in Routes /\ dumped' \in Routes /\ startup' = startup
        BY <1>5, <2>1, NoRoutesTyped DEF TypeOK, MergeRoutes, RefuseInit, InitFails
    <2>3. /\ loaded' \in BOOLEAN /\ missed' \in BOOLEAN /\ plugin' \in {"off", "copy"}
          /\ starts' \in 0..MaxStarts /\ refused' \in 0..MaxRefusal /\ InInit("merge")
        BY <1>2, <1>5 DEF TypeOK, MergeRoutes, RefuseInit, InitFails
    <2>4. QED  BY <2>2, <2>3, TypeInitStep DEF TypeOK
<1>6. CASE CopyRunning
    BY <1>2, <1>6, NoRoutesTyped, TypeInitStep DEF TypeOK, CopyRunning, RefuseInit, InitFails
<1>7. CASE Subscribe
    BY <1>2, <1>7, NoRoutesTyped, TypeInitStep DEF TypeOK, Subscribe, KeepData, RefuseInit, InitFails
<1>8. CASE PluginEnd
    BY <1>2, <1>8, NoRoutesTyped, EmptyPlan DEF TypeOK, PluginEnd, InitFails, NoEvent
<1>9. QED  BY <1>1, <1>3, <1>4, <1>5, <1>6, <1>7, <1>8 DEF Plugin

LEMMA TypeSysrepo == ASSUME TypeOK, Sysrepo PROVE TypeOK'
<1>1. 0 \in 0..MaxRefusal /\ ClientRoutes \subseteq Routes
    BY RoutingAssumption
<1>2. CASE ApplyChanges
    <2>1. cand' \in Routes /\ pending' \subseteq Families[1] /\ instep' \in BOOLEAN
        BY <1>1, <1>2, FamiliesAre DEF ApplyChanges, InStep
    <2>2. new = <<>> /\ del = <<>> /\ head = "none"
        BY <1>2 DEF ApplyChanges, TypeOK
    <2>3. QED  BY <1>1, <1>2, <2>1, <2>2, EmptyPlan DEF TypeOK, ApplyChanges, life
<1>3. CASE DoneEvent
    BY <1>1, <1>3 DEF TypeOK, DoneEvent, NoEvent, life, plan
<1>4. CASE DropEdit
    BY <1>1, <1>4 DEF TypeOK, DropEdit, NoEvent, life, plan
<1>5. CASE EditWithoutPlugin
    BY <1>1, <1>5 DEF TypeOK, EditWithoutPlugin, life, plan
<1>6. QED  BY <1>2, <1>3, <1>4, <1>5 DEF Sysrepo

LEMMA TypeOthers == ASSUME TypeOK, Others PROVE TypeOK'
<1>1. PICK d \in Dest, g \in NextHop : ExternalRoute(d, g)
    BY DEF Others
<1>2. fib' \in [Dest -> SUBSET NextHop] /\ external' \in 0..MaxExternal
    BY <1>1, RoutingAssumption DEF TypeOK, ExternalRoute
<1>3. QED  BY <1>1, <1>2 DEF TypeOK, ExternalRoute, life, plan

-----------------------------------------------------------------------------
(* Types of the steps of the callback                                      *)

\* The callback changes the plan, the kernel and, at its end, the event.
LEMMA TypeCallback ==
    ASSUME TypeOK, Callback,
           fib' \in [Dest -> SUBSET NextHop], refused' \in 0..MaxRefusal,
           event' \in {"change", "applied", "failed"},
           family' \in {1, 2} /\ pending' \subseteq Families[family'],
           head' \in {"none", "new", "del"},
           new' \in Seq([dest : Families[family'], gw : NextHop]), del' \in Seq(Families[family']),
           event' # "change" => pending' = {} /\ new' = <<>> /\ del' = <<>> /\ head' = "none"
    PROVE  TypeOK'
    BY DEF TypeOK, Callback, life

LEMMA TypeFail == ASSUME TypeOK, Callback, Refuse \/ Error PROVE TypeOK'
<1>1. refused' \in 0..MaxRefusal /\ fib' = fib
    BY RoutingAssumption DEF TypeOK, Refuse, Error
<1>2. QED  BY <1>1, EmptyPlan, TypeCallback DEF TypeOK, Refuse, Error, Fail

\* What is left to be read changed.
PendingInv == \A d \in pending : running[d] # cand[d]

LEMMA SequenceIsFunction ==
    ASSUME NEW T, NEW n \in Seq(T)
    PROVE  n \in [1..Len(n) -> T] /\ Len(n) \in Nat
    OBVIOUS

\* The last new route may get another next hop.
LEMMA Replaced ==
    ASSUME NEW S, NEW n \in Seq([dest : S, gw : NextHop]), NEW g \in NextHop,
           NEW m, m = [n EXCEPT ![Len(n)].gw = g]
    PROVE  /\ m \in Seq([dest : S, gw : NextHop]) /\ Len(m) = Len(n)
           /\ \A k \in 1..Len(n) : m[k].dest = n[k].dest
<1> DEFINE T == [dest : S, gw : NextHop]
<1>1. n \in [1..Len(n) -> T] /\ Len(n) \in Nat
    BY SequenceIsFunction
<1>2. m \in [1..Len(n) -> T]
    BY <1>1
<1>3. m \in Seq(T) /\ Len(m) = Len(n)
    BY <1>1, <1>2
<1>4. \A k \in 1..Len(n) : m[k].dest = n[k].dest
    BY <1>1
<1>5. QED  BY <1>3, <1>4

LEMMA Removed ==
    ASSUME NEW S, NEW n \in Seq(S), n # <<>>
    PROVE  /\ Head(n) \in S /\ Head(n) = n[1] /\ Tail(n) \in Seq(S) /\ Len(n) >= 1
           /\ Len(Tail(n)) = Len(n) - 1
           /\ \A k \in 1..(Len(n) - 1) : Tail(n)[k] = n[k + 1]
    OBVIOUS

LEMMA Added ==
    ASSUME NEW S, NEW n \in Seq(S), NEW x \in S
    PROVE  /\ Append(n, x) \in Seq(S) /\ Len(Append(n, x)) = Len(n) + 1
           /\ Append(n, x)[Len(n) + 1] = x
           /\ \A k \in 1..Len(n) : Append(n, x)[k] = n[k]
    OBVIOUS

LEMMA TypeStep == ASSUME TypeOK, PendingInv, Step PROVE TypeOK'
<1> DEFINE NewRoute == [dest : Families[family], gw : NextHop]
<1>1. new \in Seq(NewRoute) /\ del \in Seq(Families[family]) /\ family \in {1, 2}
    BY DEF TypeOK
<1>2. \A d \in pending : d \in Families[family] /\ d \in Dest /\ running[d] # cand[d]
    BY FamiliesAre DEF TypeOK, PendingInv
<1>3. ASSUME NEW d \in Dest, CollectCreated(d) PROVE TypeOK'
    <2>1. cand[d] \in Route /\ d \in Families[family] /\ Callback
        BY <1>2, <1>3 DEF TypeOK, Routes, CollectCreated, Collecting
    <2>2. PICK g \in LastRead(cand[d]) : new' = Append(new, [dest |-> d, gw |-> g])
        BY <1>3 DEF CollectCreated
    <2>3. new' \in Seq(NewRoute)
        <3>1. [dest |-> d, gw |-> g] \in NewRoute
            BY <2>1, HopsTyped
        <3>2. QED  BY <1>1, <2>2, <3>1, Added
    <2>4. QED  BY <1>3, <2>1, <2>3, TypeCallback DEF TypeOK, CollectCreated, Callback
<1>4. ASSUME NEW d \in Dest, CollectDeleted(d) PROVE TypeOK'
    <2>1. del' \in Seq(Families[family]) /\ Callback
        BY <1>1, <1>2, <1>4, Added DEF CollectDeleted, Collecting
    <2>2. QED  BY <1>4, <2>1, TypeCallback DEF TypeOK, CollectDeleted, Callback
<1>5. ASSUME NEW d \in Dest, CollectKept(d) PROVE TypeOK'
    <2>1. Callback /\ cand[d] \in Route /\ running[d] \in Route
        BY <1>5 DEF TypeOK, Routes, CollectKept, Collecting
    <2>2. CASE Error
        BY <2>1, <2>2, TypeFail
    <2>3. CASE ~Error
        <3>1. PICK g \in NextHop : new' \in {new, [new EXCEPT ![Len(new)].gw = g]}
            BY <1>5, <2>1, <2>3, ChangedTyped, NextHopNonEmpty DEF CollectKept
        <3>. new' \in Seq(NewRoute)
            BY <1>1, <3>1, Replaced
        <3>2. QED  BY <1>5, <2>1, <2>3, <3>1, TypeCallback DEF TypeOK, CollectKept, Callback
    <2>4. QED  BY <2>2, <2>3
<1>6. CASE NoSocket
    BY <1>6, TypeFail DEF NoSocket, Applying
<1>7. CASE routing_apply_new_routes
    <2>1. CASE Refuse \/ Error
        BY <1>7, <2>1, TypeFail DEF routing_apply_new_routes, Applying
    <2>2. CASE ~(Refuse \/ Error)
        <3>1. new # <<>> /\ Callback /\ new' = Tail(new)
            BY <1>7, <2>2 DEF routing_apply_new_routes, Applying
        <3>. new' \in Seq(NewRoute)
            BY <1>1, <3>1, Removed
        <3>2. Head(new).gw \in NextHop /\ Head(new).dest \in Dest
            <4>1. Head(new) \in NewRoute
                BY <1>1, <3>1, Removed
            <4>2. QED  BY <1>1, <4>1, FamiliesAre
        <3>3. fib' \in [Dest -> SUBSET NextHop]
            BY <1>7, <2>2, <3>2 DEF TypeOK, routing_apply_new_routes
        <3>4. QED
            BY <1>7, <2>2, <3>1, <3>3, TypeCallback DEF TypeOK, routing_apply_new_routes, Callback
    <2>3. QED  BY <2>1, <2>2
<1>8. CASE routing_apply_delete_routes
    <2>1. del # <<>> /\ Callback /\ DeleteRoute(Head(del)) /\ Head(del) \in Families[family]
        BY <1>1, <1>8, Removed DEF routing_apply_delete_routes, Applying
    <2>2. CASE Refuse \/ Error
        BY <2>1, <2>2, TypeFail
    <2>3. CASE ~(Refuse \/ Error)
        <3>. del' = Tail(del)
            BY <2>1, <2>3 DEF DeleteRoute
        <3>1. del' \in Seq(Families[family])
            BY <1>1, <2>1, Removed
        <3>2. Head(del) \in Dest
            BY <1>1, <2>1, FamiliesAre
        <3>3. fib' \in [Dest -> SUBSET NextHop]
            BY <2>1, <2>3, <3>2 DEF TypeOK, DeleteRoute, Deleted
        <3>4. QED  BY <2>1, <2>3, <3>1, <3>3, TypeCallback DEF TypeOK, DeleteRoute, Callback
    <2>4. QED  BY <2>2, <2>3
<1>9. CASE FinishFamily
    <2>1. Callback /\ new' = <<>> /\ del' = <<>> /\ pending = {} /\ Changed(Dest6) \subseteq Dest6
        BY <1>9 DEF FinishFamily, Applying, Changed
    <2>2. <<>> \in Seq([dest : Families[family'], gw : NextHop]) /\ <<>> \in Seq(Families[family'])
        OBVIOUS
    <2>3. QED
        BY <1>9, <2>1, <2>2, FamiliesAre, TypeCallback DEF TypeOK, FinishFamily, Callback
<1>10. QED  BY <1>3, <1>4, <1>5, <1>6, <1>7, <1>8, <1>9 DEF Step

-----------------------------------------------------------------------------
(* The plan of the callback: the destinations whose changes are still to be *)
(* read or applied.                                                         *)

InNew(d) == \E k \in 1..Len(new) : new[k].dest = d
InDel(d) == \E k \in 1..Len(del) : del[k] = d
Planned(d) == d \in pending \/ InNew(d) \/ InDel(d) \/ (family = 1 /\ d \in Dest6)

Dropped(d) == running[d] # NoRoute /\ cand[d] = NoRoute

\* A route that stays gets or loses its next hop, which may go to another.
Touched == \E d \in Dest : Kept(d) /\ GatewayChanges(d)

\* Each destination is planned once, and for what happens to it.
PlanInv ==
    /\ PendingInv
    /\ \A k \in 1..Len(new) :
          /\ new[k].dest \notin pending /\ Created(new[k].dest)
          /\ ~Touched => new[k].gw \in LastRead(cand[new[k].dest])
          /\ \A j \in 1..Len(new) : new[j].dest = new[k].dest => j = k
    /\ \A k \in 1..Len(del) :
          /\ del[k] \notin pending /\ Dropped(del[k])
          /\ \A j \in 1..Len(del) : del[j] = del[k] => j = k

\* A step that has no plan, or keeps the one there is.
LEMMA PlanNone == ASSUME pending' = {} /\ new' = <<>> /\ del' = <<>> PROVE PlanInv'
    BY DEF PlanInv, PendingInv

LEMMA PlanStep == ASSUME TypeOK, PlanInv, Step PROVE PlanInv'
<1> DEFINE NewRoute == [dest : Families[family], gw : NextHop]
<1>1. /\ new \in Seq(NewRoute) /\ del \in Seq(Families[family]) /\ family \in {1, 2}
      /\ Len(new) \in Nat /\ Len(del) \in Nat
    BY DEF TypeOK
<1>2. \A d \in pending : d \in Families[family] /\ d \in Dest /\ running[d] # cand[d]
    BY FamiliesAre DEF TypeOK, PendingInv, PlanInv
<1>3. UNCHANGED <<running, cand>>
    BY DEF Step, CollectCreated, CollectDeleted, CollectKept, Collecting, NoSocket, Applying,
           routing_apply_new_routes, routing_apply_delete_routes, FinishFamily, Callback
<1>4. /\ Touched' = Touched /\ \A d : (Created(d)' <=> Created(d)) /\ (Dropped(d)' <=> Dropped(d))
    BY <1>3 DEF Touched, Kept, GatewayChanges, ChangedGateways, Leaves, Created,
                  Dropped
<1>5. ASSUME NEW d \in Dest, CollectCreated(d) PROVE PlanInv'
    <2>1. /\ d \in pending /\ Created(d) /\ ~Dropped(d) /\ cand[d] \in Route
          /\ pending' = pending \ {d} /\ del' = del /\ d \in Families[family]
        BY <1>2, <1>5 DEF CollectCreated, Collecting, Created, Dropped, TypeOK, Routes
    <2>2. PICK g \in LastRead(cand[d]) : new' = Append(new, [dest |-> d, gw |-> g])
        BY <1>5 DEF CollectCreated
    <2>3. [dest |-> d, gw |-> g] \in NewRoute
        BY <2>1, HopsTyped
    <2>4. /\ Len(new') = Len(new) + 1 /\ \A k \in 1..Len(new) : new'[k] = new[k]
          /\ new'[Len(new) + 1] = [dest |-> d, gw |-> g]
        BY <1>1, <2>2, <2>3, Added
    <2>5. (\A e : LastRead(cand[e])' = LastRead(cand[e])) /\ g \in LastRead(cand[d])
        BY <1>3 DEF LastRead, Leaves
    <2>6. QED  BY <1>1, <1>3, <1>4, <2>1, <2>4, <2>5 DEF PlanInv, PendingInv
<1>6. ASSUME NEW d \in Dest, CollectDeleted(d) PROVE PlanInv'
    <2>1. /\ d \in pending /\ Dropped(d) /\ ~Created(d) /\ pending' = pending \ {d} /\ new' = new
          /\ d \in Families[family] /\ del' = Append(del, d)
        BY <1>2, <1>6 DEF CollectDeleted, Collecting, Created, Dropped
    <2>2. /\ Len(del') = Len(del) + 1 /\ \A k \in 1..Len(del) : del'[k] = del[k]
          /\ del'[Len(del) + 1] = d
        BY <1>1, <2>1, Added
    <2>3. QED  BY <1>1, <1>3, <1>4, <2>1, <2>2 DEF PlanInv, PendingInv
<1>7. ASSUME NEW d \in Dest, CollectKept(d) PROVE PlanInv'
    <2>1. CASE Error
        BY <2>1, PlanNone DEF Error, Fail
    <2>2. CASE ~Error
        <3>1. /\ d \in pending /\ pending' = pending \ {d} /\ del' = del
              /\ cand[d] \in Route /\ running[d] \in Route
            BY <1>7, <2>2 DEF TypeOK, Routes, CollectKept, Collecting
        <3>2. PICK g \in NextHop : new' \in {new, [new EXCEPT ![Len(new)].gw = g]}
            BY <1>7, <2>2, <3>1, ChangedTyped, NextHopNonEmpty DEF CollectKept
        <3>3. Len(new') = Len(new) /\ \A k \in 1..Len(new) : new'[k].dest = new[k].dest
            <4>1. CASE new' = new
                BY <4>1
            <4>2. CASE new' = [new EXCEPT ![Len(new)].gw = g]
                BY <1>1, <4>2, Replaced
            <4>3. QED  BY <3>2, <4>1, <4>2
        <3>4. ~Touched => new' = new
            BY <1>7, <2>2 DEF CollectKept, Touched, Kept
        <3>5. QED  BY <1>1, <1>3, <1>4, <3>1, <3>3, <3>4 DEF PlanInv, PendingInv
    <2>3. QED  BY <2>1, <2>2
<1>8. CASE NoSocket
    BY <1>8, PlanNone DEF NoSocket, Refuse, Fail
<1>9. CASE routing_apply_new_routes
    <2>1. CASE Refuse \/ Error
        BY <2>1, PlanNone DEF Refuse, Error, Fail
    <2>2. CASE ~(Refuse \/ Error)
        <3>1. new # <<>> /\ new' = Tail(new) /\ UNCHANGED <<pending, del>>
            BY <1>9, <2>2 DEF routing_apply_new_routes
        <3>2. Len(new') = Len(new) - 1 /\ \A k \in 1..(Len(new) - 1) : new'[k] = new[k + 1]
            BY <1>1, <3>1, Removed
        <3>3. QED  BY <1>1, <1>3, <1>4, <3>1, <3>2 DEF PlanInv, PendingInv
    <2>3. QED  BY <2>1, <2>2
<1>10. CASE routing_apply_delete_routes
    <2>1. CASE Refuse \/ Error
        BY <2>1, PlanNone DEF Refuse, Error, Fail
    <2>2. CASE ~(Refuse \/ Error)
        <3>1. del # <<>> /\ del' = Tail(del) /\ UNCHANGED <<pending, new>>
            BY <1>10, <2>2 DEF routing_apply_delete_routes, DeleteRoute
        <3>2. Len(del') = Len(del) - 1 /\ \A k \in 1..(Len(del) - 1) : del'[k] = del[k + 1]
            BY <1>1, <3>1, Removed
        <3>3. \A k \in 1..Len(del') : /\ del'[k] \notin pending' /\ Dropped(del[k])'
                                      /\ \A j \in 1..Len(del') : del'[j] = del'[k] => j = k
            <4> SUFFICES ASSUME NEW k \in 1..Len(del')
                         PROVE  /\ del'[k] \notin pending' /\ Dropped(del[k])'
                                /\ \A j \in 1..Len(del') : del'[j] = del'[k] => j = k
                OBVIOUS
            <4>1. k + 1 \in 1..Len(del) /\ del'[k] = del[k + 1]
                BY <1>1, <3>2
            <4>2. /\ del[k + 1] \notin pending /\ Dropped(del[k + 1])
                  /\ \A j \in 1..Len(del) : del[j] = del[k + 1] => j = k + 1
                BY <4>1 DEF PlanInv
            <4>3. Dropped(del[k])'
                BY <1>3, <4>1, <4>2 DEF Dropped
            <4>4. ASSUME NEW j \in 1..Len(del'), del'[j] = del'[k] PROVE j = k
                <5>1. j + 1 \in 1..Len(del) /\ del[j + 1] = del[k + 1]
                    BY <1>1, <3>2, <4>1, <4>4
                <5>2. QED  BY <1>1, <4>2, <5>1
            <4>5. QED  BY <3>1, <4>1, <4>2, <4>3, <4>4
        <3>4. QED  BY <1>3, <1>4, <3>1, <3>3 DEF PlanInv, PendingInv
    <2>3. QED  BY <2>1, <2>2
<1>11. CASE FinishFamily
    BY <1>3, <1>11 DEF FinishFamily, Applying, Changed, PlanInv, PendingInv
<1>12. QED  BY <1>5, <1>6, <1>7, <1>8, <1>9, <1>10, <1>11 DEF Step

LEMMA PlanOthers ==
    ASSUME TypeOK, PlanInv, Plugin \/ Sysrepo \/ Others \/ UNCHANGED vars
    PROVE  PlanInv'
<1>1. CASE UNCHANGED <<running, cand, pending, new, del>>
    <2>1. (Touched' <=> Touched) /\ \A d : LastRead(cand[d])' = LastRead(cand[d])
        BY <1>1 DEF Touched, Kept, GatewayChanges, ChangedGateways, LastRead, Leaves
    <2>2. QED  BY <1>1, <2>1 DEF PlanInv, PendingInv, Created, Dropped
<1>2. CASE event = "idle" /\ UNCHANGED plan
    BY <1>2, PlanNone DEF TypeOK, plan
<1>3. CASE Plugin
    BY <1>2, <1>3, PlanNone
    DEF Plugin, PluginStart, routing_startup_load_ribs,
        routing_startup_load_control_plane_protocols, MergeRoutes, CopyRunning, Subscribe,
        PluginEnd, InInit, TypeOK
<1>4. CASE ApplyChanges
    BY <1>4 DEF ApplyChanges, TypeOK, PlanInv, PendingInv
<1>5. CASE DoneEvent \/ DropEdit
    <2>1. pending' = {} /\ new' = <<>> /\ del' = <<>>
        BY <1>5 DEF DoneEvent, DropEdit, TypeOK, plan
    <2>2. QED  BY <2>1, PlanNone
<1>6. CASE EditWithoutPlugin
    BY <1>2, <1>6 DEF EditWithoutPlugin
<1>7. CASE Others \/ UNCHANGED vars
    BY <1>1, <1>7 DEF Others, ExternalRoute, vars, plan
<1>8. QED  BY <1>3, <1>4, <1>5, <1>6, <1>7 DEF Sysrepo

LEMMA PlanInit == Init => PlanInv
    BY DEF Init, PlanInv, PendingInv

LEMMA NextInv == TypeOK /\ PlanInv /\ [Next]_vars => TypeOK' /\ PlanInv'
<1>1. ASSUME TypeOK, UNCHANGED vars PROVE TypeOK'
    BY <1>1 DEF TypeOK, vars, life, plan, history, eventHistory
<1>2. QED
    BY <1>1, TypePlugin, TypeSysrepo, TypeOthers, TypeStep, PlanStep, PlanOthers
    DEF Next, PlanInv

LEMMA PlanHolds == Spec => [](TypeOK /\ PlanInv)
    BY TypeInit, PlanInit, NextInv, PTL DEF Spec

\* Every variable keeps its type, and the lists of a callback do not outlive
\* it, whichever way it ends.
THEOREM TypeCorrect == Spec => []TypeOK
    BY PlanHolds, PTL

-----------------------------------------------------------------------------
(* Startup                                                                 *)

\* Also while an edit is applied running is what startup was made of.
StartupInv == ~missed => startup = running

\* Startup holds what running holds between events, through restarts of the
\* plugin and rejected edits, unless a commit has not been copied.
THEOREM StartupFollows == Spec => []StartupFollowsRunning
<1>1. Init => StartupInv
    BY DEF Init, StartupInv
<1>2. TypeOK /\ StartupInv /\ [Next]_vars => StartupInv'
    <2> SUFFICES ASSUME TypeOK, StartupInv, [Next]_vars PROVE StartupInv'
        OBVIOUS
    <2>1. CASE Plugin
        BY <2>1 DEF StartupInv, TypeOK, Plugin, PluginStart, routing_startup_load_ribs, KeepData,
                    routing_startup_load_control_plane_protocols, MergeRoutes, CopyRunning,
                    Subscribe, PluginEnd
    <2>2. CASE Sysrepo
        BY <2>2 DEF StartupInv, TypeOK, Sysrepo, ApplyChanges, DoneEvent, DropEdit,
                    EditWithoutPlugin
    <2>3. CASE Step
        BY <2>3 DEF StartupInv, Step, CollectCreated, CollectDeleted, CollectKept, Collecting,
                    NoSocket, Applying, routing_apply_new_routes, routing_apply_delete_routes,
                    FinishFamily, Callback
    <2>4. CASE Others \/ UNCHANGED vars
        BY <2>4 DEF StartupInv, Others, ExternalRoute, vars, history
    <2>5. QED  BY <2>1, <2>2, <2>3, <2>4 DEF Next
<1>3. StartupInv => StartupFollowsRunning
    BY DEF StartupInv, StartupFollowsRunning
<1>4. QED  BY <1>1, <1>2, <1>3, TypeCorrect, PTL DEF Spec

-----------------------------------------------------------------------------
(* What the kernel has for a destination during an event                   *)

\* A deleted route of which some next hops may stay.
Partly(d) == d \in Dest4 /\ Several(running[d])

Waiting(d) == event = "change" /\ Planned(d)
Running == event \in {"change", "applied"}

\* Routes that stay are left alone, whichever way the event ends; those that
\* are waiting have the routes of before, the others those of the edit.
KeptInv(d) == event # "idle" /\ instep /\ ~disturbed /\ Kept(d) => fib[d] = Hops(running[d])
NewInv(d) == event = "change" /\ ~disturbed /\ d \in Families[family] /\ Created(d) /\ ~Planned(d)
             => fib[d] # {}
DoneInv(d) ==
    Running /\ Undisturbed =>
        /\ running[d] = NoRoute /\ cand[d] = NoRoute => fib[d] = {}
        /\ Waiting(d) => fib[d] = Hops(running[d])
        /\ ~Waiting(d) /\ Dropped(d) => fib[d] = {} \/ Partly(d)
        /\ ~Waiting(d) /\ Created(d) /\ ~Touched => \E g \in LastRead(cand[d]) : fib[d] = {g}

Reason == \E d \in Dest : \/ Created(d) /\ Leaves(cand[d]) = {}
                          \/ Kept(d) /\ (DescriptionChanges(d) \/ GatewayChanges(d))
FailedInv == event = "failed" /\ Undisturbed => Reason

FibInv(d) == KeptInv(d) /\ NewInv(d) /\ DoneInv(d)
EventInv == FailedInv /\ \A d \in Dest : FibInv(d)

LEMMA EventIdle == ASSUME event' = "idle" PROVE EventInv'
    BY DEF EventInv, FailedInv, FibInv, KeptInv, NewInv, DoneInv, Running

LEMMA EventDisturbed == ASSUME disturbed' = TRUE PROVE EventInv'
    BY DEF EventInv, FailedInv, FibInv, KeptInv, NewInv, DoneInv, Undisturbed

LEMMA EventPlugin == ASSUME TypeOK, Plugin PROVE EventInv'
<1>1. event' = "idle"
    BY DEF Plugin, PluginStart, routing_startup_load_ribs,
           routing_startup_load_control_plane_protocols, MergeRoutes, CopyRunning, Subscribe,
           PluginEnd, InInit, TypeOK
<1>2. QED  BY <1>1, EventIdle

LEMMA EventOthers == ASSUME Others PROVE EventInv'
<1>1. event' = "idle" \/ disturbed' = TRUE
    BY DEF Others, ExternalRoute
<1>2. QED  BY <1>1, EventIdle, EventDisturbed

LEMMA EventSysrepo == ASSUME TypeOK, Sysrepo PROVE EventInv'
<1>1. CASE ApplyChanges
    <2>1. /\ event' = "change" /\ family' = 1 /\ pending' = {d \in Dest4 : running[d] # cand'[d]}
          /\ instep' = InStep(fib, running) /\ UNCHANGED <<running, fib, new, del>>
          /\ new = <<>> /\ del = <<>>
        BY <1>1 DEF ApplyChanges, TypeOK
    <2>2. ASSUME NEW d \in Dest PROVE FibInv(d)'
        <3>1. instep' => fib[d] = Hops(running[d])
            BY <2>1 DEF InStep
        <3>2. Planned(d)' \/ running[d] = cand'[d]
            BY <2>1 DEF Planned, Dest
        <3>3. KeptInv(d)'
            BY <2>1, <3>1 DEF KeptInv, Kept, Hops
        <3>4. NewInv(d)'
            BY <2>1, <3>2 DEF NewInv, Created
        <3>5. DoneInv(d)'
            BY <2>1, <3>1, <3>2 DEF DoneInv, Undisturbed, Waiting, Created, Dropped, Hops
        <3>6. QED  BY <3>3, <3>4, <3>5 DEF FibInv
    <2>3. QED  BY <2>1, <2>2 DEF EventInv, FailedInv
<1>2. CASE DoneEvent \/ DropEdit \/ EditWithoutPlugin
    BY <1>2, EventIdle DEF DoneEvent, DropEdit, EditWithoutPlugin
<1>3. QED  BY <1>1, <1>2 DEF Sysrepo

-----------------------------------------------------------------------------
(* The steps of the callback                                               *)

\* The callback leaves the edit and its history alone.
Same == UNCHANGED <<running, cand, instep, disturbed>>

LEMMA SameEdit ==
    ASSUME Same, NEW d
    PROVE  /\ (Kept(d)' <=> Kept(d)) /\ (Created(d)' <=> Created(d)) /\ (Dropped(d)' <=> Dropped(d))
           /\ Hops(running[d])' = Hops(running[d]) /\ LastRead(cand[d])' = LastRead(cand[d])
           /\ (Partly(d)' <=> Partly(d)) /\ (Touched' <=> Touched) /\ (Reason' <=> Reason)
    BY DEF Same, Kept, Created, Dropped, Hops, LastRead, Partly, Several, Touched, Reason,
           GatewayChanges, ChangedGateways, Leaves, DescriptionChanges

\* The callback fails: what the kernel has stays.
LEMMA EventFails ==
    ASSUME EventInv, Same, event = "change", event' = "failed", fib' = fib, Undisturbed' => Reason
    PROVE  EventInv'
<1>1. FailedInv'
    BY SameEdit DEF FailedInv
<1>2. ASSUME NEW d \in Dest PROVE FibInv(d)'
    <2>1. KeptInv(d) /\ (Kept(d)' <=> Kept(d))
        BY SameEdit DEF EventInv, FibInv
    <2>2. KeptInv(d)'
        BY <2>1 DEF KeptInv, Same
    <2>3. NewInv(d)' /\ DoneInv(d)'
        BY DEF NewInv, DoneInv, Running
    <2>4. QED  BY <2>2, <2>3 DEF FibInv
<1>3. QED  BY <1>1, <1>2 DEF EventInv

LEMMA EventRefused == ASSUME TypeOK, EventInv, Callback, Refuse PROVE EventInv'
<1>1. refused' # 0
    BY DEF TypeOK, Refuse
<1>2. QED  BY <1>1, EventFails DEF Callback, Refuse, Fail, Same, Undisturbed

\* A change is read: it stays planned, or is that of a route that stays.
LEMMA EventCollects ==
    ASSUME EventInv, Same, UNCHANGED <<event, family, fib, refused>>, event = "change",
           NEW e \in Dest, \A d \in Dest : d # e \/ ~Kept(e) => (Planned(d)' <=> Planned(d))
    PROVE  EventInv'
<1>1. FailedInv'
    BY DEF FailedInv
<1>2. ASSUME NEW d \in Dest PROVE FibInv(d)'
    <2>1. FibInv(d)
        BY DEF EventInv
    <2>2. CASE Planned(d)' <=> Planned(d)
        <3>1. /\ (Kept(d)' <=> Kept(d)) /\ (Created(d)' <=> Created(d))
              /\ (Dropped(d)' <=> Dropped(d)) /\ (Partly(d)' <=> Partly(d))
          /\ Hops(running[d])' = Hops(running[d]) /\ LastRead(cand[d])' = LastRead(cand[d])
              /\ (Touched' <=> Touched) /\ (Waiting(d)' <=> Waiting(d))
              /\ (Undisturbed' <=> Undisturbed) /\ (Running' <=> Running)
            BY <2>2, SameEdit DEF Waiting, Undisturbed, Running, Same
        <3>2. KeptInv(d)'
            BY <2>1, <3>1 DEF FibInv, KeptInv, Same
        <3>3. NewInv(d)'
            BY <2>1, <2>2, <3>1 DEF FibInv, NewInv, Same
        <3>4. DoneInv(d)'
            BY <2>1, <3>1 DEF FibInv, DoneInv, Same
        <3>5. QED  BY <3>2, <3>3, <3>4 DEF FibInv
    <2>3. CASE Kept(d)
        <3>1. ~Created(d) /\ ~Dropped(d) /\ (fib[d] = Hops(running[d]) \/ ~instep \/ disturbed)
            BY <2>1, <2>3 DEF FibInv, KeptInv, Kept, Created, Dropped
        <3>2. QED
            BY <2>1, <2>3, <3>1, SameEdit
            DEF FibInv, KeptInv, NewInv, DoneInv, Undisturbed, Same, Kept, Created
    <2>4. QED  BY <2>2, <2>3
<1>3. QED  BY <1>1, <1>2 DEF EventInv

LEMMA EventRead ==
    ASSUME TypeOK, PlanInv, EventInv, NEW e \in Dest,
           CollectCreated(e) \/ CollectDeleted(e) \/ CollectKept(e)
    PROVE  EventInv'
<1>1. /\ e \in pending /\ event = "change" /\ Same /\ running[e] # cand[e]
      /\ new \in Seq([dest : Families[family], gw : NextHop]) /\ del \in Seq(Families[family])
      /\ Len(new) \in Nat /\ Len(del) \in Nat /\ e \in Families[family]
    BY DEF CollectCreated, CollectDeleted, CollectKept, Collecting, Callback, Same, TypeOK, PlanInv,
           PendingInv
<1>2. CASE CollectCreated(e)
    <2>1. /\ pending' = pending \ {e} /\ UNCHANGED <<event, family, del, fib, refused>>
          /\ cand[e] \in Route
        BY <1>1, <1>2 DEF CollectCreated, TypeOK, Routes
    <2>2. PICK g \in LastRead(cand[e]) : new' = Append(new, [dest |-> e, gw |-> g])
        BY <1>2 DEF CollectCreated
    <2>3. /\ Len(new') = Len(new) + 1 /\ \A k \in 1..Len(new) : new'[k] = new[k]
          /\ new'[Len(new) + 1] = [dest |-> e, gw |-> g]
        <3>1. [dest |-> e, gw |-> g] \in [dest : Families[family], gw : NextHop]
            BY <1>1, <2>1, HopsTyped
        <3>2. QED  BY <1>1, <2>2, <3>1, Added
    <2>4. ASSUME NEW d \in Dest PROVE InNew(d)' <=> InNew(d) \/ d = e
        BY <1>1, <2>3 DEF InNew
    <2>5. ASSUME NEW d \in Dest PROVE Planned(d)' <=> Planned(d)
        BY <1>1, <2>1, <2>4 DEF Planned, InDel
    <2>6. QED  BY <1>1, <2>1, <2>5, EventCollects
<1>3. CASE CollectDeleted(e)
    <2>1. /\ pending' = pending \ {e} /\ UNCHANGED <<event, family, new, fib, refused>>
          /\ del' = Append(del, e)
        BY <1>3 DEF CollectDeleted
    <2>2. Len(del') = Len(del) + 1 /\ del'[Len(del) + 1] = e /\ \A k \in 1..Len(del) : del'[k] = del[k]
        BY <1>1, <2>1, Added
    <2>3. ASSUME NEW d \in Dest PROVE InDel(d)' <=> InDel(d) \/ d = e
        BY <1>1, <2>2 DEF InDel
    <2>4. ASSUME NEW d \in Dest PROVE Planned(d)' <=> Planned(d)
        BY <1>1, <2>1, <2>3 DEF Planned, InNew
    <2>5. QED  BY <1>1, <2>1, <2>4, EventCollects
<1>4. CASE CollectKept(e)
    <2>1. CASE Error
        <3>1. (DescriptionChanges(e) \/ GatewayChanges(e)) \/ ~Error
            BY <1>1, <1>4, <2>1 DEF CollectKept, Error, Fail
        <3>2. Reason
            BY <1>4, <2>1, <3>1 DEF CollectKept, Reason, Kept
        <3>3. QED  BY <1>1, <2>1, <3>2, SameEdit, EventFails DEF Error, Fail
    <2>2. CASE ~Error
        <3>1. pending' = pending \ {e} /\ UNCHANGED <<event, family, del, fib, refused>>
            BY <1>4, <2>2 DEF CollectKept
        <3>2. cand[e] \in Route /\ running[e] \in Route /\ Kept(e)
            BY <1>4 DEF TypeOK, Routes, CollectKept, Kept
        <3>3. PICK g \in NextHop : new' \in {new, [new EXCEPT ![Len(new)].gw = g]}
            BY <1>4, <2>2, <3>2, ChangedTyped, NextHopNonEmpty DEF CollectKept
        <3>4. Len(new') = Len(new) /\ \A k \in 1..Len(new) : new'[k].dest = new[k].dest
            <4>1. CASE new' = new
                BY <4>1
            <4>2. CASE new' = [new EXCEPT ![Len(new)].gw = g]
                BY <1>1, <4>2, Replaced
            <4>3. QED  BY <3>3, <4>1, <4>2
        <3>5. ASSUME NEW d \in Dest, d # e PROVE Planned(d)' <=> Planned(d)
            BY <3>1, <3>4, <3>5 DEF Planned, InNew, InDel
        <3>6. QED  BY <1>1, <3>1, <3>2, <3>5, EventCollects
    <2>3. QED  BY <2>1, <2>2
<1>5. QED  BY <1>2, <1>3, <1>4

\* One destination gets what the edit wants of it, and is no longer planned.
LEMMA EventApplied ==
    ASSUME EventInv, Same, UNCHANGED <<event, family, refused>>, event = "change",
           NEW e \in Dest, ~Kept(e), Planned(e), ~Planned(e)', Created(e) \/ Dropped(e),
           \A d \in Dest : d # e => (Planned(d)' <=> Planned(d)) /\ fib'[d] = fib[d],
           Created(e) /\ ~disturbed => fib'[e] # {},
           Undisturbed /\ Dropped(e) => fib'[e] = {} \/ Partly(e),
           Undisturbed /\ Created(e) /\ ~Touched => \E g \in LastRead(cand[e]) : fib'[e] = {g}
    PROVE  EventInv'
<1>1. FailedInv'
    BY DEF FailedInv
<1>2. ASSUME NEW d \in Dest PROVE FibInv(d)'
    <2>1. FibInv(d)
        BY DEF EventInv
    <2>2. /\ (Kept(d)' <=> Kept(d)) /\ (Created(d)' <=> Created(d))
          /\ (Dropped(d)' <=> Dropped(d)) /\ (Partly(d)' <=> Partly(d))
          /\ Hops(running[d])' = Hops(running[d]) /\ LastRead(cand[d])' = LastRead(cand[d])
          /\ (Touched' <=> Touched) /\ (Undisturbed' <=> Undisturbed) /\ (Running' <=> Running)
        BY SameEdit DEF Undisturbed, Running, Same
    <2>3. CASE d # e
        <3>1. /\ (Planned(d)' <=> Planned(d)) /\ (Waiting(d)' <=> Waiting(d)) /\ fib'[d] = fib[d]
            BY <2>3 DEF Waiting
        <3>2. KeptInv(d)'
            BY <2>1, <2>2, <3>1 DEF FibInv, KeptInv, Same
        <3>3. NewInv(d)'
            BY <2>1, <2>2, <3>1 DEF FibInv, NewInv, Same
        <3>4. DoneInv(d)'
            BY <2>1, <2>2, <3>1 DEF FibInv, DoneInv, Same
        <3>5. QED  BY <3>2, <3>3, <3>4 DEF FibInv
    <2>4. CASE d = e
        <3>1. ~Waiting(d)' /\ ~(running[d] = NoRoute /\ cand[d] = NoRoute)
            BY <2>4 DEF Waiting, Created, Dropped
        <3>2. KeptInv(d)'
            BY <2>2, <2>4 DEF KeptInv
        <3>3. NewInv(d)'
            BY <2>2, <2>4 DEF NewInv, Same
        <3>4. DoneInv(d)'
            BY <2>2, <2>4, <3>1 DEF DoneInv, Same
        <3>5. QED  BY <3>2, <3>3, <3>4 DEF FibInv
    <2>5. QED  BY <2>3, <2>4
<1>3. QED  BY <1>1, <1>2 DEF EventInv

LEMMA EventNewRoute ==
    ASSUME TypeOK, PlanInv, EventInv, routing_apply_new_routes
    PROVE  EventInv'
<1>1. /\ event = "change" /\ Same /\ new # <<>> /\ pending = {} /\ Callback
      /\ new \in Seq([dest : Families[family], gw : NextHop]) /\ del \in Seq(Families[family])
    BY DEF routing_apply_new_routes, Applying, Callback, Same, TypeOK
<1>2. PICK r \in [dest : Families[family], gw : NextHop] :
          r = new[1] /\ r = Head(new) /\ Len(new) \in Nat /\ Len(new) >= 1
    <2> DEFINE R == [dest : Families[family], gw : NextHop]
    <2>1. new \in Seq(R) /\ new # <<>>
        BY <1>1
    <2> HIDE DEF R
    <2>2. Head(new) \in R /\ Head(new) = new[1] /\ Len(new) \in Nat /\ Len(new) >= 1
        BY <2>1, Removed
    <2>3. QED  BY <2>2 DEF R
<1>3. r.dest \in Dest /\ r.dest \in Families[family] /\ r.gw \in NextHop
    BY <1>2, FamiliesAre DEF TypeOK
<1>4. /\ Created(r.dest) /\ (~Touched => r.gw \in LastRead(cand[r.dest]))
      /\ \A j \in 1..Len(new) : new[j].dest = r.dest => j = 1
    BY <1>2 DEF PlanInv
<1>5. ~Kept(r.dest) /\ ~Dropped(r.dest) /\ Hops(running[r.dest]) = {}
    BY <1>4 DEF Created, Kept, Dropped, Hops
<1>6. Planned(r.dest) /\ Waiting(r.dest)
    BY <1>1, <1>2 DEF Planned, InNew, Waiting
<1>7. Undisturbed => fib[r.dest] = {}
    BY <1>1, <1>3, <1>5, <1>6 DEF EventInv, FibInv, DoneInv, Running
<1>8. CASE Refuse
    BY <1>1, <1>8, EventRefused
<1>9. CASE Error /\ ~Refuse
    <2>1. Undisturbed => Reason
        <3>1. r.gw = NoGateway \/ r.gw \in fib[r.dest]
            BY <1>1, <1>2, <1>9 DEF routing_apply_new_routes, Error, Fail
        <3>2. CASE Touched
            BY <3>2 DEF Touched, Reason
        <3>3. CASE ~Touched /\ Undisturbed
            BY <1>3, <1>4, <1>7, <3>1, <3>3 DEF Reason, LastRead, Leaves
        <3>4. QED  BY <3>2, <3>3
    <2>2. Undisturbed' => Undisturbed
        BY <1>1, <1>9 DEF Undisturbed, Same, Error
    <2>3. QED  BY <1>1, <1>9, <2>1, <2>2, EventFails DEF Error, Fail
<1>10. CASE ~(Refuse \/ Error)
    <2>1. /\ fib' = [fib EXCEPT ![r.dest] = @ \cup {r.gw}] /\ new' = Tail(new)
          /\ UNCHANGED <<event, family, pending, del, refused>>
        BY <1>2, <1>10 DEF routing_apply_new_routes
    <2>2. Len(new') = Len(new) - 1 /\ \A k \in 1..(Len(new) - 1) : new'[k] = new[k + 1]
        BY <1>1, <2>1, Removed
    <2>3. fib'[r.dest] = fib[r.dest] \cup {r.gw} /\ \A d \in Dest : d # r.dest => fib'[d] = fib[d]
        BY <1>3, <2>1 DEF TypeOK
    <2>4. ASSUME NEW d \in Dest PROVE InNew(d)' <=> InNew(d) /\ d # r.dest
        <3>1. ASSUME NEW k \in 1..Len(new), new[k].dest = d, d # r.dest PROVE InNew(d)'
            <4>1. k - 1 \in 1..Len(new') /\ new'[k - 1] = new[k]
                BY <1>2, <2>2, <3>1
            <4>2. QED  BY <3>1, <4>1 DEF InNew
        <3>2. ASSUME NEW k \in 1..Len(new'), new'[k].dest = d PROVE InNew(d) /\ d # r.dest
            <4>1. k + 1 \in 1..Len(new) /\ k + 1 # 1 /\ new'[k] = new[k + 1]
                BY <1>2, <2>2
            <4>2. QED  BY <1>4, <3>2, <4>1 DEF InNew
        <3>3. QED  BY <3>1, <3>2 DEF InNew
    <2>5. ASSUME NEW d \in Dest, d # r.dest PROVE Planned(d)' <=> Planned(d)
        BY <2>1, <2>4, <2>5 DEF Planned, InDel
    <2>6. ~InDel(r.dest) /\ ~(family = 1 /\ r.dest \in Dest6)
        BY <1>3, <1>5, FamiliesAre, RoutingAssumption DEF InDel, PlanInv
    <2>7. ~Planned(r.dest)'
        BY <1>1, <1>3, <2>1, <2>4, <2>6 DEF Planned, InDel
    <2>8. QED
        BY <1>1, <1>3, <1>4, <1>5, <1>6, <1>7, <2>1, <2>3, <2>5, <2>7, EventApplied
<1>11. QED  BY <1>8, <1>9, <1>10

LEMMA EventDeleteRoute ==
    ASSUME TypeOK, PlanInv, EventInv, routing_apply_delete_routes
    PROVE  EventInv'
<1>1. /\ event = "change" /\ Same /\ del # <<>> /\ pending = {} /\ new = <<>> /\ Callback
      /\ del \in Seq(Families[family]) /\ DeleteRoute(Head(del))
    BY DEF routing_apply_delete_routes, Applying, Callback, Same, TypeOK
<1>2. PICK e \in Families[family] : e = del[1] /\ e = Head(del) /\ Len(del) \in Nat /\ Len(del) >= 1
    BY <1>1, Removed
<1>3. e \in Dest
    BY <1>2, FamiliesAre DEF TypeOK
<1>4. Dropped(e) /\ \A j \in 1..Len(del) : del[j] = e => j = 1
    BY <1>2 DEF PlanInv
<1>5. ~Kept(e) /\ ~Created(e) /\ Hops(running[e]) # {}
    <2>1. running[e] \in Route
        BY <1>3, <1>4 DEF TypeOK, Routes, Dropped
    <2>2. QED  BY <1>4, <2>1, HopsTyped DEF Created, Kept, Dropped
<1>6. Planned(e) /\ Waiting(e)
    BY <1>1, <1>2 DEF Planned, InDel, Waiting
<1>7. Undisturbed => fib[e] = Hops(running[e])
    BY <1>1, <1>3, <1>5, <1>6 DEF EventInv, FibInv, DoneInv, Running
<1>8. CASE Refuse
    BY <1>1, <1>8, EventRefused
<1>9. CASE Error /\ ~Refuse
    <2>1. fib[e] = {}
        BY <1>1, <1>2, <1>9 DEF DeleteRoute, Error, Fail
    <2>2. Undisturbed' => Undisturbed
        BY <1>1, <1>9 DEF Undisturbed, Same, Error
    <2>3. QED  BY <1>1, <1>5, <1>7, <1>9, <2>1, <2>2, EventFails DEF Error, Fail
<1>10. CASE ~(Refuse \/ Error)
    <2>1. PICK rest \in Deleted(e) : fib' = [fib EXCEPT ![e] = rest]
        BY <1>1, <1>2, <1>10 DEF DeleteRoute
    <2>2. del' = Tail(del) /\ UNCHANGED <<event, family, pending, new, refused>>
        BY <1>1, <1>2, <1>10 DEF DeleteRoute
    <2>3. Len(del') = Len(del) - 1 /\ \A k \in 1..(Len(del) - 1) : del'[k] = del[k + 1]
        BY <1>1, <2>2, Removed
    <2>4. fib'[e] = rest /\ \A d \in Dest : d # e => fib'[d] = fib[d]
        BY <1>3, <2>1 DEF TypeOK
    <2>5. Undisturbed => rest = {} \/ Partly(e)
        BY <1>3, <1>7, <2>1 DEF Deleted, Partly, Several
    <2>6. ASSUME NEW d \in Dest PROVE InDel(d)' <=> InDel(d) /\ d # e
        <3>1. ASSUME NEW k \in 1..Len(del), del[k] = d, d # e PROVE InDel(d)'
            <4>1. k - 1 \in 1..Len(del') /\ del'[k - 1] = del[k]
                BY <1>2, <2>3, <3>1
            <4>2. QED  BY <3>1, <4>1 DEF InDel
        <3>2. ASSUME NEW k \in 1..Len(del'), del'[k] = d PROVE InDel(d) /\ d # e
            <4>1. k + 1 \in 1..Len(del) /\ k + 1 # 1 /\ del'[k] = del[k + 1]
                BY <1>2, <2>3
            <4>2. QED  BY <1>4, <3>2, <4>1 DEF InDel
        <3>3. QED  BY <3>1, <3>2 DEF InDel
    <2>7. ASSUME NEW d \in Dest, d # e PROVE Planned(d)' <=> Planned(d)
        BY <2>2, <2>6, <2>7 DEF Planned, InNew
    <2>8. ~InNew(e) /\ ~(family = 1 /\ e \in Dest6)
        BY <1>1, <1>2, <1>3, <1>5, FamiliesAre, RoutingAssumption DEF InNew, PlanInv
    <2>9. ~Planned(e)'
        BY <1>1, <1>3, <2>2, <2>6, <2>8 DEF Planned, InNew
    <2>10. QED
        BY <1>1, <1>3, <1>4, <1>5, <1>6, <2>2, <2>4, <2>5, <2>7, <2>9, EventApplied
<1>11. QED  BY <1>8, <1>9, <1>10

\* After IPv4 the changes of IPv6 are planned, after IPv6 none is.
LEMMA EventFinish == ASSUME TypeOK, PlanInv, EventInv, FinishFamily PROVE EventInv'
<1>1. /\ event = "change" /\ Same /\ pending = {} /\ new = <<>> /\ del = <<>>
      /\ UNCHANGED <<fib, refused, new, del>> /\ Running /\ event' # "failed"
    BY DEF FinishFamily, Applying, Callback, Same, Running
<1>2. FailedInv'
    BY <1>1 DEF FailedInv
<1>3. \A d \in Dest : ~InNew(d) /\ ~InDel(d) /\ ~InNew(d)' /\ ~InDel(d)'
    BY <1>1 DEF InNew, InDel
<1>4. ASSUME NEW d \in Dest PROVE FibInv(d)'
    <2>1. FibInv(d)
        BY DEF EventInv
    <2>2. /\ (Kept(d)' <=> Kept(d)) /\ (Created(d)' <=> Created(d))
          /\ (Dropped(d)' <=> Dropped(d)) /\ (Partly(d)' <=> Partly(d))
          /\ Hops(running[d])' = Hops(running[d]) /\ LastRead(cand[d])' = LastRead(cand[d])
          /\ (Touched' <=> Touched) /\ (Undisturbed' <=> Undisturbed)
        BY <1>1, SameEdit DEF Undisturbed, Same
    <2>3. KeptInv(d)'
        BY <1>1, <2>1, <2>2 DEF FibInv, KeptInv, Same
    <2>4. CASE family = 1 /\ family' = 2 /\ pending' = Changed(Dest6) /\ UNCHANGED event
        <3>1. Waiting(d) <=> d \in Dest6
            BY <1>1, <1>3, <2>4 DEF Waiting, Planned
        <3>2. Planned(d)' <=> d \in Dest6 /\ running[d] # cand[d]
            BY <1>3, <2>4 DEF Planned, Changed
        <3>3. Waiting(d)' <=> d \in Dest6 /\ running[d] # cand[d]
            BY <1>1, <2>4, <3>2 DEF Waiting
        <3>4. NewInv(d)'
            BY <2>2, <2>4, <3>2, FamiliesAre DEF NewInv, Created
        <3>5. Running /\ (running[d] = cand[d] => ~Dropped(d) /\ ~Created(d))
            BY <1>1 DEF Dropped, Created
        <3>6. DoneInv(d)'
            BY <1>1, <2>1, <2>2, <3>1, <3>3, <3>5 DEF FibInv, DoneInv, Same
        <3>7. QED  BY <2>3, <3>4, <3>6 DEF FibInv
    <2>5. CASE family = 2 /\ event' = "applied"
        <3>1. ~Waiting(d) /\ ~Waiting(d)'
            BY <1>1, <1>3, <2>5 DEF Waiting, Planned
        <3>2. NewInv(d)'
            BY <2>5 DEF NewInv
        <3>3. DoneInv(d)'
            BY <1>1, <2>1, <2>2, <3>1 DEF FibInv, DoneInv, Same
        <3>4. QED  BY <2>3, <3>2, <3>3 DEF FibInv
    <2>6. QED  BY <2>4, <2>5 DEF FinishFamily
<1>5. QED  BY <1>2, <1>4 DEF EventInv

LEMMA EventNext == TypeOK /\ PlanInv /\ EventInv /\ [Next]_vars => EventInv'
<1> SUFFICES ASSUME TypeOK, PlanInv, EventInv, [Next]_vars PROVE EventInv'
    OBVIOUS
<1>1. CASE NoSocket
    BY <1>1, EventRefused DEF NoSocket, Applying
<1>2. CASE Step
    BY <1>1, <1>2, EventRead, EventNewRoute, EventDeleteRoute, EventFinish DEF Step
<1>3. CASE UNCHANGED vars
    <2>1. UNCHANGED <<running, cand, event, family, pending, new, del, fib, instep, disturbed, refused>>
        BY <1>3 DEF vars, plan, history, eventHistory
    <2>2. Same
        BY <2>1 DEF Same
    <2>3. \A d : (Waiting(d)' <=> Waiting(d)) /\ (Planned(d)' <=> Planned(d))
        BY <2>1 DEF Waiting, Planned, InNew, InDel
    <2>4. (Undisturbed' <=> Undisturbed) /\ (Running' <=> Running)
        BY <2>1 DEF Undisturbed, Running
    <2>5. \A d : (KeptInv(d)' <=> KeptInv(d)) /\ (NewInv(d)' <=> NewInv(d))
        BY <2>1, <2>2, <2>3, SameEdit DEF KeptInv, NewInv
    <2>6. \A d : DoneInv(d)' <=> DoneInv(d)
        BY <2>1, <2>2, <2>3, <2>4, SameEdit DEF DoneInv
    <2>7. QED  BY <2>1, <2>2, <2>4, <2>5, <2>6, SameEdit DEF EventInv, FailedInv, FibInv
<1>4. QED  BY <1>2, <1>3, EventPlugin, EventSysrepo, EventOthers DEF Next

LEMMA EventHolds == Spec => []EventInv
<1>1. Init => EventInv
    BY DEF Init, EventInv, FailedInv, FibInv, KeptInv, NewInv, DoneInv, Running
<1>2. QED  BY <1>1, EventNext, PlanHolds, PTL DEF Spec

\* The verdict on an undisturbed edit is right, for any number of routes of
\* either family, read and applied in any order.
THEOREM Verdict == Spec => []VerdictRight
<1>1. TypeOK /\ EventInv => VerdictRight
    <2> SUFFICES ASSUME TypeOK, EventInv, Undisturbed PROVE VerdictRight
        BY DEF VerdictRight
    <2>1. ASSUME event = "applied", \A d \in Dest : Kept(d) => running[d].hops = cand[d].hops,
                 NEW d \in Dest
          PROVE  \/ fib[d] = Hops(cand[d])
                 \/ Created(d) /\ Several(cand[d]) /\ \E g \in Hops(cand[d]) : fib[d] = {g}
                 \/ d \in Dest4 /\ cand[d] = NoRoute /\ Several(running[d])
        <3>1. ~Touched
            BY <2>1 DEF Touched, GatewayChanges, ChangedGateways, Leaves
        <3>2. KeptInv(d) /\ DoneInv(d) /\ Running /\ ~Waiting(d)
            BY <2>1 DEF EventInv, FibInv, Running, Waiting
        <3>3. CASE Kept(d)
            BY <2>1, <3>2, <3>3 DEF KeptInv, Undisturbed, Kept, Hops
        <3>4. CASE Created(d)
            <4>1. PICK g \in LastRead(cand[d]) : fib[d] = {g}
                BY <3>1, <3>2, <3>4 DEF DoneInv
            <4>2. g \in Hops(cand[d])
                BY <3>4, HopsTyped DEF TypeOK, Routes, Created
            <4>3. QED  BY <3>4, <4>1, <4>2 DEF Several
        <3>5. CASE cand[d] = NoRoute
            BY <3>2, <3>5 DEF DoneInv, Dropped, Partly, Hops
        <3>6. QED  BY <3>3, <3>4, <3>5 DEF Kept, Created
    <2>2. QED  BY <2>1 DEF VerdictRight, EventInv, FailedInv, Reason
<1>2. QED  BY <1>1, TypeCorrect, EventHolds, PTL

\* However an edit ends, it leaves alone the routes that stay.
THEOREM KeptSurvive == Spec => []KeptRoutesSurvive
<1>1. EventInv => KeptRoutesSurvive
    BY DEF EventInv, FibInv, KeptInv, KeptRoutesSurvive
<1>2. QED  BY <1>1, EventHolds, PTL

\* Make before break: no route of a family is deleted before every new route of
\* that family is in the kernel.
THEOREM NewFirst == Spec => NewBeforeDelete
<1> DEFINE MadeFirst ==
        event = "change" /\ ~disturbed' =>
            \A d \in Families[family] : ~(fib[d] \subseteq fib'[d]) =>
                \A e \in Families[family] : Created(e) => fib[e] # {}
<1>1. TypeOK /\ PlanInv /\ EventInv /\ [Next]_vars => MadeFirst
    <2> SUFFICES ASSUME TypeOK, PlanInv, EventInv, [Next]_vars, event = "change", ~disturbed',
                        NEW d \in Families[family], ~(fib[d] \subseteq fib'[d]),
                        NEW e \in Families[family], Created(e)
                 PROVE  fib[e] # {}
        OBVIOUS
    <2>1. d \in Dest /\ e \in Dest /\ ~disturbed
        <3>1. disturbed' = disturbed \/ Plugin \/ Sysrepo \/ Others
            BY DEF Next, Step, CollectCreated, CollectDeleted, CollectKept, Collecting, NoSocket,
                   Applying, routing_apply_new_routes, routing_apply_delete_routes, FinishFamily,
                   Callback, vars, history, eventHistory
        <3>2. fib' = fib \/ Others \/ ~(Plugin \/ Sysrepo)
            BY DEF Plugin, PluginStart, routing_startup_load_ribs,
                   routing_startup_load_control_plane_protocols, MergeRoutes, CopyRunning, Subscribe,
                   PluginEnd, InInit, Sysrepo, ApplyChanges, DoneEvent, DropEdit, EditWithoutPlugin
        <3>3. ~Others
            BY DEF Others, ExternalRoute
        <3>4. QED  BY <3>1, <3>2, <3>3, FamiliesAre DEF TypeOK
    <2>2. CASE routing_apply_delete_routes
        <3>1. pending = {} /\ new = <<>>
            BY <2>2 DEF routing_apply_delete_routes, Applying
        <3>2. ~InNew(e) /\ ~InDel(e) /\ ~(family = 1 /\ e \in Dest6)
            BY <2>1, <3>1, FamiliesAre, RoutingAssumption
            DEF InNew, InDel, PlanInv, Created, Dropped
        <3>3. QED  BY <2>1, <3>1, <3>2 DEF Planned, EventInv, FibInv, NewInv
    <2>3. CASE routing_apply_new_routes
        <3>1. \A x \in Dest : fib[x] \subseteq fib'[x]
            BY <2>3 DEF routing_apply_new_routes, TypeOK, Refuse, Error
        <3>2. QED  BY <2>1, <3>1
    <2>4. CASE ~routing_apply_new_routes /\ ~routing_apply_delete_routes
        <3>1. fib' = fib \/ Others
            BY <2>4 DEF Next, Step, CollectCreated, CollectDeleted, CollectKept, NoSocket, Refuse,
                   Error, FinishFamily, Plugin, PluginStart, routing_startup_load_ribs,
                   routing_startup_load_control_plane_protocols, MergeRoutes, CopyRunning, Subscribe,
                   PluginEnd, InInit, Sysrepo, ApplyChanges, DoneEvent, DropEdit, EditWithoutPlugin,
                   vars
        <3>2. ~Others
            BY DEF Others, ExternalRoute
        <3>3. QED  BY <3>1, <3>2
    <2>5. QED  BY <2>2, <2>3, <2>4
<1>2. TypeOK /\ PlanInv /\ EventInv /\ [Next]_vars => [MadeFirst]_vars
    BY <1>1
<1>3. QED  BY <1>2, PlanHolds, EventHolds, PTL DEF Spec, NewBeforeDelete
=============================================================================
