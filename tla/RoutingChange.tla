---------------------------- MODULE RoutingChange ----------------------------
(***************************************************************************)
(* The routing plugin: how its static routes are loaded from the kernel,   *)
(* and how an edit of the static routes reaches the kernel and, once       *)
(* committed, the startup datastore.                                       *)
(*                                                                         *)
(* routing_control_plane_protocol_list_change_cb applies the IPv4 routes,  *)
(* then the IPv6 routes.  For each family it collects the changed leaves   *)
(* into the lists new_routes and delete_routes, following the pointer      *)
(* routes_head to the route it saw last, then adds every new route and     *)
(* deletes every old one, one netlink request each.                        *)
(***************************************************************************)
EXTENDS Integers, Sequences, FiniteSets

CONSTANTS
    Dest4, Dest6,   \* destination prefixes of the two families
    Gateway,        \* next-hop addresses
    NoGateway,      \* a next hop without address: an outgoing interface
    Simple, Entry,  \* places of next hops: the simple one, entries of a next-hop-list
    NoRoute,        \* the datastore has no route to the destination
    ClientRoutes,   \* the sets of routes clients may ask for
    HostRoutes,     \* the next hops the kernel may have for each destination at first
    MaxStarts,      \* bound on starts of the plugin
    MaxExternal,    \* bound on changes by others to the kernel
    MaxRefusal      \* bound on requests refused, per event

Dest == Dest4 \cup Dest6
NextHop == Gateway \cup {NoGateway}

\* The route of a list entry: a simple next hop or a next-hop-list, and whether it
\* has a description.
HopList == UNION {[P -> NextHop] : P \in (SUBSET Entry) \ {{}}}
Route == [hops : [{Simple} -> NextHop] \cup HopList, description : BOOLEAN]
Routes == [Dest -> Route \cup {NoRoute}]

ASSUME RoutingAssumption ==
    /\ Dest4 \cap Dest6 = {}
    /\ NoGateway \notin Gateway /\ NoRoute \notin Route /\ Simple \notin Entry
    /\ ClientRoutes \subseteq Routes /\ HostRoutes \subseteq [Dest -> SUBSET NextHop]
    /\ MaxStarts \in Nat /\ MaxExternal \in Nat /\ MaxRefusal \in Nat

VARIABLES
    running, startup,   \* the two datastores
    loaded,     \* the control-plane-protocol list of running is not empty
    plugin,     \* step of sr_plugin_init_cb; "up" once the plugin is initialized
    dumped,     \* the routes it has read from the kernel and not yet stored
    cand,       \* the routes the current event asks for
    event,      \* what the subscription thread is doing
    family,     \* 1 for IPv4, 2 for IPv6: apply_static_routes_changes
    pending,    \* destinations whose changes are still to be read
    head,       \* which list routes_head points into, if any
    new, del,   \* new_routes and delete_routes
    fib,        \* static routes of the kernel's main table
    starts,     \* starts of the plugin
    external,   \* changes by others
    refused,    \* calls refused since the event, or the initialization, began
    instep,     \* history: the kernel was in step when the event began
    disturbed,  \* history: and somebody else has changed it since
    missed      \* history: a commit has not been copied to startup

life == <<plugin, dumped, starts>>
plan == <<family, pending, head, new, del>>
eventHistory == <<instep, disturbed, refused>>
history == <<external, eventHistory, missed>>
vars == <<running, startup, loaded, life, cand, event, plan, fib, history>>

Families == <<Dest4, Dest6>>
NoRoutes == [d \in Dest |-> NoRoute]
Changed(dests) == {d \in dests : running[d] # cand[d]}

NoEvent == instep' = FALSE /\ disturbed' = FALSE /\ refused' = 0

\* The next hops of a route, and where it has a next-hop-address.
Hops(r) == IF r = NoRoute THEN {} ELSE {r.hops[p] : p \in DOMAIN r.hops}
Leaves(r) == {p \in DOMAIN r.hops : r.hops[p] # NoGateway}

\* The kernel has exactly the routes of c.
InStep(k, c) == \A d \in Dest : k[d] = Hops(c[d])

Init ==
    /\ running = NoRoutes /\ startup = NoRoutes /\ loaded = FALSE
    /\ plugin = "off" /\ dumped = NoRoutes /\ cand = NoRoutes /\ event = "idle"
    /\ family = 1 /\ pending = {} /\ head = "none" /\ new = <<>> /\ del = <<>>
    /\ fib \in HostRoutes
    /\ instep = FALSE /\ starts = 0 /\ external = 0 /\ disturbed = FALSE /\ refused = 0 /\ missed = FALSE

-----------------------------------------------------------------------------
(* sr_plugin_init_cb and the end of the plugin                             *)

InInit(here) ==
    /\ plugin = here
    /\ UNCHANGED <<event, plan, fib, instep, external, disturbed>>

KeepData == UNCHANGED <<running, cand, startup, loaded, missed>>

\* What was read so far is freed, and the plugin is not loaded.
InitFails == plugin' = "off" /\ dumped' = NoRoutes /\ UNCHANGED starts

RefuseInit == refused < MaxRefusal /\ refused' = 0 /\ InitFails

\* The control-plane-protocol list of running is read: if it is empty, or
\* cannot be read, the routes of the kernel are loaded. Otherwise nothing is
\* loaded, and nothing is applied to the kernel.
PluginStart ==
    /\ InInit("off") /\ starts < MaxStarts /\ starts' = starts + 1
    /\ \/ plugin' = (IF loaded THEN "subscribe" ELSE "ribs") /\ refused' = 0
       \/ plugin' = "ribs" /\ MaxRefusal > 0 /\ refused' = 1
    /\ KeepData /\ UNCHANGED dumped

\* The tables of the kernel, for the list of RIBs, which is left out.
routing_startup_load_ribs ==
    /\ InInit("ribs") /\ KeepData
    /\ \/ plugin' = "routes" /\ UNCHANGED <<dumped, starts, refused>>
       \/ RefuseInit

\* A multipath route of IPv6 cannot be written as a next-hop-list.
Loadable == \A d \in Dest6 : Cardinality(fib[d]) <= 1

\* One static route per destination of the kernel, with a simple next hop.
SimpleRoute(g) == [hops |-> [p \in {Simple} |-> g], description |-> FALSE]
LoadedRoutes ==
    {[d \in Dest |-> IF fib[d] = {} THEN NoRoute ELSE SimpleRoute(first[d])] :
        first \in {f \in [Dest -> NextHop] : \A d \in Dest : fib[d] = {} \/ f[d] \in fib[d]}}

routing_startup_load_control_plane_protocols ==
    /\ InInit("routes") /\ KeepData
    /\ \/ /\ Loadable /\ dumped' \in LoadedRoutes
          /\ plugin' = "merge" /\ UNCHANGED <<starts, refused>>
       \/ RefuseInit
       \/ ~Loadable /\ InitFails /\ UNCHANGED refused

\* The leaves of c, a loaded route, are merged into those of r: a next-hop-address
\* takes the place of another, an outgoing interface stands beside it, and
\* either takes the place of a next-hop-list.
MergedRoute(r, c) ==
    IF c = NoRoute THEN r
    ELSE IF r = NoRoute THEN c
    ELSE IF Leaves(c) = {} /\ DOMAIN r.hops = {Simple} THEN r
    ELSE [r EXCEPT !.hops = c.hops]

\* Running may have been edited since it was found empty.
MergeRoutes ==
    /\ InInit("merge")
    /\ \/ /\ running' = [d \in Dest |-> MergedRoute(running[d], dumped[d])]
          /\ cand' = running' /\ loaded' = TRUE /\ missed' = TRUE
          /\ plugin' = "copy" /\ dumped' = NoRoutes /\ UNCHANGED <<starts, refused>>
       \/ RefuseInit /\ UNCHANGED <<running, cand, loaded, missed>>
    /\ UNCHANGED startup

\* Running is copied to startup.
CopyRunning ==
    /\ InInit("copy") /\ UNCHANGED <<running, cand, loaded>>
    /\ \/ /\ startup' = running /\ missed' = FALSE
          /\ plugin' = "subscribe" /\ UNCHANGED <<dumped, starts, refused>>
       \/ RefuseInit /\ UNCHANGED <<startup, missed>>

Subscribe ==
    /\ InInit("subscribe") /\ KeepData
    /\ \/ plugin' = "up" /\ refused' = 0 /\ UNCHANGED <<dumped, starts>>
       \/ RefuseInit

\* The plugin ends, at any time: sysrepo drops an edit that is being applied,
\* and a commit it has not been told of is not copied to startup.
PluginEnd ==
    /\ plugin # "off" /\ InitFails
    /\ running' = (IF event = "applied" THEN cand ELSE running)
    /\ cand' = running' /\ event' = "idle"
    /\ missed' = (missed \/ event = "applied")
    /\ family' = 1 /\ pending' = {} /\ head' = "none" /\ new' = <<>> /\ del' = <<>>
    /\ NoEvent /\ UNCHANGED <<startup, loaded, fib, external>>

-----------------------------------------------------------------------------
(* Events                                                                  *)

\* SR_EV_CHANGE
ApplyChanges ==
    /\ plugin = "up" /\ event = "idle"
    /\ \E c \in ClientRoutes \ {running} : cand' = c
    /\ event' = "change" /\ family' = 1
    /\ pending' = {d \in Dest4 : running[d] # cand'[d]}
    /\ instep' = InStep(fib, running) /\ disturbed' = FALSE /\ refused' = 0
    /\ UNCHANGED <<running, startup, loaded, life, head, new, del, fib, external, missed>>

\* Fault: running is not copied to startup.
DoneEvent_no_copy ==
    /\ event = "applied" /\ event' = "idle" /\ running' = cand
    /\ NoEvent /\ UNCHANGED <<startup, loaded, life, cand, plan, fib, external, missed>>

\* SR_EV_DONE: the commit is copied to startup, or the copy fails.
DoneEvent ==
    /\ event = "applied" /\ event' = "idle" /\ running' = cand
    /\ \/ startup' = cand /\ missed' = FALSE
       \/ refused < MaxRefusal /\ missed' = TRUE /\ UNCHANGED startup
    /\ NoEvent /\ UNCHANGED <<loaded, life, cand, plan, fib, external>>

\* SR_EV_ABORT and the answer to a failed callback: running stays as it was,
\* nothing is undone.
DropEdit ==
    /\ event \in {"applied", "failed"} /\ event' = "idle" /\ cand' = running
    /\ NoEvent /\ UNCHANGED <<running, startup, loaded, life, plan, fib, external, missed>>

\* Fault: the error path keeps the lists.
Fail_without_free ==
    /\ event' = "failed" /\ pending' = {} /\ head' = "none"
    /\ UNCHANGED <<family, new, del>>

\* error_out: the lists are freed and the callback fails.
Fail == /\ event' = "failed" /\ family' = 1
        /\ pending' = {} /\ head' = "none" /\ new' = <<>> /\ del' = <<>>

Callback ==
    /\ event = "change"
    /\ UNCHANGED <<running, startup, loaded, life, cand, instep, external, disturbed, missed>>

Refuse == Fail /\ refused < MaxRefusal /\ refused' = refused + 1 /\ UNCHANGED fib
Error == Fail /\ UNCHANGED <<fib, refused>>

-----------------------------------------------------------------------------
(* Collecting the changes of one family: the leaves of a list entry come   *)
(* together, its key first; the entries come in any order.                 *)

Collecting(d) == Callback /\ d \in pending

\* The gateway of a new route is the next-hop-address that is read last, be it that
\* of a simple next hop or of an entry of a next-hop-list.
LastRead(r) == IF Leaves(r) = {} THEN {NoGateway} ELSE {r.hops[p] : p \in Leaves(r)}

\* A created entry becomes a new route, which routes_head then points to.
CollectCreated(d) ==
    /\ Collecting(d) /\ running[d] = NoRoute
    /\ \E g \in LastRead(cand[d]) : new' = Append(new, [dest |-> d, gw |-> g])
    /\ head' = "new" /\ pending' = pending \ {d}
    /\ UNCHANGED <<event, family, del, fib, refused>>

CollectDeleted(d) ==
    /\ Collecting(d) /\ cand[d] = NoRoute
    /\ del' = Append(del, d)
    /\ head' = "del" /\ pending' = pending \ {d}
    /\ UNCHANGED <<event, family, new, fib, refused>>

\* The next-hop-address leaves that disappear from an entry, or appear in it.
ChangedGateways(d) ==
    {running[d].hops[p] : p \in Leaves(running[d]) \ Leaves(cand[d])}
    \cup {cand[d].hops[p] : p \in Leaves(cand[d]) \ Leaves(running[d])}
DescriptionChanges(d) == running[d].description # cand[d].description
GatewayChanges(d) == ChangedGateways(d) # {}

\* Fault: a next-hop-address that disappears takes the route with it.
CollectKept_deletes(d) ==
    /\ Collecting(d) /\ running[d] # NoRoute /\ cand[d] # NoRoute
    /\ del' = IF GatewayChanges(d) THEN Append(del, d) ELSE del
    /\ pending' = pending \ {d}
    /\ UNCHANGED <<event, family, head, new, fib, refused>>

\* A description or next-hop-address that appears in or disappears from an
\* entry that stays is applied to the route routes_head points to, whichever
\* that is, and again the one that is read last stands; a value that is modified
\* is ignored.
CollectKept(d) ==
    /\ Collecting(d) /\ running[d] # NoRoute /\ cand[d] # NoRoute
    /\ \/ /\ DescriptionChanges(d) \/ GatewayChanges(d)
          /\ head = "none" /\ Error
       \/ /\ ~(DescriptionChanges(d) \/ GatewayChanges(d)) \/ head # "none"
          /\ IF GatewayChanges(d) /\ head = "new"
                THEN \E g \in ChangedGateways(d) : new' = [new EXCEPT ![Len(new)].gw = g]
                ELSE UNCHANGED new
          /\ pending' = pending \ {d}
          /\ UNCHANGED <<event, family, head, del, fib, refused>>

-----------------------------------------------------------------------------
(* Applying them                                                           *)

Applying == Callback /\ pending = {}

\* No netlink socket can be had.
NoSocket == Applying /\ Refuse

\* The kernel has no use for a route without next hop, and refuses a second
\* route with the same one; another next hop is a second route.
routing_apply_new_routes ==
    /\ Applying /\ new # <<>>
    /\ LET r == Head(new)
           possible == r.gw # NoGateway /\ r.gw \notin fib[r.dest]
       IN  \/ /\ possible
              /\ fib' = [fib EXCEPT ![r.dest] = @ \cup {r.gw}] /\ new' = Tail(new)
              /\ UNCHANGED <<event, family, pending, head, del, refused>>
           \/ possible /\ Refuse
           \/ ~possible /\ Error

\* What is left of the routes to d when the kernel deletes one by its
\* destination only: IPv4 deletes a route, IPv6 all of them.
Deleted(d) == IF d \in Dest4 THEN {fib[d] \ {g} : g \in fib[d]} ELSE {{}}

DeleteRoute(d) ==
    \/ /\ fib[d] # {}
       /\ \E rest \in Deleted(d) : fib' = [fib EXCEPT ![d] = rest]
       /\ del' = Tail(del)
       /\ UNCHANGED <<event, family, pending, head, new, refused>>
    \/ fib[d] # {} /\ Refuse
    \/ fib[d] = {} /\ Error

\* Fault: the old routes are deleted first.
routing_apply_delete_routes_first == Applying /\ del # <<>> /\ DeleteRoute(Head(del))

routing_apply_delete_routes ==
    Applying /\ new = <<>> /\ del # <<>> /\ DeleteRoute(Head(del))

\* Fault: the callback returns after IPv4.
FinishFamily_ipv4_only ==
    /\ Applying /\ new = <<>> /\ del = <<>>
    /\ event' = "applied" /\ family' = 1 /\ head' = "none"
    /\ UNCHANGED <<pending, new, del, fib, refused>>

\* IPv6 after IPv4, then the callback returns.
FinishFamily ==
    /\ Applying /\ new = <<>> /\ del = <<>>
    /\ \/ family = 1 /\ family' = 2 /\ pending' = Changed(Dest6) /\ UNCHANGED event
       \/ family = 2 /\ family' = 1 /\ event' = "applied" /\ UNCHANGED pending
    /\ head' = "none"
    /\ UNCHANGED <<new, del, fib, refused>>

-----------------------------------------------------------------------------
(* Others                                                                  *)

\* Until the plugin has subscribed, edits are committed without it.
EditWithoutPlugin ==
    /\ plugin # "up" /\ event = "idle"
    /\ running' \in ClientRoutes \ {running} /\ loaded' = TRUE
    /\ cand' = running' /\ missed' = TRUE
    /\ UNCHANGED <<startup, life, event, plan, fib, instep, external, disturbed, refused>>

\* Somebody adds or deletes a static route.
ExternalRoute(d, g) ==
    /\ external < MaxExternal /\ external' = external + 1 /\ disturbed' = (event # "idle")
    /\ fib' = [fib EXCEPT ![d] = IF g \in @ THEN @ \ {g} ELSE @ \cup {g}]
    /\ UNCHANGED <<running, startup, loaded, life, cand, event, plan,
                   instep, refused, missed>>

-----------------------------------------------------------------------------
Step == \/ \E d \in Dest : CollectCreated(d) \/ CollectDeleted(d) \/ CollectKept(d)
        \/ NoSocket \/ routing_apply_new_routes \/ routing_apply_delete_routes
        \/ FinishFamily

Plugin == \/ PluginStart \/ routing_startup_load_ribs
          \/ routing_startup_load_control_plane_protocols
          \/ MergeRoutes \/ CopyRunning \/ Subscribe \/ PluginEnd

Sysrepo == ApplyChanges \/ DoneEvent \/ DropEdit \/ EditWithoutPlugin

Others == \E d \in Dest, g \in NextHop : ExternalRoute(d, g)

Next == Step \/ Plugin \/ Sysrepo \/ Others

Spec == Init /\ [][Next]_vars

-----------------------------------------------------------------------------
(* Properties                                                              *)

\* Types, and the lists of a callback do not outlive it, whichever way it
\* ends.
TypeOK ==
    /\ running \in Routes /\ startup \in Routes /\ cand \in Routes
    /\ loaded \in BOOLEAN /\ dumped \in Routes
    /\ plugin \in {"off", "ribs", "routes", "merge", "copy", "subscribe", "up"}
    /\ event # "idle" => plugin = "up"
    /\ event \in {"idle", "change", "applied", "failed"}
    /\ family \in {1, 2} /\ pending \subseteq Families[family]
    /\ head \in {"none", "new", "del"}
    /\ new \in Seq([dest : Families[family], gw : NextHop]) /\ del \in Seq(Families[family])
    /\ fib \in [Dest -> SUBSET NextHop]
    /\ instep \in BOOLEAN /\ disturbed \in BOOLEAN /\ missed \in BOOLEAN
    /\ starts \in 0..MaxStarts /\ external \in 0..MaxExternal /\ refused \in 0..MaxRefusal
    /\ event # "change" => pending = {} /\ new = <<>> /\ del = <<>> /\ head = "none"

Undisturbed == instep /\ ~disturbed /\ refused = 0

Kept(d) == running[d] # NoRoute /\ cand[d] # NoRoute
Created(d) == running[d] = NoRoute /\ cand[d] # NoRoute

\* More than one next hop.
Several(r) == \E g, h \in Hops(r) : g # h

\* The verdict on an edit that found the kernel in step and was not disturbed
\* is right. Accepted, and without changes of the next hops of routes that stay, it
\* leaves at every destination, of both families, what it asks for, but for
\* routes of several next hops: of those it creates one next hop is installed,
\* and of those of IPv4 it deletes one is removed. Rejected, it creates a route
\* without next-hop-address, or adds or removes a leaf of a route that stays.
VerdictRight ==
    Undisturbed =>
        /\ event = "applied" /\ (\A d \in Dest : Kept(d) => running[d].hops = cand[d].hops) =>
              \A d \in Dest :
                 \/ fib[d] = Hops(cand[d])
                 \/ Created(d) /\ Several(cand[d]) /\ \E g \in Hops(cand[d]) : fib[d] = {g}
                 \/ d \in Dest4 /\ cand[d] = NoRoute /\ Several(running[d])
        /\ event = "failed" =>
              \E d \in Dest : \/ Created(d) /\ Leaves(cand[d]) = {}
                              \/ Kept(d) /\ (DescriptionChanges(d) \/ GatewayChanges(d))

\* However an edit ends, it leaves alone the routes that stay.
KeptRoutesSurvive ==
    event # "idle" /\ instep /\ ~disturbed =>
        \A d \in Dest : Kept(d) => fib[d] = Hops(running[d])

\* Make before break: the callback deletes no route of a family before every
\* new route of that family is in the kernel.
NewBeforeDelete ==
    [][event = "change" /\ ~disturbed' =>
        \A d \in Families[family] : ~(fib[d] \subseteq fib'[d]) =>
            \A e \in Families[family] : Created(e) => fib[e] # {}]_vars

\* Between events startup holds what running holds, through restarts of the
\* plugin and rejected edits, unless a copy has failed or a commit was made
\* that the plugin did not see to its end; the next one it sees repairs that.
StartupFollowsRunning == event = "idle" /\ ~missed => startup = running

-----------------------------------------------------------------------------
(* What comments of the code say and the code does not do.                 *)

\* "data needed: destination-prefix and next-hop address": a new route is made
\* of the destination and a next hop of one and the same list entry.
NewRoutesGetTheirGateway ==
    \A k \in 1..Len(new) : new[k].gw \in Hops(cand[new[k].dest])
=============================================================================
