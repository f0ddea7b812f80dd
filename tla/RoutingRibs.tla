----------------------------- MODULE RoutingRibs -----------------------------
(***************************************************************************)
(* The RIB routes the routing plugin reports: routing_oper_get_rib_routes_cb *)
(* dumps the routes of the kernel, then its links, sorts the routes into   *)
(* RIBs and destinations (routing_collect_ribs, routing_collect_routes),   *)
(* marks the active ones and builds the tree.  Links are dumped once more  *)
(* for every next hop of a route that has several.  Routes and links may   *)
(* change between any two dumps.                                           *)
(***************************************************************************)
EXTENDS Integers, Sequences, FiniteSets

CONSTANTS
    Table,          \* names of routing tables
    Dest4, Dest6,   \* destinations of the two families
    RouteSet,       \* routes the kernel may hold
    NoRoute,        \* no route is being collected
    MaxIfindex,     \* bound on interface indexes
    MaxRoutes,      \* bound on the routes of the kernel
    MaxExternal,    \* bound on changes of routes and links per request
    MaxRefusal      \* bound on refused calls per request

Dest == Dest4 \cup Dest6
Ifindex == 1..MaxIfindex

\* A route is special (blackhole, unreachable, prohibit, local), or has next
\* hops. A next hop is known by its link, with which its gateway goes.
Route == [table : Table, dest : Dest, preference : Nat, special : BOOLEAN,
          hops : SUBSET Ifindex]

ASSUME RibsAssumption ==
    /\ Dest4 \cap Dest6 = {} /\ RouteSet \subseteq Route /\ NoRoute \notin Route
    /\ MaxIfindex \in Nat /\ MaxIfindex >= 2 /\ MaxRoutes \in Nat
    /\ MaxExternal \in Nat /\ MaxRefusal \in Nat

\* Two tables with the same name and different families are different RIBs.
Family(d) == IF d \in Dest4 THEN "ipv4" ELSE "ipv6"
RibKey == Table \X {"ipv4", "ipv6"}
RibOf(r) == <<r.table, Family(r.dest)>>

\* rib_list_element_cmp
SameRib(key, r) == key = RibOf(r)

VARIABLES
    link,           \* links of the kernel, by ifindex
    lastIndex,      \* the highest ifindex given out
    fib,            \* routes of the kernel, all tables
    step,           \* step of the getter
    routes_cache,   \* its dump of the routes
    link_cache,     \* its dump of the links
    ribs,           \* its list of RIBs: the routes of each destination
    todo,           \* routes still to be collected
    cur,            \* tmp_route
    left, got,      \* next hops of tmp_route to be added, and added
    external, refused,
    linkGone        \* history: a link was deleted since the request began

kernelVars == <<link, lastIndex, fib>>
caches == <<routes_cache, link_cache>>
tmp == <<cur, left, got>>
vars == <<kernelVars, step, caches, ribs, todo, tmp, external, refused, linkGone>>

NoRibs == [k \in {} |-> <<>>]
NoRoutes == [d \in Dest |-> <<>>]

\* Routes go through links that exist.
KernelOK(l, f) == \A r \in f : r.hops \subseteq l

Init ==
    /\ link = {1, 2} /\ lastIndex = 2
    /\ fib \in {f \in SUBSET RouteSet : Cardinality(f) <= MaxRoutes /\ KernelOK(link, f)}
    /\ step = "idle" /\ routes_cache = {} /\ link_cache = {} /\ ribs = NoRibs
    /\ todo = {} /\ cur = NoRoute /\ left = {} /\ got = {}
    /\ external = 0 /\ refused = 0 /\ linkGone = FALSE

-----------------------------------------------------------------------------
(* routing_oper_get_rib_routes_cb: the dumps                               *)

\* error_out: nothing is reported, all is freed.
Answer(result) ==
    /\ step' = result /\ routes_cache' = {} /\ link_cache' = {} /\ ribs' = NoRibs
    /\ todo' = {} /\ cur' = NoRoute /\ left' = {} /\ got' = {}

Request == UNCHANGED <<kernelVars, external, linkGone>>

Refuse == refused < MaxRefusal /\ refused' = refused + 1

\* rtnl_route_alloc_cache
DumpRoutes ==
    /\ step = "idle"
    /\ step' = "links" /\ routes_cache' = fib
    /\ external' = 0 /\ refused' = 0 /\ linkGone' = FALSE
    /\ UNCHANGED <<kernelVars, link_cache, ribs, todo, tmp>>

\* rtnl_link_alloc_cache
DumpLinks ==
    /\ step = "links" /\ step' = "ribs" /\ link_cache' = link
    /\ UNCHANGED <<routes_cache, ribs, todo, tmp, refused>> /\ Request

\* A socket, a dump or one of the name tables of iproute2 cannot be had.
RequestRefused == /\ step \in {"links", "ribs"}
                  /\ Refuse /\ Answer("failed") /\ Request

-----------------------------------------------------------------------------
(* routing_collect_ribs and routing_collect_routes                         *)

\* Fault: a RIB of that name is taken for the RIB of the route.
routing_collect_ribs_by_name ==
    /\ step = "ribs" /\ step' = "routes" /\ todo' = routes_cache
    /\ ribs' = [k \in {RibOf(CHOOSE q \in routes_cache : q.table = r.table) : r \in routes_cache}
                   |-> NoRoutes]
    /\ UNCHANGED <<caches, tmp, refused>> /\ Request

\* Fault: the routes are dumped after the links.
routing_collect_ribs_late ==
    /\ step = "ribs" /\ step' = "routes" /\ todo' = fib /\ routes_cache' = fib
    /\ ribs' = [k \in {RibOf(r) : r \in fib} |-> NoRoutes]
    /\ UNCHANGED <<link_cache, tmp, refused>> /\ Request

\* One RIB for each table and family that has a route. (The description and
\* the default flag of a RIB are left out.)
routing_collect_ribs ==
    /\ step = "ribs" /\ step' = "routes" /\ todo' = routes_cache
    /\ ribs' = [k \in {RibOf(r) : r \in routes_cache} |-> NoRoutes]
    /\ UNCHANGED <<caches, tmp, refused>> /\ Request

\* rtnl_link_get returns NULL, and rtnl_link_get_name reads through it.
Crash == Answer("crashed")

Several(r) == ~r.special /\ Cardinality(r.hops) # 1

\* The next route of the dump. A single next hop has its link looked up in the
\* cache; several (or none) are left to foreach_nexthop; a special route has
\* none. It would be an error if its RIB were not in the list.
CollectRoute(r) ==
    /\ step = "routes" /\ cur = NoRoute /\ r \in todo
    /\ IF \A k \in DOMAIN ribs : ~SameRib(k, r) THEN Answer("failed")
       ELSE IF ~r.special /\ ~Several(r) /\ ~(r.hops \subseteq link_cache) THEN Crash
       ELSE /\ cur' = r /\ todo' = todo \ {r}
            /\ left' = (IF Several(r) THEN r.hops ELSE {})
            /\ got' = (IF r.special THEN {} ELSE r.hops \ left')
            /\ UNCHANGED <<step, caches, ribs>>
    /\ UNCHANGED refused /\ Request

\* Fault: every next hop begins the list anew.
foreach_nexthop_init(i) ==
    /\ i \in left
    /\ left' = left \ {i} /\ got' = {i} \cap link
    /\ UNCHANGED <<step, caches, ribs, todo, cur, refused>> /\ Request

\* One next hop of several, with a socket and a dump of the links of its own;
\* when they cannot be had, the next hop is left out and nobody is told.
foreach_nexthop(i) ==
    /\ i \in left
    /\ \/ /\ i \in link
          /\ left' = left \ {i} /\ got' = got \cup {i}
          /\ UNCHANGED <<step, caches, ribs, todo, cur, refused>>
       \/ /\ Refuse
          /\ left' = left \ {i}
          /\ UNCHANGED <<step, caches, ribs, todo, cur, got>>
       \/ i \notin link /\ Crash /\ UNCHANGED refused
    /\ Request

Entry == [route |-> cur, hops |-> got, active |-> FALSE]

\* Fault: a destination that is there already keeps its first route only.
route_list_hash_add_once(k, d) == IF ribs[k][d] = <<>> THEN <<Entry>> ELSE ribs[k][d]

\* The route is put in front of the others of its destination.
route_list_hash_add(k, d) == <<Entry>> \o ribs[k][d]

\* Fault: tmp_route is not freed.
AddRoute_no_free ==
    /\ cur # NoRoute /\ left = {}
    /\ LET k == CHOOSE x \in DOMAIN ribs : SameRib(x, cur)
       IN  ribs' = [ribs EXCEPT ![k][cur.dest] = route_list_hash_add(k, cur.dest)]
    /\ cur' = NoRoute
    /\ UNCHANGED <<step, caches, todo, left, got, refused>> /\ Request

AddRoute ==
    /\ cur # NoRoute /\ left = {}
    /\ LET k == CHOOSE x \in DOMAIN ribs : SameRib(x, cur)
       IN  ribs' = [ribs EXCEPT ![k][cur.dest] = route_list_hash_add(k, cur.dest)]
    /\ cur' = NoRoute /\ got' = {}
    /\ UNCHANGED <<step, caches, todo, left, refused>> /\ Request

\* Fault: a route of the same preference is taken too.
Preferred_ties(s, n) == \A m \in 1..Len(s) : s[n].route.preference <= s[m].route.preference

\* The first route of a list with the least preference.
Preferred(s, n) ==
    /\ \A m \in 1..Len(s) : s[n].route.preference <= s[m].route.preference
    /\ \A m \in 1..(n - 1) : s[n].route.preference < s[m].route.preference

SelectActive ==
    /\ step = "routes" /\ todo = {} /\ cur = NoRoute /\ step' = "report"
    /\ ribs' = [k \in DOMAIN ribs |-> [d \in Dest |->
                  [n \in 1..Len(ribs[k][d]) |->
                     [ribs[k][d][n] EXCEPT !.active = Preferred(ribs[k][d], n)]]]]
    /\ UNCHANGED <<caches, todo, tmp, refused>> /\ Request

-----------------------------------------------------------------------------
(* routing_oper_get_rib_routes_cb: the tree                                *)

Entries == UNION {{ribs[k][d][n] : n \in 1..Len(ribs[k][d])} : k \in DOMAIN ribs, d \in Dest}

\* Next hops of the routes with a next-hop list.
ListHops == UNION {e.hops : e \in {x \in Entries : Cardinality(x.route.hops) > 1}}

\* Fault: a request that fails is started over.
Report_retry ==
    /\ step = "report"
    /\ \/ ListHops = {} /\ step' = "reported" /\ UNCHANGED <<caches, ribs, todo, tmp>>
       \/ ListHops # {} /\ step' = "ribs" /\ UNCHANGED <<caches, ribs, todo, tmp>>
    /\ UNCHANGED refused /\ Request

\* Routes without a list are written, those whose next hops were left out
\* with none. A next hop of a list is looked up in the cache once more; the
\* result of snprintf for it stays in error, and the request fails.
Report ==
    /\ step = "report"
    /\ \/ ListHops = {} /\ step' = "reported" /\ UNCHANGED <<caches, ribs, todo, tmp>>
       \/ ListHops \cap link_cache # {} /\ Answer("failed")
       \/ ~(ListHops \subseteq link_cache) /\ Crash
    /\ UNCHANGED refused /\ Request

\* sysrepo has the answer; after a crash the plugin is started again.
NextRequest ==
    /\ step \in {"reported", "failed", "crashed"}
    /\ Answer("idle") /\ UNCHANGED refused /\ Request

-----------------------------------------------------------------------------
(* The kernel: a route goes with any of its links, and the index of a link *)
(* is not given out again.                                                 *)

KernelBecomes(l, f) ==
    /\ step \notin {"idle", "reported", "failed", "crashed"}
    /\ link' = l /\ fib' = {r \in f : r.hops \subseteq l}
    /\ UNCHANGED <<step, caches, ribs, todo, tmp, refused>>

KernelChanges(l, f) ==
    /\ external < MaxExternal /\ external' = external + 1 /\ KernelBecomes(l, f)

RouteAdded ==
    \E r \in RouteSet \ fib :
       /\ r.hops \subseteq link /\ Cardinality(fib) < MaxRoutes
       /\ KernelChanges(link, fib \cup {r}) /\ UNCHANGED <<lastIndex, linkGone>>

RouteDeleted ==
    \E r \in fib : KernelChanges(link, fib \ {r}) /\ UNCHANGED <<lastIndex, linkGone>>

LinkCreated ==
    /\ lastIndex < MaxIfindex /\ lastIndex' = lastIndex + 1
    /\ KernelChanges(link \cup {lastIndex'}, fib) /\ UNCHANGED linkGone

LinkDeleted ==
    \E l \in link : KernelChanges(link \ {l}, fib) /\ linkGone' = TRUE /\ UNCHANGED lastIndex

-----------------------------------------------------------------------------
GetterStep ==
    \/ DumpLinks \/ RequestRefused \/ routing_collect_ribs
    \/ \E r \in RouteSet : CollectRoute(r)
    \/ \E i \in Ifindex : foreach_nexthop(i)
    \/ AddRoute \/ SelectActive \/ Report

Environment == RouteAdded \/ RouteDeleted \/ LinkCreated \/ LinkDeleted

Next == DumpRoutes \/ GetterStep \/ NextRequest \/ Environment

Spec == Init /\ [][Next]_vars

\* The subscription thread runs the getter to its end.
FairSpec == Spec /\ WF_vars(GetterStep)

-----------------------------------------------------------------------------
(* Properties                                                              *)

\* Types; tmp_route is empty between two routes, so that nothing of one route
\* reaches the next, and no list is left over from an earlier request.
TypeOK ==
    /\ lastIndex \in 1..MaxIfindex /\ link \subseteq 1..lastIndex
    /\ fib \subseteq RouteSet /\ KernelOK(link, fib)
    /\ step \in {"idle", "links", "ribs", "routes", "report", "reported", "failed", "crashed"}
    /\ routes_cache \subseteq RouteSet /\ link_cache \subseteq Ifindex
    /\ DOMAIN ribs \subseteq RibKey
    /\ \A e \in Entries : e.route \in RouteSet /\ e.hops \subseteq Ifindex /\ e.active \in BOOLEAN
    /\ todo \subseteq routes_cache /\ cur \in RouteSet \cup {NoRoute}
    /\ cur = NoRoute => left = {} /\ got = {}
    /\ step \notin {"routes", "report", "reported"} => ribs = NoRibs /\ cur = NoRoute
    /\ external \in 0..MaxExternal /\ refused \in 0..MaxRefusal /\ linkGone \in BOOLEAN

Collected == step \in {"report", "reported"}

\* Each destination of each RIB has one active route, and no route of that
\* destination is preferred to it, in whichever order they were dumped.
OneActive ==
    Collected =>
        \A k \in DOMAIN ribs, d \in Dest :
            LET s == ribs[k][d]
            IN  s # <<>> =>
                  \E n \in 1..Len(s) :
                      \A m \in 1..Len(s) :
                          /\ s[m].active <=> m = n
                          /\ s[n].route.preference <= s[m].route.preference

\* Unless a dump was refused, a route is collected with all of its next hops
\* and no others, though links come and go while they are looked up.
NextHopsComplete ==
    Collected /\ refused = 0 =>
        \A e \in Entries : e.hops = IF e.route.special THEN {} ELSE e.route.hops

\* The plugin crashes only when a link was deleted during the request: the
\* order of the dumps (routes first) makes every other change harmless.
CrashExplained == step = "crashed" => linkGone

\* A request fails only if a call was refused or the dump has a route with
\* several next hops.
RequestFailureExplained ==
    [][step' = "failed" /\ step # "failed" /\ refused' = 0 =>
          \E r \in routes_cache : Cardinality(r.hops) > 1]_vars

-----------------------------------------------------------------------------
(* The abstract service                                                    *)

Status ==
    CASE step = "idle"     -> "idle"
      [] step = "reported" -> "answered"
      [] step \in {"failed", "crashed"} -> "ended"
      [] OTHER             -> "running"

\* What the tree holds once it is reported: the entry at each position of the
\* list of each destination of each RIB.
Position(k, d, n) ==
    [list |-> [table |-> k[1], family |-> k[2], dest |-> d], position |-> n,
     route |-> ribs[k][d][n].route, hops |-> ribs[k][d][n].hops]
Reported ==
    IF step # "reported" THEN {}
    ELSE UNION {{Position(k, d, n) : n \in 1..Len(ribs[k][d])} : k \in DOMAIN ribs, d \in Dest}

Service == INSTANCE RibService WITH
    status <- Status, snapshot <- routes_cache, answer <- Reported

\* Every request is answered, or ends with an error or with the plugin.
RequestEnds == Service!Ends

\* The getter implements the service: whatever changes between its dumps, what
\* it reports is one picture of the routes, that of its first dump, with every
\* route at exactly one place of the right list.
ServiceImplemented == Service!Spec
=============================================================================
