# Verification project for the sysrepo interfaces and routing plugins

This directory holds TLA+ models of the two sysrepo plugins of this
repository, TLC runs that check them on small instances, and TLAPS proofs for
every value of the constants. `PROJECT.json` lists components, runs, mutants,
the source lines every definition stands for, hazards, findings and theorems.

Run `tlc -config <run>.cfg <MC module>` for a run (`LinkStateTracking` is its
own MC module), `tlapm <module>_proofs.tla` and `tlapm
InterfaceChange_verdict.tla` for the proofs. "Violation" runs end with a counterexample on purpose: each
shows where the code does not do what a comment or a manual test says.

## The system

Two plugins, built as libraries for `sysrepo-plugind` or as daemons, translate
between the YANG datastores of sysrepo and the Linux network stack (netlink,
through libnl).

| Component | State it keeps | Operations | Talks to |
|---|---|---|---|
| interfaces: change subscription (`subscription/change.c`, `api/interfaces/**/change.c`) | `mod_ctx`: a netlink snapshot per phase (`nl_ctx`) and per-entry values (`mod_data`) | one callback per edit; sixteen phases, one handler per leaf | kernel requests; sysrepo accepts or rejects the edit by its result |
| interfaces: link state tracking (`plugin.c`, `data/interfaces/interface_state.c`) | `state_hash`, its mutex, a cache manager | filling the hash, detached polling thread, cache callback | kernel notifications; the `last-change` getter |
| interfaces: operational getters (`subscription/operational.c`) | `oper_ctx`: a socket and three caches that all requests share | the list getter, then one getter per operational leaf or list | reads kernel, running and `state_hash`; answers sysrepo |
| interfaces: life cycle and initial load (`plugin.c`, `running/load.c`, `api/interfaces/**/load.c`) | a hash of interfaces built from dumps | `sr_plugin_init_cb`, `sr_plugin_cleanup_cb` | kernel dumps, one merge into running |
| routing: static route changes (`routing/subscription/change.c`, `common.c`) | lists of new and deleted routes for one callback | one callback per event, IPv4 then IPv6 | kernel routes; copies running to startup on `SR_EV_DONE` |
| routing: life cycle and initial load (`routing.c`, `startup.c`) | the startup session | init, cleanup | kernel dumps, one merge into running, copy to startup |
| routing: RIBs and operational data (`common.c`, `rib/`, `subscription/operational.c`) | none between calls | one getter per list | kernel dumps |
| handlers without a subscription, libyang helpers, RPC stubs, `persist.c`, `main.c` | none | | |

The hard parts: the kernel is shared with every other process and moves
between any two netlink calls; an edit is many requests, the n-th of which may
fail; caches and per-entry scratch data outlive the step they were made for;
three threads share the hash of link states; the kernel drops notifications when
a socket is full; requests of several clients share the caches of the getters,
which a failed one leaves half made; plugin, daemon and host restart while the
datastores persist.

What makes each component correct:

* change subscription: an accepted edit is in the kernel; a rejected one was
  rejected for a reason and touched nothing it did not name; nothing collected
  for one list entry reaches another; every event ends.
* link state tracking: the hash agrees with the link cache after each callback, also
  when that has two links of a name; `last-change` never runs backwards and is not older
  than the last change seen; only a getter that finds no link breaks the exclusion of
  hash accesses, and not for long; a lost notification is made good by the next one
  about that link; the thread catches up.
* operational getters: a report holds what the kernel had on that very link
  during the request and nothing of an earlier one; an undisturbed request is
  answered in full; a getter finds its caches, whatever failed before; requests
  fail only for a reason.
* initial load: what is stored is valid data that describes the kernel, content
  found in running is kept, init fails only for a reason, and ends.
* routing: an accepted edit is installed for both families, kept routes survive,
  a new route is there before the old one goes, startup follows running, from
  the initial load on and through restarts.
* RIB data: a report is one picture of the routes, each at its place once and one
  of each destination active; a request ends.

## Modules

| Module | Models | Uses |
|---|---|---|
| `InterfaceConfig` | the leaves of ietf-interfaces and ietf-ip the plugin has handlers for, and what sysrepo has validated (`WellFormed`) | |
| `InterfaceConfig_proofs` | lemmas about leaves and valid configurations | `InterfaceConfig`, TLAPS |
| `InterfaceChange` | the change subscription with every handler | `InterfaceConfig` |
| `InterfaceChange_proofs` | theorems about its context and what its handlers add | `InterfaceChange`, `InterfaceConfig_proofs` |
| `InterfaceChange_verdict` | theorems about whole edits: verdict, what is left alone, retries | `InterfaceChange_proofs` |
| `InterfaceLoad` | initialization, initial load, end of the plugin, reboots | `InterfaceConfig` |
| `InterfaceLoad_proofs` | theorems about it | `InterfaceLoad`, `InterfaceConfig_proofs` |
| `LinkStateTracking` | the three threads around `state_hash` and the socket between kernel and cache manager | |
| `LinkStateTracking_proofs` | theorems about it | `LinkStateTracking`, TLAPS |
| `InterfaceGetters` | the operational getters of the interfaces plugin, for several clients | |
| `InterfaceGetters_proofs` | theorems about it | `InterfaceGetters`, TLAPS |
| `RoutingChange` | the static routes of the routing plugin, from init to cleanup | |
| `RoutingChange_proofs` | theorems about it | `RoutingChange`, TLAPS |
| `RibService` | what those who ask for the RIBs may rely on | |
| `RoutingRibs` | the getter of the RIB routes: dumps, collection, active routes, report | implements `RibService` (`INSTANCE ... WITH`) |
| `RoutingRibs_proofs` | theorems about it, among them that it implements `RibService` | `RoutingRibs`, TLAPS |
| `MC*` | instances for TLC: the configurations and kernels a run starts from | |

Definitions named `X_something` under a comment that begins with "Fault:" are
faulty variants of `X`; no specification uses them. They are there to
test the properties: with `X_something` in place of `X`, the property named in
`PROJECT.json` (`mutants`) must fail.

### InterfaceChange

An edit is a pair of configurations, `running` and `cand`; `Operation` gives
for each leaf what `sr_get_change_tree_next` reports. `event` is the step of
the subscription thread, `phase` the index of the `srpc_iterate_changes` in
progress, `todo` the leaves it has still to call the handler for, in any order.
`nl` is `mod_ctx.nl_ctx` and `scratch` is `mod_ctx.mod_data`. One action per
handler, each with all of the requests the handler makes and all of its
error returns; `StartPhase` and `FinishPhase` are the init and free callbacks.
A handler that fails is the conjunction of its own changes so far and `Fail`.
`kernel` is changed by the handlers and by `ExternalLink` and `ExternalAddr`,
at any time. `SR_EV_DONE` and `SR_EV_ABORT` are `DoneEvent` and `AbortEvent`.

`instep`, `external` and `refused` are history: whether the kernel had what
running says when the event began, and how often somebody else interfered.
They say for which events a property speaks: no promise is possible for an
edit during which another process deletes the link.

### InterfaceLoad

`step` follows `sr_plugin_init_cb`; `todo`, `cur` and `part` the loop of
`interfaces_load_interface`, with one dump of the kernel per list (`LoadAddress4`,
`LoadNeighbor4`, `LoadAddress6`, `LoadNeighbor6`). `loaded` is the hash of
interfaces, `LyLeaf` is `interfaces_interface_hash_to_ly`, `Merge` is the edit
of sysrepo. `still`, `found` and `seen` are history. The
caches that the list loaders never free change nothing else and are left out.

### LinkStateTracking

`init`, `mgr` and `get` are the program counters of the main thread, the
manager thread (`interfaces_link_manager_thread_cb` with the callback) and the
`last-change` getter on the subscription thread. `queue` holds the netlink messages
of the cache manager's socket, `cache` its cache, `hash` and `mutex` the shared data.
The second that the thread sleeps between two polls is any delay before `Receive`.

The hash is kept by name, libnl's cache by ifindex. `cache[i][x]` is the cached state
of the `x`-th link that was given the name `i`; a link that is created anew under its
name has an ifindex of its own, so that after an overrun has dropped the message of the
deletion the cache holds both links. The callback visits every link of the cache, one
at a time (`VisitLink`), and the links of one name in the order of libnl's list
(`order`: what a message changed goes to its end); the order of links of different
names does not matter and is left open. With two links of a name `HashFollowsCache` says
what is left: the hash has the state of one of them, and of the last in the list, which
is what `LastChangeNotEarly` needs to find the present link there. The list that the
cache is first filled with has an order of its own; a deletion whose message is dropped
between the joining of the group and that fill may therefore leave the stale link last
(`missed` is `"lost"`), and `HashFollowsCache` then says only that it is one of the two.
Renamed links, links created with an ifindex of somebody's choice (`ip link add ...
index`) and the objects libnl keeps for ports of a bridge (AF_BRIDGE) are left out.

The socket is lossy: from `LeastFit` waiting messages on (they differ in size) the
kernel may drop one, from `MostFit` on it has to, and it drops the rest until the
socket has been read empty (`overrun`). libnl reports the loss once
(`ReceiveOverrun`); the result of `nl_cache_mngr_data_ready` is ignored, the thread
goes on and the cache is not filled anew. `missed` is history: whether the last
message about a name was dropped, or an earlier one. `LastChangeNotEarly` says
what is left of the promise then: a lost change is made good by the next message
about that name; only a change that undoes the lost one keeps the old
`last-change`.

The link cache of the getters (`opened`, `oper`) belongs to all requests: the list
getter of any client fills it anew (`ListInterfaces`), a refill that fails leaves it
empty, and that result is ignored (`operational.c:2118`). `GetLastChange` is called for
interfaces reported to any request under way (`reported`) and for those of running
(`Configured`), so it may not find a link although the link is there. It then unlocks
the mutex without having locked it. `HashAccessExclusive`, the promise of
`plugin.c:472`, does not hold (`MCUnlock`); `AccessExclusiveUnlessFreed` is what is left
of it: `freed` is set by such an unlock during a callback and forgotten when a callback
locks the hash with no getter reading it.

Getters run from the start, because the subscriptions are made before the
tracking is set up; `reset` remembers that `pthread_mutex_init` met a getter
that was using the mutex, and both properties exempt what follows from it.

### InterfaceGetters

sysrepo answers a request by calling the list getter and then, nested path by
nested path, the getters below it for every parent there is: the ones reported so
far, and the instances of the running datastore it has kept (`report[c].kept`). The
plugin subscribes with `SR_SUBSCR_DEFAULT` (`plugin.c:344`), not `SR_SUBSCR_OPER_MERGE`;
whether sysrepo then keeps or removes what running has at the subscribed path is not in
this repository, so `ListStart` allows both. A getter that is called for an interface,
address or neighbour of running that the kernel does not have fails, and with it the
request (`NotInKernel` in `FailureExplained`). The first error ends the request. `at[c]` is the getter the request of client `c` has come
to, `parents[c]` the parents it has still to be called for, in any order, and
`report[c]` what was reported. The list getter has one step per dump
(`DumpLinks`, `DumpAddrs`, `DumpNeighs`), which only other processes come between:
it runs to its end on the subscription thread (`ThreadFree`). Between two getters
of a request those of another may be called, and all of them read the caches of
`oper_ctx` (`link_cache`, `addr_cache`, `neigh_cache`; `allocated` says which are
there). The ways to fail are those of the code: a socket that could not be
connected stays and is used for ever; a cache that could not be allocated ends the
request and leaves the ones before it, and as the link cache alone decides between
allocating and refilling, the next request refills a cache that is NULL (`Crash`);
`nl_cache_refill` clears the cache before it fails, and its result is ignored.
Getters that look up the link and copy one attribute are the action `leaf`; the
others are actions of their own. Counters are numbers of `Width64` bits, of which
the discards are cast to `Width32` or not, as in the code.

`seen` is history: links, addresses and neighbours the kernel had at some time
since the request began; `during` says whether a request was disturbed.
`QuietReport` and `ReportedExisted` speak of what the getters report, not of what
sysrepo adds to it from running.

### RoutingChange

`plugin` is the step of `sr_plugin_init_cb`: the check for content (a failing
`sr_get_items` counts as empty), the dump of the tables for the list of RIBs, the
dump and load of the static routes (`dumped`), the merge, the copy to startup,
the subscriptions. Each may fail, and clients and the kernel go on in between.
`pending`, `head`, `new` and `del` are the local data of
`apply_static_routes_changes`: the entries to read, the pointer `routes_head`,
and the two lists. The `hops` of a route are those of its `next-hop`: one (`Simple`), or
the entries of its `next-hop-list`. The code matches every leaf named
`next-hop-address`, those of a list too: of a route that is created the last one read is
installed (`LastRead`, in any order), one that comes or goes in a kept route overwrites
the gateway at `routes_head` (`ChangedGateways`), and the deletion of an IPv4 route
removes one of its hops. `VerdictRight` says so of routes with several hops. `fib` is the set of next hops for each destination. `loaded`
says whether running has any content, `missed` (history) that startup does not
have the last commit: its copy failed, or nobody told the plugin of it.
`instep` and `disturbed` are history: whether the kernel had what running says
when the event began, and whether somebody else changed it since.

### RoutingRibs and RibService

`step` follows `routing_oper_get_rib_routes_cb`: `routes_cache` and `link_cache`
are its dumps, `ribs` the list of RIBs as a function from table and family to
the list of each destination (newest first, as `route_list_add` prepends).
`cur`, `left` and `got` are `tmp_route` while its next hops are added: for a
route with several, `foreach_nexthop` dumps the links again for each. A NULL
link is read by `rtnl_link_get_name`; that is `Crash`. Description and default
flag of a RIB, which the report does not use, are left out, and a gateway goes
with the link of its next hop.

`RibService` knows nothing of dumps, lists and links: a request begins with a
picture of the routes (`snapshot`) and is answered with entries, each a position in
the list of a table, family and destination; the answer has every route of the
picture, each at one position of its own list. Under the mapping of `RoutingRibs`
(`Status`, `routes_cache`, `Reported`) the first dump is `Begin`, the report is
`Answer`, an error or crash is `End`, and everything in between is a stutter.

## Assumptions of the models

* sysrepo: validates an edit against the schema before `SR_EV_CHANGE`; sends
  `SR_EV_DONE` after an accepted edit and `SR_EV_ABORT` after one another
  subscriber refused; calls the change callbacks of a plugin on one thread;
  reports the leaves of a list entry key first, the entries in any order.
* srpc `srpc_iterate_changes` (a library outside this repository): init, one
  call per change, the first error ends it, free in any case.
* sysrepo calls the operational getters of a plugin on one thread, by the depth
  of their paths and once for each parent it has, whether a getter reported it or it
  was kept of running; requests of several clients may be open at once.
* libnl: a cache manager that adds a cache joins the multicast group, then
  fills the cache without calling the callback; the callback is called when a
  message changes the cache. After dropped messages one read fails. A dump is
  one picture of a table. A refill clears the cache first.
* Linux: interface indexes are not reused; masters do not form circles; addresses
  and neighbours go with their link, which has an address or a neighbour once; a
  message that finds a socket full is dropped; a link that goes down loses its
  IPv6 addresses and neighbours; adding a route that exists with the same next
  hop fails, with another next hop adds a second route; deleting an IPv4 route by
  destination deletes one, an IPv6 route all.
* Addresses of one edit lie in distinct subnets; each address is known by name
  and not digit by digit; a link is not renamed. The
  xpaths without a module prefix below `ipv4` and `ipv6` resolve. Memory
  allocation does not fail. Descriptions count as present or absent.
* `forwarding`, which the load writes as `false` and no handler changes, is left out.
* A request that the kernel, libnl or sysrepo refuses for reasons the model does
  not have (permissions, limits) is `Refuse`, at any request.

## Runs

| Run | Module | Shows | Bounds |
|---|---|---|---|
| `MCLinks` | `MCInterfaceChange` | creation, deletion, state, mtu: `VerdictRight`, `LinkEditRetryable`, `TypeOK` | two interfaces, one foreign change and one refusal per event |
| `MCAddresses` | | the scratch data between entries and phases: `ContextClean`, `GetterAssertions`, `AddedAddressesAreConfigured`, `UntouchedEntriesSurvive`, `VerdictRight`, and `EventCompletes` | two IPv4 addresses, prefix length, netmask, netmask with holes, host without any other address |
| `MCIpv6` | | `VerdictRight`, `UntouchedEntriesSurvive` for IPv6 addresses and neighbours of both families | one address, two neighbours, link up and down |
| `MCSubnetForm` | | finding | one interface, one address, one neighbour |
| `MCLoad` | `MCInterfaceLoad` | `LoadFaithful`, `LoadedEntriesExisted`, `FailureExplained`, `StoredDataKept`, `InitEnds`, `TypeOK` | two links, seven kernels (usual, one neighbour, no neighbour, no address, unresolved neighbour, unknown kind, small mtu), one addition or change by others besides deleted links, one refusal |
| `MCTracking` | `LinkStateTracking` | `HashFollowsCache`, `LastChangeNotEarly`, `LastChangeMonotone` | two links, one that comes and goes (two ifindexes) and one that stays, a socket for one or two messages, five changes, two instants, no getters |
| `MCHashLock` | | `AccessExclusiveUnlessFreed`, `CatchesUp`, `TypeOK` | the same links, the one that goes is configured, three changes, one instant, three getter calls of any clients |
| `MCUnlock` | | finding | as `MCHashLock` |
| `MCGetters` | `MCInterfaceGetters` | `CachesAllocated`, `ReportedExisted`, `QuietReport`, `FailureExplained`, `TypeOK` | two clients, a link under a bridge, beside it (with drops that do not fit a counter32) or not there, three ifindexes, an address on either link, a neighbour that is resolved or not, running empty or with entries the kernel has at times, counters of three bits (two for a counter32), one foreign change, one refusal per life |
| `MCRoutes` | `MCRoutingChange` | `VerdictRight`, `KeptRoutesSurvive`, `NewBeforeDelete`, `StartupFollowsRunning`, `TypeOK` | two IPv4 destinations and one IPv6, two gateways or none, next-hop-lists of two, two starts of the plugin, one foreign change, one refusal per event |
| `MCRouteGateway` | | finding | the same, undisturbed |
| `MCRibs` | `MCRoutingRibs` | `ServiceImplemented`, `OneActive`, `NextHopsComplete`, `CrashExplained`, `RequestFailureExplained`, `RequestEnds`, `TypeOK` | at most three of six routes: two tables, two families, equal preferences, several next hops, special; three links, two foreign changes, one refusal |

Deadlock is checked except in the three runs of `LinkStateTracking`, where all
threads wait for ever once the bounds on changes and getter calls are used up;
`CatchesUp` says that the manager thread does not stop before.

Why the bounds are enough: handlers of different interfaces share only `nl`
and `scratch`, so two entries of a list (or two interfaces) show every
interference; counters of foreign changes and refusals are per event (per boot
for `InterfaceLoad`, per request for `RoutingRibs`), and a second one can only
repeat what the first did, except where two are needed: a link that goes and
comes back between two dumps (`MCLoad` does not count deletions, so it has
both), a link and a route through it (`MCRibs` has two). `MaxIfindex` leaves a
fresh index for a link that comes back. In `LinkStateTracking` a change, a
change back and one more are needed to lose a change, a deletion, a creation and a
change of state to have two links of one name and see which the hash follows; five
changes have both. `MaxTime` leaves two instants; a socket for one or two messages
overflows with the second or third change, before and after the thread has read. The
getters only read the hash, so `MCTracking` does without them, and what they do to the
mutex needs no clock and few changes (`MCHashLock`): one call of the list getter that
leaves a link out, one of the `last-change` getter that does not find it, and one more
that reads the hash are the three calls of the finding. In
`InterfaceGetters` all that clients do to each other is to refill the caches, which
one other client does as well as several; whatever changes between two dumps is one
foreign change, and one refusal leaves every half-made set of caches behind, which the
following requests then meet (requests are not bounded). In `RoutingChange` the
second start finds what a life of the plugin, or clients without it, left; edits
are not bounded.

`TypeOK` says more than types where it matters: in `InterfaceLoad` that the
data init stores is valid, in `RoutingChange` that no list outlives its callback.

### Fairness

* `InterfaceChange`: weak fairness of the callback's steps. The subscription
  thread of sysrepo runs the callback to its end; no step waits.
* `InterfaceLoad`: weak fairness of the steps of `sr_plugin_init_cb`.
* `RoutingRibs`: weak fairness of the steps of a getter that was called.
* `LinkStateTracking`: weak fairness of each thread; strong fairness of the
  manager thread's `LockHash`, because a pthread mutex that is released again
  and again is in the end acquired by a waiter.
* `InterfaceGetters` and `RoutingChange` state no liveness: a request goes on when
  sysrepo calls the next getter, which is not this code.

Nothing is assumed of the kernel, clients, other processes or the network.

## Findings

Every finding is a violation run; `PROJECT.json` quotes the line of the
repository that the code does not keep.

| Run | What happens |
|---|---|
| `MCSubnetForm` | changing an address from prefix-length to netmask is accepted and ignored |
| `MCUnlock` | the `last-change` getter unlocks a mutex it does not hold |
| `MCRouteGateway` | a kept route overwrites the gateway of a new one through `routes_head` |

Other divergences met while modelling. The models contain them; the properties
exempt them by name where they would break them, and no run of their own shows
them:

* `SR_EV_ABORT` is answered, not undone (`subscription/change.c:38`): the kernel
  keeps a dropped edit (`AbortEvent`).
* Deleting an interface with IP configuration deletes the link, then fails on
  its leaves (`DeletesIpConfig` in `VerdictRight`), although the comment at
  `interface/change.c:163` means to ignore them.
* Disabling IPv4 is always rejected: the positive result of `snprintf` stays in
  `error` (`ipv4/change.c:258`), and no address is deleted, although the comments at
  lines 228 and 255 say that this is how IPv4 is disabled (named in `Unrealizable`).
* Of the hops of a `next-hop-list` one is installed and the edit is accepted, because
  `change.c:180-191` takes any leaf `next-hop-address` for the gateway of the route (the
  same for deleted leaves, 225-236); the deletion of an IPv4 route of several hops
  removes one of them (both exempted in `VerdictRight`).
* One link of an unknown kind makes init fail, although `tests/manual_tests.md:109`
  expects such links to be skipped (named in `FailureExplained` of `InterfaceLoad`).
* A request for the interfaces fails for an interface, address or neighbour that is in
  running and not in the kernel, if sysrepo calls the getters for it
  (`operational.c:2188`; named in `FailureExplained` of `InterfaceGetters`).
* A modified next hop of a static route is accepted, copied to startup and never
  applied (`routing/subscription/change.c:198`; exempted in `VerdictRight`).
* A request for the RIB routes fails as soon as one route has several next hops:
  `error` keeps the positive result of `snprintf` (`operational.c:210`; named in
  `RequestFailureExplained`), although `docs/DEVELOPMENT.md:995` lists their
  addresses as done.
* With content in running, init stores nothing on the system: the call at
  `interfaces/src/plugin.c:317` is commented out below a comment that says it does.
* `lower-layer-if` is never reported: the loop over the links compares the masters
  of the interface itself instead of those of the link it has come to
  (`operational.c:404`), although the comment at line 397, `tests/manual_tests.md`
  (254, 309) and `docs/DEVELOPMENT.md:833` expect the ports of a bridge
  (`lower_layer_if` in `InterfaceGetters`; `QuietReport` leaves it out).
* `origin` and `status` of an address ask the running datastore for its prefix
  length (`operational.c:1274`), although the comment there says operational: a
  request fails for an address that was not configured through sysrepo (named in
  `FailureExplained`).
* `out-errors` reads the counter of `out-discards` (`operational.c:1095`), although
  `tests/manual_tests.md:352` says packets not transmitted because of errors;
  `out-discards` and `out-errors` of 2^32 and more fail the request, where the other
  32-bit counters wrap. The unicast packets subtract counters of IPv6 alone from
  counters of all packets (`operational.c:608`) and may wrap.
* One link without a link-layer address, or one neighbour that is not resolved, fails
  every request for the interfaces.
* After an overrun of the notification socket nothing is resynchronized
  (`plugin.c:540`).
* The address and neighbour caches of the initial load are overwritten and never
  freed (`ipv4/load.c:85`), although `api/interfaces/load.c:131` says they are.
* A link that changes between the first dump and the subscription of the cache
  manager is not seen until another message arrives, and one that has changed
  back by then keeps its old `last-change` (`plugin.c:446`);
  `LastChangeNotEarly` speaks of changes after the first run of the callback.
* A client that asks for `last-change` during init may hold the mutex when
  `pthread_mutex_init` sets it up (`reset`, see above).

## Proofs

`InterfaceChange_proofs` proves for any number of interfaces, addresses,
neighbours and any bounds:

* `TypeCorrect`: `Spec => []TypeOK`;
* `CleanContext`: `Spec => []ContextClean`, the scratch data is empty before
  every handler and the snapshot is there exactly inside a phase;
* `AssertionsHold`: `Spec => []GetterAssertions`, the asserts of the getters;
* `AddressesAreConfigured`: `AddedAddressesAreConfigured`, an action property: an
  address is added only by a handler of this edit's entry, with the prefix
  length of that entry.

The inductive invariant is `IInv == TypeOK /\ ContextClean`. `TypeOK` alone is
not inductive in the way one needs: a handler stores `scratch.prefix_length`
into the kernel, and that it is the one the edit gives (or has the type of a
prefix at all) depends on the scratch data having been empty when the
handler began, which is `ContextClean`; conversely `ContextClean` needs
well-formed configurations, so that a created address has exactly one of its
two subnet leaves, which is created with it. The proof has one lemma per handler
(`..Inv`), the lemmas `CollectedPrefix4`, `CollectedPrefix6` and
`CollectedLlAddr` for what the getters collect, and combines them by cases of
`Next`. The assumptions are those of the modules: `KeyAssumption`,
`MtuAssumption`, `PrefixAssumption`, `NetmaskAssumption`, `NoValueAssumption`,
`ChangeAssumption`; TLC evaluates them in every run.

`InterfaceChange_verdict` proves, from the same assumptions, the three properties
about a whole edit:

* `UntouchedSurvives`: `Spec => []UntouchedEntriesSurvive`;
* `LinkEditsGoThrough`: `Spec => []LinkEditRetryable`;
* `VerdictIsRight`: `Spec => []VerdictRight`.

They rest on one lemma per handler (`.._verdict`, combined in `HandleVerdict`), which
says three things about a call: which part of the kernel it may touch (`Frame`);
that if it succeeds its leaf is as the edit has it (`Applied`); and that if it fails
either a request was refused or it had one of the reasons of `Reason`.
`UntouchedSurvives` follows from `Frame` alone.

The others need to know how far the edit is. `Done(m)` says from `phase`, `todo` and
the snapshot whether the handler of leaf `m` has been called: `PhaseOf` is the one
phase of each leaf (`OnePhase`), `PhaseInv` keeps `todo` inside the phase, and
`CacheInv` says that the snapshot has the links of the kernel, but for the names
this phase has created or deleted itself; without it a handler could fail on a stale
`ifindex`. The invariant of `VerdictIsRight` is `HalfWay(DoneSet, kernel)` in every
undisturbed event: links, state, mtu, addresses and neighbours whose handler has
been called are as the edit has them, the others as running has them. Three facts
make it inductive that the property does not show: an address has one leaf whose
handler moves it (`AddrOwner`: the list key, or else the subnet leaf that was
modified), so the two phases that know the address cannot disagree; a change
between prefix-length and netmask belongs to nobody (`SubnetSwitched`); and
a link taken down loses IPv6 addresses and neighbours, so of those `HalfWay` only
claims that the kernel has nothing else (`AddrOnly`, `NeighOnly`).
`HalfWayBegins` starts it from `InStep`, `LinkAdvance`, `StateAdvance`,
`AddrAdvance` and `NeighAdvance` take it over one handler, `HalfWayEnds` gives
`EditRealized` and `EditRemoved` once everything is done, and `ReasonInEdit` shows
that half-way through an undisturbed edit every `Reason` is one of `Unrealizable`.

`InterfaceLoad_proofs` proves every safety property of the run `MCLoad`, for any
links, entries, kernels and bounds:

* `TypeCorrect` (`TypeOK`): above all that running stays `WellFormed`. `TreeShape` is
  what a tree has to look like for the merge to keep that, and `TreeHasShape` that
  `hash_to_ly` makes only such trees. The invariant `TypeInv` adds that no link has
  an index not given out yet (`IndexInv`), that nothing is collected outside the loop
  and the current link is in the hash (`LoopInv`), and that a kind without
  identity never gets there (`KindsKnown`);
* `StoredDataIsKept` (`StoredDataKept`), from `FoundInv`: from the check for
  content to the merge only clients have stored anything;
* `EntriesExisted` (`LoadedEntriesExisted`), from `SeenInv`: `seen` has what the kernel
  has now and every link still to be loaded;
* `FailureIsExplained` (`FailureExplained`), with `SeenInv`;
* `LoadIsFaithful` (`LoadFaithful`), from `CompleteInv`: in a kernel that stands still
  the lists that are through are complete. It is not inductive without
  `LoadedEntriesExisted`, which has the other half.

`LoadAssumption` asks that the five identities `TypeNl2Ly` can produce are among the
values of `type`; they are identities of iana-if-type, the module the schema of the
leaf refers to.

`RoutingRibs_proofs` proves for any routes, links, tables and bounds:

* `TypeCorrect`: `Spec => []TypeOK`;
* `CrashesExplained`: `CrashExplained`, a crash only after a link was deleted
  during the request;
* `NextHopsCollected`: `NextHopsComplete`, exactly its own next hops for each
  route unless a dump was refused;
* `FailuresExplained`: `RequestFailureExplained`, an action property.

None of them is inductive alone. `IInv` adds what the dumps say of each other
(`DumpInv`: unless a link was deleted, the next hops of the dumped routes are
links of the kernel and, once the links are dumped, of that dump, because the
routes are dumped first), what has been put in the lists (`RibsInv`: only routes
of the dump with next hops of their own, and a RIB for each of them) and what
`tmp_route` holds half-way (`TmpInv`). There is one lemma per action; the
assumption is `RibsAssumption`.

Its second half proves, from the same assumption:

* `ActiveRouteUnique`: `Spec => []OneActive`;
* `Implements`: `Spec => ServiceImplemented`, that is `Spec => Service!Spec`.

The invariant `JInv` adds to `IInv` where each route of the dump is (`PlaceInv`: it
is still to be collected, in `tmp_route`, or at exactly one position of the list of
its RIB and destination) and which entries are active (`ActiveInv`). From
`PlaceInv` the report has each route once and in its place, so the report is
`Answer`; every other step is shown to be `Begin`, `End`, `Close`, `KernelChanges`
or a stutter, one lemma each. That exactly one entry is preferred needs a least
preference in a list (`LeastNumber`, by the least element of a set of numbers)
and that of equal ones the first wins (`PreferredOnce`).

`LinkStateTracking_proofs` proves every safety property of that module, for any
links, instants, socket and bounds:

* `TypeCorrect` and `Monotone` (`LastChangeMonotone`), from `IInv`: `TypeOK`, which steps
  of the three threads go together (`StepInv`), that of two cached links of a name one
  comes first in the list (`OrderInv`), that the callback has brought the hash to the
  state of the last link it has visited of each name (`WalkInv`, without which
  `HashFollowsCache` is not inductive between two callbacks), and that nothing in the hash is
  later than now (`TimeInv`);
* `HashAgrees` (`HashFollowsCache`), from `IInv` and `QueueInv`. `QueueInv` says what the
  socket can hold (`SocketInv`), that the messages of a name are about one link after
  another (`AscendInv`), that a deleted link that comes, or will come, after a newer one
  in the list has the message of its deletion still to follow, unless that was dropped
  in the set-up (`ListInv`), and that until then the hash has the state of the last
  link in the list (`AgreeInv`);
* `AccessExclusive` (`AccessExclusiveUnlessFreed`), from `LockInv`. Nothing is assumed of
  which interfaces are configured or removed: whatever leaves a getter without its link,
  it is its unlock during a callback that lets another in;
* `NeverEarly` (`LastChangeNotEarly`), from `DeliveryInv`. It looks at the cache and
  the messages behind it as one sequence of what is told of the links of a name, the
  cache at position 0: unless the last message was dropped, the last position that
  speaks of the name is about the link there is and has its state, and once that is in
  the cache it is the last of its name in the list (`LatestInv`); and unless one before it
  was dropped, it differs from the position before, so that the callback will see a
  change, or has seen it with a clock that is late enough (`FreshInv`, `Caught`).

`RoutingChange_proofs` proves every property of the run `MCRoutes`, for any
destinations of either family, gateways and bounds:

* `TypeCorrect`, with `PlanInv`: while the leaves are read and applied, each
  destination is in at most one list, once, and for what the edit does to it;
* `StartupFollows` (`StartupFollowsRunning`), from `StartupInv`, which holds during
  events as well;
* `Verdict` (`VerdictRight`), `KeptSurvive` (`KeptRoutesSurvive`) and `NewFirst`
  (`NewBeforeDelete`), from `EventInv`: at every step of an undisturbed event the
  routes that wait are in the kernel as running has them and the others as the edit
  has them, and a failure has one of the reasons `VerdictRight` names. `PlanInv` is
  what it rests on: a destination planned twice would be added or deleted twice, and a
  gateway planned for a route is one of its own as long as no leaf of a kept route has
  overwritten it. `Partly` are the routes of which the deletion leaves hops behind.

`InterfaceGetters_proofs` proves, for any clients, links, entries, widths and bounds:

* `Allocated` (`CachesAllocated`), from `AllocInv`: which caches there are at each
  point of the list getter, that one client at a time is in it, and that a request
  below it has all of them;
* `ReportsExisted` (`ReportedExisted`), from `SeenInv` (a request has seen the kernel
  of now and every cache it is past filling, whoever filled it since) and
  `ReportInv`. `CountsRight` is the arithmetic of the counters: the difference of
  unsigned numbers does not wrap when what is subtracted fits;
* `FailuresExplained` (`FailureExplained`, an action property), from `RefusedInv` and
  `HeldInv`. `RefusedInv` says whose fault a broken context is: a socket that is not
  connected, or a part of the caches that no request is just completing, is there only
  after a refusal, so that the dereference of NULL has one before it too. `HeldInv`
  says that whatever a getter is called for was reported or is kept of running
  (`MayServe`), and that what was reported is in the caches it reads, as long as no
  other request has filled them (`Overtaken`); hence a getter that fails found
  something in the data, or nothing where running has something (`GetterExplained`). That a client in the list getter has
  overtaken all those below it has to be in the invariant, because the marks are set
  with the first dump and the caches change with the others;
* `QuietReported` (`QuietReport`), from `QuietInv`: as long as nothing has disturbed a
  request, the caches it is past filling are as the kernel is (`Filled`), and at each
  getter the report has exactly what the getters before it find for all interfaces and
  this one for the interfaces it was already called for (`Progress`; the order sysrepo
  calls the parents in does not matter). `Answering` ties that to `at` and `parents`,
  the `..Serve` lemmas bring it on by one interface for each kind of getter, `ProgressOn`
  and `AnswersGoOn` take it from one getter to the next that has a parent, and
  `AllServed` reads the property off at the end;
* `TypeCorrect` (`TypeOK`), from `HostInv`, `CacheInv` and `ParentsInv`. The part that
  is not about types is that masters form no circle, whatever the host does. It needs
  `MastersOf` as the least set of links that is closed under masters: that makes
  `MastersTransitive`, `LinksImage` (changed or deleted links), `LinksAdded` and
  `LinksEnslaved` provable without an induction over the chain of masters.

`GettersAssumption` is what they assume; of the kernel it asks that names and indexes
are unique, that masters form no circle when the plugin starts, and that there is one
entry for an address on a link.

Only model-checked: liveness (`EventCompletes`, `InitEnds`, `CatchesUp`,
`RequestEnds`), which the provers here do not reach. Every safety invariant and action
property of the passing runs is a theorem, from the assumptions of its module alone.

## Not modelled, and why

* The list of RIBs and the table of protocols that the initial load of the routing
  plugin writes (no later step reads them; that their dump may fail is modelled),
  and the getter of the interface names of the routing plugin (one dump).
* `persist.c`, `running/store.c`, `startup/*.c`, `check.c`, `store.c` of the
  interfaces plugin: no call reaches them.
* Handlers without a subscription (autoconf, dampening, carrier-delay, VLAN
  tags), RPC stubs, libyang helpers, the XML of `main.c`: no state.
* The memory freed by `sr_plugin_cleanup_cb` under the detached thread, and caches
  that are never freed.

## Plan

1. An abstract specification of the change subscription (an edit is applied or
   rejected, and in between the kernel moves towards it entry by entry) that
   `InterfaceChange` implements under a refinement mapping, and the same for
   `RoutingChange`.
2. Composition of `InterfaceLoad` and `InterfaceChange`: what init stores is
   `instep` for the first edit.
3. Teardown of the tracking thread in `LinkStateTracking`.
