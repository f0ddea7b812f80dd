-------------------------- MODULE LinkStateTracking --------------------------
(***************************************************************************)
(* How the interfaces plugin keeps the last-change of every interface: a   *)
(* hash of link states filled by interfaces_init_state_changes_tracking,   *)
(* kept up to date by the link cache callback on a detached thread and     *)
(* read by the last-change getter on sysrepo's subscription thread.        *)
(*                                                                         *)
(* Three threads share the hash and its mutex: the main thread (init), the *)
(* manager thread (mgr) and the subscription thread (get).  The kernel     *)
(* sends one netlink message per change to the cache manager's socket,     *)
(* and drops it when the socket is full.                                   *)
(*                                                                         *)
(* The hash is kept by name, libnl's cache by ifindex, and a link that is  *)
(* created under the name of a deleted one has an ifindex of its own: if   *)
(* the message of the deletion was dropped, the cache holds both.          *)
(***************************************************************************)
EXTENDS Integers, Sequences

CONSTANTS
    Iface,          \* link names
    OperState,      \* values of rtnl_link_get_operstate
    MaxIndex,       \* bound on the links that have one name one after another
    Removable,      \* names whose link may be deleted and another created
    Configured,     \* interfaces that the running datastore holds
    Gone,           \* the state of a link that does not exist
    NoEntry,        \* the hash has no element of that name
    LeastFit, MostFit,  \* messages that fit the buffer of the socket: they
                        \* differ in size
    MaxTime,        \* bound on the clock
    MaxChanges,     \* bound on changes of links
    MaxGets         \* bound on calls of the operational getters

ASSUME TrackingAssumption ==
    /\ Removable \subseteq Iface /\ Configured \subseteq Iface
    /\ Gone \notin OperState
    /\ NoEntry \notin [state : OperState, last_change : 0..MaxTime]
    /\ LeastFit \in Nat \ {0} /\ MostFit \in Nat \ {0} /\ MaxIndex \in Nat \ {0}
    /\ MaxTime \in Nat /\ MaxChanges \in Nat /\ MaxGets \in Nat

VARIABLES
    link,       \* the operstate of the kernel's link of each name
    index,      \* which of the links of that name it is, or was the last:
                \* they are numbered in the order of their ifindexes
    now,        \* time(NULL)
    queue,      \* netlink messages waiting on the cache manager's socket
    overrun,    \* messages were dropped: the socket has yet to say so, or
                \* drops more until it is empty
    init,       \* step of interfaces_init_state_changes_tracking
    dump,       \* links of the first cache still to be put in the hash
    cache,      \* the link cache of the cache manager: links of each name by index
    order,      \* which of two cached links of a name comes first in its list
    hash,       \* state_hash
    mutex,      \* state_hash_mutex is locked
    mgr,        \* step of the manager thread and its callback
    walk,       \* links of the cache the callback has still to visit
    opened,     \* the link cache of the operational getters is allocated
    oper,       \* names in it, shared by the requests of all clients
    reported,   \* interfaces that requests under way were given
    get,        \* step of the last-change getter
    changes, gets,
    evented,    \* history: the callback has run to its end once
    changed,    \* history: when the state of a link changed, if it was tracked
    missed,     \* history: whether the last message of a name was dropped, or the
                \* one before; or that of a deletion in the set-up of the cache
    reset,      \* history: the mutex was set up while a getter was using it
    freed       \* history: the mutex of a callback was unlocked by a getter, and
                \* what follows from it is not over

hashVars == <<hash, mutex>>
kernelVars == <<link, index, now, changes, changed, missed>>
socketVars == <<queue, overrun>>
initVars == <<init, dump, reset>>
mgrVars == <<mgr, walk, cache, order, evented>>
getVars == <<opened, oper, reported, get, gets>>
vars == <<hashVars, kernelVars, initVars, mgrVars, getVars, socketVars, freed>>

Time == 0..MaxTime
State == OperState \cup {Gone}
Element == [state : OperState, last_change : Time]
Index == 1..MaxIndex
Message == [if : Iface, index : Index, state : State]
InitSteps == {"start", "fill", "refill", "done"}

\* When a link last changed its operstate, and whether the callback had run
\* to its end before; untracked if it has not since it appeared.
Untracked == [at |-> 0, evented |-> FALSE, tracked |-> FALSE]
Change == [at : Time, evented : BOOLEAN, tracked : BOOLEAN]

Links(c) == {i \in Iface : c[i] # Gone}
Cached(i) == {x \in Index : cache[i][x] # Gone}
Entry(s) == [state |-> s, last_change |-> now]

Init ==
    /\ link \in [Iface -> State]
    /\ \A i \in Iface \ Removable : link[i] # Gone
    /\ now = 0 /\ queue = <<>> /\ init = "start" /\ dump = [i \in Iface |-> Gone]
    /\ index = [i \in Iface |-> 1]
    /\ cache = [i \in Iface |-> [x \in Index |-> Gone]] /\ order = [i \in Iface |-> {}]
    /\ hash = [i \in Iface |-> NoEntry]
    /\ mutex = FALSE /\ mgr = "absent" /\ walk = [i \in Iface |-> {}]
    /\ opened = FALSE /\ oper = {} /\ reported = {} /\ get = "idle"
    /\ changes = 0 /\ gets = 0 /\ evented = FALSE
    /\ changed = [i \in Iface |-> Untracked] /\ reset = FALSE /\ freed = FALSE
    /\ overrun = "no" /\ missed = [i \in Iface |-> "none"]

-----------------------------------------------------------------------------
(* The kernel                                                              *)

\* Before the tracking is set up the links are those of Init, which may be any.
Started == init # "start"

Tick == /\ Started /\ now < MaxTime /\ now' = now + 1
        /\ UNCHANGED <<link, index, changes, changed, missed, socketVars, hashVars, initVars, mgrVars,
                       getVars, freed>>

\* The socket has joined the link group.
Subscribed == init \in {"refill", "done"}

SetLink(i, x, s, c) ==
    /\ Started /\ changes < MaxChanges /\ changes' = changes + 1
    /\ link' = [link EXCEPT ![i] = s] /\ index' = [index EXCEPT ![i] = x]
    /\ changed' = [changed EXCEPT ![i] = c]
    /\ \/ /\ ~Subscribed /\ UNCHANGED <<socketVars, missed>>
       \/ /\ Subscribed /\ Len(queue) < MostFit /\ overrun = "no"
          /\ queue' = Append(queue, [if |-> i, index |-> x, state |-> s])
          /\ missed' = [missed EXCEPT ![i] = CASE @ = "last" -> "earlier"
                                              [] @ = "lost" -> "lost"
                                              [] OTHER -> "none"]
          /\ UNCHANGED overrun
       \/ /\ Subscribed /\ (Len(queue) >= LeastFit \/ overrun # "no")
          /\ overrun' = (IF overrun = "no" THEN "error" ELSE overrun)
          /\ missed' = [missed EXCEPT ![i] =
                           IF @ = "lost" \/ (s = Gone /\ init = "refill") THEN "lost" ELSE "last"]
          /\ UNCHANGED queue
    /\ UNCHANGED <<now, hashVars, initVars, mgrVars, getVars, freed>>

ChangeState(i) ==
    /\ link[i] # Gone
    /\ \E s \in OperState \ {link[i]} :
          SetLink(i, index[i], s, [at |-> now, evented |-> evented, tracked |-> init = "done"])

DeleteLink(i) == i \in Removable /\ link[i] # Gone /\ SetLink(i, index[i], Gone, Untracked)

\* The link has an ifindex that no link had before.
CreateLink(i) == /\ link[i] = Gone /\ index[i] < MaxIndex
                 /\ \E s \in OperState : SetLink(i, index[i] + 1, s, Untracked)

-----------------------------------------------------------------------------
(* interfaces_init_state_changes_tracking, on the main thread. The change  *)
(* and operational subscriptions are active already.                       *)

\* The hash is emptied, a first link cache is filled and the mutex set up.
InitCache ==
    /\ init = "start" /\ init' = "fill"
    /\ dump' = link /\ mutex' = FALSE /\ reset' = (get = "read")
    /\ hash' = [i \in Iface |-> NoEntry]
    /\ UNCHANGED <<kernelVars, mgrVars, getVars, socketVars, freed>>

\* One element per link, without the mutex.
InitAdd(i) ==
    /\ init = "fill" /\ dump[i] # Gone
    /\ hash' = [hash EXCEPT ![i] = Entry(dump[i])]
    /\ dump' = [dump EXCEPT ![i] = Gone]
    /\ UNCHANGED <<init, reset, mutex, kernelVars, mgrVars, getVars, socketVars, freed>>

\* nl_cache_mngr_add joins the link group, then fills a cache of its own. No
\* callback is called for what that cache holds.
MngrSubscribe ==
    /\ init = "fill" /\ Links(dump) = {} /\ init' = "refill"
    /\ UNCHANGED <<dump, reset, hashVars, kernelVars, mgrVars, getVars, socketVars, freed>>

\* The cache is filled and the detached thread created.
MngrRefill ==
    /\ init = "refill" /\ init' = "done"
    /\ cache' = [i \in Iface |-> [x \in Index |-> IF x = index[i] THEN link[i] ELSE Gone]]
    /\ order' = [i \in Iface |-> {}] /\ mgr' = "polling"
    /\ UNCHANGED <<dump, reset, walk, evented, hashVars, kernelVars, getVars, socketVars, freed>>

-----------------------------------------------------------------------------
(* interfaces_link_manager_thread_cb: once a second, and after any delay,   *)
(* nl_cache_mngr_data_ready works off the messages.                         *)

\* libnl takes a message and removes the cached link of its ifindex or puts the
\* new one at the end of the list. It calls the callback if the link changed.
Receive ==
    /\ mgr = "polling" /\ overrun # "error" /\ queue # <<>>
    /\ queue' = Tail(queue) /\ overrun' = (IF queue' = <<>> THEN "no" ELSE overrun)
    /\ LET i == Head(queue).if
           x == Head(queue).index
           s == Head(queue).state
           others == Cached(i) \ {x}
       IN  /\ cache' = [cache EXCEPT ![i][x] = s]
           /\ order' = [order EXCEPT ![i] = (@ \cap (others \X others))
                                               \cup IF s = Gone THEN {} ELSE others \X {x}]
    /\ mgr' = IF cache' = cache THEN "polling" ELSE "lock"
    /\ UNCHANGED <<walk, evented, hashVars, kernelVars, initVars, getVars, freed>>

\* After messages were dropped the next call fails with ENOBUFS. Its result is
\* ignored: the cache is not filled anew, and the call after it goes on.
ReceiveOverrun ==
    /\ mgr = "polling" /\ overrun = "error"
    /\ overrun' = (IF queue = <<>> THEN "no" ELSE "congested")
    /\ UNCHANGED <<queue, hashVars, kernelVars, initVars, mgrVars, getVars, freed>>

(* interfaces_link_cache_change_cb: every link of the cache is visited, also *)
(* one whose name another has now. The order of links of different names    *)
(* does not matter.                                                         *)

\* Fault: links that are gone from the cache are visited too.
LockHash_visits_gone ==
    /\ mgr = "lock" /\ ~mutex
    /\ mutex' = TRUE /\ mgr' = "walk" /\ walk' = [i \in Iface |-> Index]
    /\ freed' = (freed /\ get = "read")
    /\ UNCHANGED <<cache, order, evented, hash, kernelVars, initVars, getVars, socketVars>>

LockHash ==
    /\ mgr = "lock" /\ ~mutex
    /\ mutex' = TRUE /\ mgr' = "walk" /\ walk' = [i \in Iface |-> Cached(i)]
    /\ freed' = (freed /\ get = "read")
    /\ UNCHANGED <<cache, order, evented, hash, kernelVars, initVars, getVars, socketVars>>

\* The next of the links of i.
First(i, x) == x \in walk[i] /\ \A y \in walk[i] : <<y, x>> \notin order[i]

\* Fault: a link without an element gets none.
VisitLink_no_new(i, x) ==
    /\ mgr = "walk" /\ First(i, x) /\ walk' = [walk EXCEPT ![i] = @ \ {x}]
    /\ hash' = IF hash[i] = NoEntry \/ hash[i].state = cache[i][x] THEN hash
               ELSE [hash EXCEPT ![i] = Entry(cache[i][x])]
    /\ UNCHANGED <<mgr, cache, order, evented, mutex, kernelVars, initVars, getVars, socketVars, freed>>

\* Fault: the state is updated and last_change is not.
VisitLink_no_time(i, x) ==
    /\ mgr = "walk" /\ First(i, x) /\ walk' = [walk EXCEPT ![i] = @ \ {x}]
    /\ hash' = IF hash[i] = NoEntry THEN [hash EXCEPT ![i] = Entry(cache[i][x])]
               ELSE [hash EXCEPT ![i].state = cache[i][x]]
    /\ UNCHANGED <<mgr, cache, order, evented, mutex, kernelVars, initVars, getVars, socketVars, freed>>

\* Fault: last_change is set whether the state changed or not.
VisitLink_always(i, x) ==
    /\ mgr = "walk" /\ First(i, x) /\ walk' = [walk EXCEPT ![i] = @ \ {x}]
    /\ hash' = [hash EXCEPT ![i] = Entry(cache[i][x])]
    /\ UNCHANGED <<mgr, cache, order, evented, mutex, kernelVars, initVars, getVars, socketVars, freed>>

VisitLink(i, x) ==
    /\ mgr = "walk" /\ First(i, x) /\ walk' = [walk EXCEPT ![i] = @ \ {x}]
    /\ hash' = IF hash[i] # NoEntry /\ hash[i].state = cache[i][x] THEN hash
               ELSE [hash EXCEPT ![i] = Entry(cache[i][x])]
    /\ UNCHANGED <<mgr, cache, order, evented, mutex, kernelVars, initVars, getVars, socketVars, freed>>

UnlockHash ==
    /\ mgr = "walk" /\ \A i \in Iface : walk[i] = {}
    /\ mutex' = FALSE /\ mgr' = "polling" /\ evented' = TRUE
    /\ UNCHANGED <<walk, cache, order, hash, kernelVars, initVars, getVars, socketVars, freed>>

-----------------------------------------------------------------------------
(* The operational getters, on the subscription thread: one at a time, for  *)
(* requests of any number of clients.                                      *)

\* The list getter allocates the link cache of oper_ctx or fills it anew. A
\* refill that fails leaves it empty, and its result is ignored.
ListInterfaces ==
    /\ get = "idle" /\ gets < MaxGets /\ gets' = gets + 1
    /\ opened' = TRUE
    /\ \/ oper' = Links(link)
       \/ opened /\ oper' = {}
    /\ reported' = reported \cup oper'
    /\ UNCHANGED <<get, freed, hashVars, kernelVars, initVars, mgrVars, socketVars>>

\* After it sysrepo asks for the last-change of the interfaces that the request
\* was given and of those of the running datastore. Other requests may have
\* filled the cache since: a link it does not have ends at the unlock.
GetLastChange(i) ==
    /\ get = "idle" /\ gets < MaxGets /\ gets' = gets + 1
    /\ opened /\ i \in reported \cup Configured
    /\ get' = IF i \in oper THEN "lock" ELSE "unlock"
    /\ UNCHANGED <<opened, oper, reported, freed, hashVars, kernelVars, initVars, mgrVars, socketVars>>

\* Fault: the hash is read without the mutex.
GetLock_skipped ==
    /\ get = "lock" /\ get' = "read"
    /\ UNCHANGED <<opened, oper, reported, gets, hashVars, kernelVars, initVars, mgrVars, socketVars, freed>>

GetLock ==
    /\ get = "lock" /\ ~mutex
    /\ mutex' = TRUE /\ get' = "read"
    /\ UNCHANGED <<opened, oper, reported, gets, hash, kernelVars, initVars, mgrVars, socketVars, freed>>

\* Fault: the getter returns with the mutex locked.
GetUnlock_forgotten ==
    /\ get \in {"read", "unlock"} /\ get' = "idle"
    /\ UNCHANGED <<opened, oper, reported, gets, hashVars, kernelVars, initVars, mgrVars, socketVars, freed>>

\* The element is read and last-change reported, or it is not there. At out:
\* the mutex is unlocked whether this thread has locked it or not: the unlock
\* of a default mutex of another thread releases it.
GetUnlock ==
    /\ get \in {"read", "unlock"} /\ get' = "idle"
    /\ mutex' = FALSE /\ freed' = (freed \/ (get = "unlock" /\ mgr = "walk"))
    /\ UNCHANGED <<opened, oper, reported, gets, hash, kernelVars, initVars, mgrVars, socketVars>>

-----------------------------------------------------------------------------
Kernel == Tick \/ \E i \in Iface : ChangeState(i) \/ DeleteLink(i) \/ CreateLink(i)

MainThread == \/ InitCache \/ MngrSubscribe \/ MngrRefill
              \/ \E i \in Iface : InitAdd(i)

ManagerThread == \/ Receive \/ ReceiveOverrun \/ LockHash \/ UnlockHash
                 \/ \E i \in Iface, x \in Index : VisitLink(i, x)

SubscriptionThread == \/ ListInterfaces \/ GetLock \/ GetUnlock
                      \/ \E i \in Iface : GetLastChange(i)

Next == Kernel \/ MainThread \/ ManagerThread \/ SubscriptionThread

Spec == Init /\ [][Next]_vars

\* The threads run; the manager thread gets the mutex if it is free again and
\* again.
FairSpec == /\ Spec
            /\ WF_vars(MainThread) /\ WF_vars(ManagerThread) /\ SF_vars(LockHash)
            /\ WF_vars(GetLock \/ GetUnlock)

-----------------------------------------------------------------------------
(* Properties                                                              *)

TypeOK ==
    /\ link \in [Iface -> State] /\ index \in [Iface -> Index] /\ now \in Time
    /\ queue \in Seq(Message) /\ Len(queue) <= MostFit
    /\ overrun \in {"no", "error", "congested"} /\ (queue = <<>> => overrun = "no")
    /\ missed \in [Iface -> {"none", "last", "earlier", "lost"}]
    /\ init \in InitSteps /\ dump \in [Iface -> State]
    /\ cache \in [Iface -> [Index -> State]] /\ order \in [Iface -> SUBSET (Index \X Index)]
    /\ hash \in [Iface -> Element \cup {NoEntry}]
    /\ mutex \in BOOLEAN
    /\ mgr \in {"absent", "polling", "lock", "walk"} /\ walk \in [Iface -> SUBSET Index]
    /\ opened \in BOOLEAN /\ oper \subseteq Iface /\ reported \subseteq Iface
    /\ get \in {"idle", "lock", "read", "unlock"}
    /\ changes \in 0..MaxChanges /\ gets \in 0..MaxGets
    /\ evented \in BOOLEAN /\ reset \in BOOLEAN /\ freed \in BOOLEAN
    /\ changed \in [Iface -> Change]

\* "block further access using mutex": the getter does not read the hash
\* while the callback walks it, whichever thread locks and unlocks in between
\* (unless init has set the mutex up under a getter that held it).
HashAccessExclusive == mgr = "walk" /\ get = "read" => reset

\* What is left of it: only a getter that does not find its link, because it is
\* gone or because another request has emptied or refilled the cache, lets the
\* others in, and as soon as the callback starts with no getter at work the
\* hash is its own again.
AccessExclusiveUnlessFreed == mgr = "walk" /\ get = "read" => reset \/ freed

\* The element of i has the state of its cached link x.
InHash(i, x) == hash[i] # NoEntry /\ hash[i].state = cache[i][x]

\* The last of the links of i in the list of the cache.
LastCached(i, x) == x \in Cached(i) /\ \A y \in Cached(i) : <<x, y>> \notin order[i]

\* Once the callback has run, and whenever it is not running, the hash agrees
\* with the link cache: every name in it has an element with the state of its
\* link, also if no message was received for the change. If an overrun has left
\* deleted links of the name in the cache, it is the state of one of them, and
\* of the last in the list unless that order was upset in the set-up.
HashFollowsCache ==
    evented /\ mgr = "polling" =>
        \A i \in Iface :
            /\ Cached(i) # {} => \E x \in Cached(i) : InHash(i, x)
            /\ missed[i] # "lost" => \A x \in Index : LastCached(i, x) => InHash(i, x)

\* No message about i is on its way.
Settled(i) == /\ mgr = "polling"
              /\ \A k \in 1..Len(queue) : queue[k].if # i

\* A state change after the first run of the callback is never lost: when its
\* messages are through, the hash has the new state and a last-change that is
\* not earlier than the change, also when the link changed back and forth
\* between two polls or the messages repeat what the cache was filled with, and
\* when deleted links of its name are still in the cache. If messages were
\* dropped, the next one about the link that is not brings the state up to
\* date, and unless it undoes what was missed the last-change.
LastChangeNotEarly ==
    \A i \in Iface :
        changed[i].tracked /\ changed[i].evented /\ Settled(i) =>
            /\ missed[i] \in {"none", "earlier"} => hash[i] # NoEntry /\ hash[i].state = link[i]
            /\ missed[i] = "none" => hash[i].last_change >= changed[i].at

\* The last-change of an element only moves forward, and only with its state;
\* an element is never removed once the hash is set up.
LastChangeMonotone ==
    [][\A i \in Iface : init # "start" /\ hash[i] # NoEntry /\ hash'[i] # hash[i] =>
          /\ hash'[i] # NoEntry
          /\ hash'[i].state # hash[i].state
          /\ hash'[i].last_change >= hash[i].last_change]_vars

\* The manager thread catches up with the kernel: messages are received and
\* the hash is brought up to date with them, also after an overrun.
CatchesUp ==
    (init = "done" /\ queue # <<>>) ~>
        (queue = <<>> /\ mgr = "polling")
=============================================================================
