---------------------- MODULE LinkStateTracking_proofs ----------------------
(***************************************************************************)
(* Proofs about LinkStateTracking, for any links, operational states,      *)
(* sizes of the socket and bounds.                                         *)
(***************************************************************************)
EXTENDS LinkStateTracking, TLAPS

-----------------------------------------------------------------------------
(* The inductive invariant                                                 *)

\* The callback runs only once init is done, and visits links of the cache.
StepInv ==
    /\ init # "done" => mgr = "absent" /\ ~evented
    /\ mgr # "walk" => \A i \in Iface : walk[i] = {}
    /\ \A i \in Iface : walk[i] \subseteq Cached(i)

\* Of two cached links of a name one comes first in the list.
OrderInv ==
    \A i \in Iface :
        /\ order[i] \subseteq Cached(i) \X Cached(i)
        /\ \A x \in Cached(i) : <<x, x>> \notin order[i]
        /\ \A x, y \in Cached(i) : x # y => <<x, y>> \in order[i] \/ <<y, x>> \in order[i]

\* The links of i that the callback has been at, and the last of them.
Visited(i) == Cached(i) \ walk[i]
LastVisited(i, x) == x \in Visited(i) /\ \A y \in Visited(i) : <<x, y>> \notin order[i]

\* The hash has the state of one of the cached links of a name, and in the
\* callback that of the last it has visited.
WalkInv ==
    \A i \in Iface :
        /\ evented /\ mgr = "polling" /\ Cached(i) # {} => \E x \in Cached(i) : InHash(i, x)
        /\ mgr = "walk" =>
              /\ Visited(i) # {} => \E x \in Visited(i) : InHash(i, x)
              /\ \A x \in Index : LastVisited(i, x) => InHash(i, x)
              /\ \A x \in Visited(i), y \in Cached(i) : <<y, x>> \in order[i] => y \in Visited(i)

\* No element is from the future, and init adds only elements there are not.
TimeInv ==
    /\ \A i \in Iface : hash[i] # NoEntry => hash[i].last_change <= now
    /\ init = "fill" => \A i \in Iface : dump[i] # Gone => hash[i] = NoEntry

IInv == TypeOK /\ StepInv /\ OrderInv /\ WalkInv /\ TimeInv

-----------------------------------------------------------------------------
(* Elements and messages                                                   *)

LEMMA EntryTyped ==
    ASSUME now \in Time, NEW s \in OperState
    PROVE  /\ Entry(s) \in Element /\ Entry(s) # NoEntry
           /\ Entry(s).state = s /\ Entry(s).last_change = now
<1>1. Entry(s) \in Element
    BY DEF Entry, Element
<1>2. QED  BY <1>1, TrackingAssumption DEF Entry, Element, Time

LEMMA QueueTyped ==
    ASSUME queue \in Seq(Message), queue # <<>>
    PROVE  /\ Head(queue) \in Message /\ Tail(queue) \in Seq(Message)
           /\ Len(Tail(queue)) = Len(queue) - 1
    OBVIOUS

-----------------------------------------------------------------------------
(* The initial states and the steps                                        *)

LEMMA InitInv == Init => IInv
<1> SUFFICES ASSUME Init PROVE IInv
    OBVIOUS
<1>1. /\ Untracked \in Change /\ 0 \in Time /\ 0 \in 0..MaxChanges /\ 0 \in 0..MaxGets
      /\ 1 \in Index
    BY TrackingAssumption DEF Untracked, Change, Time, Index
<1>2. queue \in Seq(Message) /\ Len(queue) <= MostFit
    BY TrackingAssumption DEF Init
<1>3. /\ dump \in [Iface -> State] /\ cache \in [Iface -> [Index -> State]]
      /\ index \in [Iface -> Index] /\ order \in [Iface -> SUBSET (Index \X Index)]
      /\ changed \in [Iface -> Change] /\ hash \in [Iface -> Element \cup {NoEntry}]
      /\ walk \in [Iface -> SUBSET Index]
    BY <1>1 DEF Init, State
<1>4. TypeOK
    BY <1>1, <1>2, <1>3 DEF Init, TypeOK, InitSteps
<1>5. \A i \in Iface : Cached(i) = {}
    BY DEF Init, Cached
<1>6. StepInv /\ OrderInv /\ WalkInv /\ TimeInv
    BY <1>5 DEF Init, StepInv, OrderInv, WalkInv, TimeInv
<1>7. QED  BY <1>4, <1>6 DEF IInv

\* A step that leaves the hash, the cache and the steps of the threads alone.
LEMMA OthersInv ==
    ASSUME IInv, TypeOK', UNCHANGED <<hash, init, dump, mgr, walk, cache, order, evented>>,
           now' >= now
    PROVE  IInv'
<1>1. /\ \A i \in Iface : Cached(i)' = Cached(i) /\ Visited(i)' = Visited(i)
      /\ \A i \in Iface, x \in Index : /\ InHash(i, x)' <=> InHash(i, x)
                                       /\ LastVisited(i, x)' <=> LastVisited(i, x)
    BY DEF Cached, Visited, InHash, LastVisited
<1>2. StepInv'
    BY <1>1 DEF IInv, StepInv
<1>3. OrderInv'
    BY <1>1 DEF IInv, OrderInv
<1>4. WalkInv'
    <2>1. \A i \in Iface : Cached(i) \subseteq Index /\ Visited(i) \subseteq Index
        BY DEF Cached, Visited
    <2>2. QED  BY <1>1, <2>1 DEF IInv, WalkInv
<1>5. TimeInv'
    <2>1. ASSUME NEW i \in Iface, hash[i] # NoEntry
          PROVE  hash[i].last_change \in Int /\ now \in Int /\ now' \in Int
          BY <2>1 DEF IInv, TypeOK, Element, Time
    <2>2. QED  BY <2>1 DEF IInv, TimeInv
<1>6. QED  BY <1>2, <1>3, <1>4, <1>5 DEF IInv

LEMMA TickInv == ASSUME IInv, Tick PROVE IInv'
<1>1. now' \in Time
    BY TrackingAssumption DEF IInv, TypeOK, Tick, Time
<1>2. TypeOK' /\ now' >= now
    <2>1. now' >= now
        BY DEF IInv, TypeOK, Tick, Time
    <2>2. TypeOK'
        BY <1>1 DEF IInv, TypeOK, Tick, socketVars, hashVars, initVars, mgrVars, getVars
    <2>3. QED  BY <2>1, <2>2
<1>3. QED  BY <1>2, OthersInv DEF Tick, hashVars, initVars, mgrVars

\* What becomes of missed when a message is sent, and when it is dropped.
Sent(i) == missed' = [missed EXCEPT ![i] = CASE @ = "last" -> "earlier"
                                             [] @ = "lost" -> "lost"
                                             [] OTHER -> "none"]
Dropped(i, s) == missed' = [missed EXCEPT ![i] =
                              IF @ = "lost" \/ (s = Gone /\ init = "refill") THEN "lost" ELSE "last"]

LEMMA SetLinkInv ==
    ASSUME IInv, NEW i \in Iface, NEW x \in Index, NEW s \in State, NEW c \in Change,
           SetLink(i, x, s, c)
    PROVE  IInv'
<1>1. /\ link' \in [Iface -> State] /\ index' \in [Iface -> Index]
      /\ changed' \in [Iface -> Change] /\ changes' \in 0..MaxChanges
    BY TrackingAssumption DEF IInv, TypeOK, SetLink
<1>2. /\ queue' \in Seq(Message) /\ Len(queue') <= MostFit
      /\ overrun' \in {"no", "error", "congested"} /\ (queue' = <<>> => overrun' = "no")
      /\ missed' \in [Iface -> {"none", "last", "earlier", "lost"}]
    <2>1. CASE UNCHANGED <<socketVars, missed>>
        BY <2>1 DEF IInv, TypeOK, socketVars
    <2>2. CASE /\ Len(queue) < MostFit /\ overrun = "no"
               /\ queue' = Append(queue, [if |-> i, index |-> x, state |-> s])
               /\ Sent(i) /\ UNCHANGED overrun
        <3>1. [if |-> i, index |-> x, state |-> s] \in Message
            BY DEF Message
        <3>2. Len(queue') = Len(queue) + 1 /\ queue' # <<>> /\ queue' \in Seq(Message)
            <4>1. PICK m \in Message : queue' = Append(queue, m)
                BY <2>2, <3>1
            <4>2. queue \in Seq(Message)
                BY DEF IInv, TypeOK
            <4>3. QED  BY <4>1, <4>2
        <3>3. missed' \in [Iface -> {"none", "last", "earlier", "lost"}]
            BY <2>2 DEF IInv, TypeOK, Sent
        <3>4. QED  BY <2>2, <3>2, <3>3, TrackingAssumption DEF IInv, TypeOK
    <2>3. CASE /\ Len(queue) >= LeastFit \/ overrun # "no"
               /\ overrun' = (IF overrun = "no" THEN "error" ELSE overrun)
               /\ Dropped(i, s) /\ UNCHANGED queue
        <3>1. queue # <<>>
            BY <2>3, TrackingAssumption DEF IInv, TypeOK
        <3>2. missed' \in [Iface -> {"none", "last", "earlier", "lost"}]
            BY <2>3 DEF IInv, TypeOK, Dropped
        <3>3. QED  BY <2>3, <3>1, <3>2 DEF IInv, TypeOK
    <2>4. QED  BY <2>1, <2>2, <2>3 DEF SetLink, Sent, Dropped
<1>3. TypeOK'
    BY <1>1, <1>2 DEF IInv, TypeOK, SetLink, hashVars, initVars, mgrVars, getVars
<1>4. now' >= now
    BY DEF IInv, TypeOK, SetLink, Time
<1>5. QED  BY <1>3, <1>4, OthersInv DEF SetLink, hashVars, initVars, mgrVars

LEMMA KernelInv == ASSUME IInv, Kernel PROVE IInv'
<1>1. Untracked \in Change /\ \A i \in Iface : index[i] \in Index
    BY TrackingAssumption DEF Untracked, Change, Time, IInv, TypeOK
<1>2. ASSUME NEW i \in Iface, ChangeState(i) PROVE IInv'
    <2>1. [at |-> now, evented |-> evented, tracked |-> init = "done"] \in Change
        BY DEF IInv, TypeOK, Change
    <2>2. PICK s \in OperState \ {link[i]} :
              SetLink(i, index[i], s, [at |-> now, evented |-> evented, tracked |-> init = "done"])
        BY <1>2 DEF ChangeState
    <2>3. QED  BY <1>1, <2>1, <2>2, SetLinkInv DEF State
<1>3. ASSUME NEW i \in Iface, DeleteLink(i) PROVE IInv'
    BY <1>1, <1>3, SetLinkInv DEF DeleteLink, State
<1>4. ASSUME NEW i \in Iface, CreateLink(i) PROVE IInv'
    <2>1. index[i] + 1 \in Index
        BY <1>1, <1>4, TrackingAssumption DEF CreateLink, Index
    <2>2. QED  BY <1>1, <1>4, <2>1, SetLinkInv DEF CreateLink, State
<1>5. QED  BY <1>2, <1>3, <1>4, TickInv DEF Kernel

\* Nothing is cached before the cache manager has filled its cache.
LEMMA MainThreadInv == ASSUME IInv, MainThread PROVE IInv'
<1>1. CASE InitCache
    <2>1. TypeOK'
        BY <1>1 DEF IInv, TypeOK, InitCache, InitSteps, kernelVars, mgrVars, getVars, socketVars
    <2>2. OrderInv'
        BY <1>1 DEF IInv, OrderInv, InitCache, mgrVars, Cached
    <2>3. StepInv' /\ WalkInv' /\ TimeInv'
        BY <1>1 DEF IInv, StepInv, WalkInv, TimeInv, InitCache, TypeOK, kernelVars, mgrVars, Cached
    <2>4. QED  BY <2>1, <2>2, <2>3 DEF IInv
<1>2. ASSUME NEW i \in Iface, InitAdd(i) PROVE IInv'
    <2>1. dump[i] \in OperState /\ now \in Time
        BY <1>2 DEF IInv, TypeOK, InitAdd, State
    <2>2. Entry(dump[i]) \in Element /\ Entry(dump[i]) # NoEntry /\ Entry(dump[i]).last_change = now
        BY <2>1, EntryTyped
    <2>3. TypeOK'
        BY <1>2, <2>2 DEF IInv, TypeOK, InitAdd, State, kernelVars, mgrVars, getVars, socketVars
    <2>4. OrderInv'
        BY <1>2 DEF IInv, OrderInv, InitAdd, mgrVars, Cached
    <2>5. StepInv' /\ WalkInv'
        BY <1>2 DEF IInv, StepInv, WalkInv, InitAdd, mgrVars, Cached
    <2>6. TimeInv'
        <3>1. \A k \in Iface : /\ hash'[k] = IF k = i THEN Entry(dump[i]) ELSE hash[k]
                               /\ dump'[k] = IF k = i THEN Gone ELSE dump[k]
            BY <1>2 DEF IInv, TypeOK, InitAdd
        <3>2. now' = now /\ now <= now /\ init' = "fill" /\ init = "fill"
            BY <1>2, <2>1 DEF InitAdd, kernelVars, Time
        <3>3. QED  BY <2>2, <3>1, <3>2 DEF IInv, TimeInv
    <2>7. QED  BY <2>3, <2>4, <2>5, <2>6 DEF IInv
<1>3. CASE MngrSubscribe
    <2>1. TypeOK'
        BY <1>3 DEF IInv, TypeOK, MngrSubscribe, InitSteps, hashVars, kernelVars, mgrVars, getVars,
                    socketVars
    <2>2. OrderInv'
        BY <1>3 DEF IInv, OrderInv, MngrSubscribe, mgrVars, Cached
    <2>3. StepInv' /\ WalkInv' /\ TimeInv'
        BY <1>3 DEF IInv, StepInv, WalkInv, TimeInv, MngrSubscribe, hashVars, kernelVars, mgrVars,
                    Cached
    <2>4. QED  BY <2>1, <2>2, <2>3 DEF IInv
<1>4. CASE MngrRefill
    <2>1. \A i \in Iface, x \in Index : cache'[i][x] = IF x = index[i] THEN link[i] ELSE Gone
        BY <1>4 DEF MngrRefill
    <2>2. cache' \in [Iface -> [Index -> State]] /\ order' = [i \in Iface |-> {}]
        BY <1>4 DEF MngrRefill, IInv, TypeOK, State
    <2>3. TypeOK'
        BY <1>4, <2>2 DEF IInv, TypeOK, MngrRefill, InitSteps, hashVars, kernelVars, getVars,
                          socketVars
    <2>4. StepInv' /\ WalkInv' /\ TimeInv'
        BY <1>4 DEF IInv, StepInv, WalkInv, TimeInv, MngrRefill, hashVars, kernelVars
    <2>5. OrderInv'
        <3>1. \A i \in Iface : Cached(i)' \subseteq {index[i]}
            BY <2>1 DEF Cached
        <3>2. QED  BY <2>2, <3>1 DEF OrderInv
    <2>6. QED  BY <2>3, <2>4, <2>5 DEF IInv
<1>5. QED  BY <1>1, <1>2, <1>3, <1>4 DEF MainThread

\* What a message does to the cache and its list.
LEMMA ReceiveStep ==
    ASSUME TypeOK, OrderInv, Receive
    PROVE  \E h \in Message :
              /\ h = queue[1] /\ h = Head(queue) /\ Len(queue) >= 1
              /\ cache' \in [Iface -> [Index -> State]]
              /\ \A j \in Iface, y \in Index :
                    cache'[j][y] = IF j = h.if /\ y = h.index THEN h.state ELSE cache[j][y]
              /\ order' \in [Iface -> SUBSET (Index \X Index)]
              /\ \A j \in Iface \ {h.if} : order'[j] = order[j]
              /\ \A y, z \in Index :
                    <<y, z>> \in order'[h.if] <=>
                        \/ y # h.index /\ z # h.index /\ <<y, z>> \in order[h.if]
                        \/ h.state # Gone /\ z = h.index /\ y \in Cached(h.if) \ {h.index}
<1>1. PICK h \in Message : h = Head(queue) /\ h = queue[1] /\ Len(queue) >= 1
    BY QueueTyped DEF TypeOK, Receive
<1>2. h.if \in Iface /\ h.index \in Index /\ h.state \in State
    BY DEF Message
<1> DEFINE others == Cached(h.if) \ {h.index}
           new == (order[h.if] \cap (others \X others))
                     \cup IF h.state = Gone THEN {} ELSE others \X {h.index}
<1>3. cache' = [cache EXCEPT ![h.if][h.index] = h.state]
    BY <1>1 DEF Receive
<1>4. order' = [order EXCEPT ![h.if] = new]
    BY <1>1 DEF Receive
<1>5. /\ cache' \in [Iface -> [Index -> State]]
      /\ \A j \in Iface, y \in Index :
            cache'[j][y] = IF j = h.if /\ y = h.index THEN h.state ELSE cache[j][y]
    BY <1>2, <1>3 DEF TypeOK
<1>6. others \subseteq Index /\ new \subseteq Index \X Index
    BY <1>2 DEF Cached
<1>7. order' \in [Iface -> SUBSET (Index \X Index)]
    BY <1>2, <1>4, <1>6 DEF TypeOK
<1>8. \A j \in Iface \ {h.if} : order'[j] = order[j]
    BY <1>2, <1>4 DEF TypeOK
<1>9. ASSUME NEW y \in Index, NEW z \in Index
      PROVE  <<y, z>> \in order'[h.if] <=>
                \/ y # h.index /\ z # h.index /\ <<y, z>> \in order[h.if]
                \/ h.state # Gone /\ z = h.index /\ y \in Cached(h.if) \ {h.index}
    <2>1. order'[h.if] = new
        BY <1>2, <1>4 DEF TypeOK
    <2>2. <<y, z>> \in order[h.if] => y \in Cached(h.if) /\ z \in Cached(h.if)
        BY <1>2 DEF OrderInv
    <2>3. <<y, z>> \in new <=> \/ <<y, z>> \in order[h.if] /\ y \in others /\ z \in others
                               \/ h.state # Gone /\ y \in others /\ z = h.index
        OBVIOUS
    <2>4. QED  BY <2>1, <2>2, <2>3
<1>10. QED  BY <1>1, <1>5, <1>7, <1>8, <1>9

LEMMA ReceiveInv == ASSUME IInv, Receive PROVE IInv'
<1>1. PICK h \in Message :
              /\ h = queue[1] /\ h = Head(queue) /\ Len(queue) >= 1
              /\ cache' \in [Iface -> [Index -> State]]
              /\ \A j \in Iface, y \in Index :
                    cache'[j][y] = IF j = h.if /\ y = h.index THEN h.state ELSE cache[j][y]
              /\ order' \in [Iface -> SUBSET (Index \X Index)]
              /\ \A j \in Iface \ {h.if} : order'[j] = order[j]
              /\ \A y, z \in Index :
                    <<y, z>> \in order'[h.if] <=>
                        \/ y # h.index /\ z # h.index /\ <<y, z>> \in order[h.if]
                        \/ h.state # Gone /\ z = h.index /\ y \in Cached(h.if) \ {h.index}
    BY ReceiveStep DEF IInv
<1>2. h.if \in Iface /\ h.index \in Index /\ h.state \in State
    BY DEF Message
<1>3. queue' \in Seq(Message) /\ Len(queue') <= MostFit
    BY QueueTyped, TrackingAssumption DEF IInv, TypeOK, Receive
<1>4. TypeOK'
    BY <1>1, <1>3 DEF IInv, TypeOK, Receive, hashVars, kernelVars, initVars, getVars
<1>5. /\ init = "done" /\ \A i \in Iface : walk'[i] = {}
      /\ UNCHANGED <<hash, evented, init, dump, now, walk>> /\ mgr = "polling"
      /\ mgr' \in {"polling", "lock"} /\ (mgr' = "polling" => cache' = cache)
    BY DEF IInv, StepInv, Receive, hashVars, kernelVars, initVars
<1>6. \A i \in Iface, x \in Index :
          x \in Cached(i)' <=> IF i = h.if /\ x = h.index THEN h.state # Gone ELSE x \in Cached(i)
    BY <1>1 DEF Cached
<1>7. StepInv'
    BY <1>5 DEF StepInv
<1>8. OrderInv'
    <2> SUFFICES ASSUME NEW i \in Iface
                 PROVE  /\ order'[i] \subseteq Cached(i)' \X Cached(i)'
                        /\ \A x \in Cached(i)' : <<x, x>> \notin order'[i]
                        /\ \A x, y \in Cached(i)' : x # y => <<x, y>> \in order'[i] \/ <<y, x>> \in order'[i]
        BY DEF OrderInv
    <2>1. /\ \A x, y \in Index : <<x, y>> \in order[i] => x \in Cached(i) /\ y \in Cached(i)
          /\ \A x \in Index : <<x, x>> \notin order[i]
          /\ \A x, y \in Cached(i) : x # y => <<x, y>> \in order[i] \/ <<y, x>> \in order[i]
        BY DEF IInv, OrderInv
    <2>2. /\ \A x, y \in Index : <<x, y>> \in order'[i] => x \in Cached(i)' /\ y \in Cached(i)'
          /\ \A x \in Index : <<x, x>> \notin order'[i]
          /\ \A x, y \in Index : x \in Cached(i)' /\ y \in Cached(i)' /\ x # y =>
                <<x, y>> \in order'[i] \/ <<y, x>> \in order'[i]
        <3>1. CASE i # h.if
            BY <1>1, <1>6, <2>1, <3>1
        <3>2. CASE i = h.if
            BY <1>1, <1>2, <1>6, <2>1, <3>2
        <3>3. QED  BY <3>1, <3>2
    <2>3. order'[i] \subseteq Index \X Index /\ Cached(i)' \subseteq Index
        BY <1>1 DEF Cached
    <2>4. order'[i] \subseteq Cached(i)' \X Cached(i)'
        BY <2>2, <2>3
    <2>5. QED  BY <2>2, <2>3, <2>4
<1>9. WalkInv'
    <2> SUFFICES ASSUME NEW i \in Iface, evented', mgr' = "polling", Cached(i)' # {}
                 PROVE  \E x \in Cached(i)' : InHash(i, x)'
        BY <1>5 DEF WalkInv
    <2>1. cache' = cache /\ UNCHANGED hash /\ evented /\ mgr = "polling"
        BY <1>5
    <2>2. QED  BY <2>1 DEF IInv, WalkInv, Cached, InHash
<1>10. TimeInv'
    BY <1>5 DEF IInv, TimeInv
<1>11. QED  BY <1>4, <1>7, <1>8, <1>9, <1>10 DEF IInv

\* After a visit the hash has the state of the link that was visited.
LEMMA VisitStep ==
    ASSUME IInv, NEW i \in Iface, NEW x \in Index, VisitLink(i, x)
    PROVE  /\ cache[i][x] \in OperState /\ now \in Time /\ x \in Cached(i)
           /\ hash' \in [Iface -> Element \cup {NoEntry}]
           /\ \A j \in Iface \ {i} : hash'[j] = hash[j]
           /\ InHash(i, x)'
           /\ \/ hash'[i] = hash[i] /\ InHash(i, x)
              \/ hash'[i].last_change = now /\ hash'[i].state = cache[i][x] /\ ~InHash(i, x)
<1>1. x \in Cached(i)
    BY DEF IInv, StepInv, VisitLink, First
<1>2. cache[i][x] \in OperState /\ now \in Time
    BY <1>1 DEF IInv, TypeOK, Cached, State
<1>3. /\ Entry(cache[i][x]) \in Element /\ Entry(cache[i][x]) # NoEntry
      /\ Entry(cache[i][x]).state = cache[i][x] /\ Entry(cache[i][x]).last_change = now
    BY <1>2, EntryTyped
<1>4. cache' = cache
    BY DEF VisitLink
<1>5. CASE InHash(i, x)
    <2>1. hash' = hash
        BY <1>5 DEF VisitLink, InHash
    <2>2. QED  BY <1>1, <1>2, <1>4, <1>5, <2>1 DEF IInv, TypeOK, InHash
<1>6. CASE ~InHash(i, x)
    <2>1. hash' = [hash EXCEPT ![i] = Entry(cache[i][x])]
        BY <1>6 DEF VisitLink, InHash
    <2>2. /\ hash'[i] = Entry(cache[i][x]) /\ hash' \in [Iface -> Element \cup {NoEntry}]
          /\ \A j \in Iface \ {i} : hash'[j] = hash[j]
        BY <1>3, <2>1 DEF IInv, TypeOK
    <2>3. QED  BY <1>1, <1>2, <1>3, <1>4, <1>6, <2>2 DEF InHash
<1>7. QED  BY <1>5, <1>6

LEMMA VisitLinkInv ==
    ASSUME IInv, NEW i \in Iface, NEW x \in Index, VisitLink(i, x)
    PROVE  IInv'
<1>1. /\ cache[i][x] \in OperState /\ now \in Time /\ x \in Cached(i)
      /\ hash' \in [Iface -> Element \cup {NoEntry}]
      /\ \A j \in Iface \ {i} : hash'[j] = hash[j]
      /\ InHash(i, x)'
      /\ hash'[i] = hash[i] \/ hash'[i].last_change = now
    BY VisitStep
<1>2. /\ walk' \in [Iface -> SUBSET Index] /\ walk'[i] = walk[i] \ {x} /\ First(i, x)
      /\ \A j \in Iface \ {i} : walk'[j] = walk[j]
      /\ mgr = "walk" /\ mgr' = "walk" /\ UNCHANGED <<cache, order, evented>>
    BY DEF IInv, TypeOK, VisitLink
<1>3. TypeOK'
    BY <1>1, <1>2 DEF IInv, TypeOK, VisitLink, kernelVars, initVars, getVars, socketVars
<1>4. \A j \in Iface : Cached(j)' = Cached(j)
    BY <1>2 DEF Cached
<1>5. StepInv' /\ OrderInv'
    BY <1>2, <1>4 DEF IInv, StepInv, OrderInv, VisitLink, initVars
<1>6. WalkInv'
    <2> SUFFICES ASSUME NEW j \in Iface
                 PROVE  /\ Visited(j)' # {} => \E y \in Visited(j)' : InHash(j, y)'
                        /\ \A y \in Index : LastVisited(j, y)' => InHash(j, y)'
                        /\ \A y \in Visited(j)', z \in Cached(j)' :
                              <<z, y>> \in order'[j] => z \in Visited(j)'
        BY <1>2 DEF WalkInv
    <2>1. /\ Visited(j) # {} => \E y \in Visited(j) : InHash(j, y)
          /\ \A y \in Index : LastVisited(j, y) => InHash(j, y)
          /\ \A y \in Visited(j), z \in Cached(j) : <<z, y>> \in order[j] => z \in Visited(j)
        BY <1>2 DEF IInv, WalkInv
    <2>2. CASE j # i
        BY <1>1, <1>2, <2>1, <2>2 DEF Visited, LastVisited, InHash, Cached
    <2>3. CASE j = i
        <3>1. Visited(i)' = Visited(i) \cup {x}
            BY <1>1, <1>2, <1>4 DEF Visited
        <3>2. ASSUME NEW y \in Visited(i)', NEW z \in Cached(i), <<z, y>> \in order[i]
              PROVE  z \in Visited(i)'
            <4>1. CASE y = x
                BY <1>2, <3>1, <3>2, <4>1 DEF First, Visited
            <4>2. CASE y # x
                BY <2>1, <2>3, <3>1, <3>2, <4>2
            <4>3. QED  BY <4>1, <4>2
        <3>3. ASSUME NEW y \in Index, LastVisited(i, y)' PROVE y = x
            <4>1. y \in Visited(i)' /\ <<y, x>> \notin order[i]
                BY <1>2, <3>1, <3>3 DEF LastVisited
            <4>2. ASSUME y # x PROVE FALSE
                <5>1. y \in Visited(i) /\ y \in Cached(i)
                    BY <3>1, <4>1, <4>2 DEF Visited
                <5>2. <<x, y>> \in order[i]
                    BY <1>1, <4>1, <4>2, <5>1 DEF IInv, OrderInv
                <5>3. x \in Visited(i)
                    BY <1>1, <2>1, <2>3, <5>1, <5>2
                <5>4. QED  BY <1>2, <5>3 DEF First, Visited
            <4>3. QED  BY <4>2
        <3>4. QED  BY <1>1, <1>2, <1>4, <2>3, <3>1, <3>2, <3>3
    <2>4. QED  BY <2>2, <2>3
<1>7. TimeInv'
    <2>1. now <= now /\ now' = now /\ init' = init /\ init = "done"
        BY <1>1, <1>2 DEF IInv, StepInv, VisitLink, kernelVars, initVars, Time
    <2>2. QED  BY <1>1, <2>1 DEF IInv, TimeInv
<1>8. QED  BY <1>3, <1>5, <1>6, <1>7 DEF IInv

LEMMA ManagerThreadInv == ASSUME IInv, ManagerThread PROVE IInv'
<1>1. CASE ReceiveOverrun
    <2>1. TypeOK'
        BY <1>1 DEF IInv, TypeOK, ReceiveOverrun, hashVars, kernelVars, initVars, mgrVars, getVars
    <2>2. now' >= now
        BY <1>1 DEF IInv, TypeOK, ReceiveOverrun, kernelVars, Time
    <2>3. QED  BY <1>1, <2>1, <2>2, OthersInv DEF ReceiveOverrun, hashVars, initVars, mgrVars
<1>2. CASE LockHash
    <2>1. /\ \A i \in Iface : Cached(i) \subseteq Index /\ Cached(i)' = Cached(i)
          /\ \A i \in Iface : walk'[i] = Cached(i)
        BY <1>2 DEF LockHash, Cached
    <2>2. TypeOK'
        BY <1>2, <2>1 DEF IInv, TypeOK, LockHash, kernelVars, initVars, getVars, socketVars
    <2>3. StepInv' /\ OrderInv' /\ TimeInv'
        BY <1>2, <2>1 DEF IInv, StepInv, OrderInv, TimeInv, LockHash, kernelVars, initVars
    <2>4. WalkInv'
        BY <1>2, <2>1 DEF WalkInv, LockHash, Visited, LastVisited
    <2>5. QED  BY <2>2, <2>3, <2>4 DEF IInv
<1>3. CASE UnlockHash
    <2>1. TypeOK'
        BY <1>3 DEF IInv, TypeOK, UnlockHash, kernelVars, initVars, getVars, socketVars
    <2>2. \A i \in Iface : Cached(i)' = Cached(i) /\ Visited(i) = Cached(i)
        BY <1>3 DEF UnlockHash, Cached, Visited
    <2>3. StepInv' /\ OrderInv' /\ TimeInv'
        BY <1>3, <2>2 DEF IInv, StepInv, OrderInv, TimeInv, UnlockHash, kernelVars, initVars
    <2>4. WalkInv'
        BY <1>3, <2>2 DEF IInv, WalkInv, UnlockHash, InHash
    <2>5. QED  BY <2>1, <2>3, <2>4 DEF IInv
<1>4. QED  BY <1>1, <1>2, <1>3, ReceiveInv, VisitLinkInv DEF ManagerThread

LEMMA SubscriptionThreadInv == ASSUME IInv, SubscriptionThread PROVE IInv'
<1>1. TypeOK'
    <2>1. CASE ListInterfaces
        <3>1. oper' \subseteq Iface
            BY <2>1 DEF ListInterfaces, Links
        <3>2. gets' \in 0..MaxGets
            BY <2>1, TrackingAssumption DEF IInv, TypeOK, ListInterfaces
        <3>3. QED
            BY <2>1, <3>1, <3>2
            DEF IInv, TypeOK, ListInterfaces, hashVars, kernelVars, initVars, mgrVars, socketVars
    <2>2. ASSUME NEW i \in Iface, GetLastChange(i) PROVE TypeOK'
        BY <2>2, TrackingAssumption
        DEF IInv, TypeOK, GetLastChange, hashVars, kernelVars, initVars, mgrVars, socketVars
    <2>3. CASE GetLock \/ GetUnlock
        BY <2>3 DEF IInv, TypeOK, GetLock, GetUnlock, kernelVars, initVars, mgrVars, socketVars
    <2>4. QED  BY <2>1, <2>2, <2>3 DEF SubscriptionThread
<1>2. UNCHANGED <<hash, init, dump, mgr, walk, cache, order, evented, now>>
    BY DEF SubscriptionThread, ListInterfaces, GetLastChange, GetLock, GetUnlock, hashVars,
           kernelVars, initVars, mgrVars
<1>3. now' >= now
    BY <1>2 DEF IInv, TypeOK, Time
<1>4. QED  BY <1>1, <1>2, <1>3, OthersInv

LEMMA NextInv == IInv /\ [Next]_vars => IInv'
<1> SUFFICES ASSUME IInv, [Next]_vars PROVE IInv'
    OBVIOUS
<1>1. CASE UNCHANGED vars
    <2>1. /\ UNCHANGED <<hash, init, dump, mgr, walk, cache, order, evented, now>> /\ TypeOK'
        BY <1>1 DEF vars, hashVars, kernelVars, initVars, mgrVars, getVars, socketVars, IInv, TypeOK
    <2>2. now' >= now
        BY <2>1 DEF IInv, TypeOK, Time
    <2>3. QED  BY <2>1, <2>2, OthersInv
<1>2. CASE Next
    BY <1>2, KernelInv, MainThreadInv, ManagerThreadInv, SubscriptionThreadInv DEF Next
<1>3. QED  BY <1>1, <1>2

LEMMA InvariantHolds == Spec => []IInv
    BY InitInv, NextInv, PTL DEF Spec

\* Every variable keeps its type: the queue is never longer than the socket
\* allows, and every element of the hash has the state of a link that exists.
THEOREM TypeCorrect == Spec => []TypeOK
    BY InvariantHolds, PTL DEF IInv

-----------------------------------------------------------------------------
(* How an element changes                                                  *)

Forward(i) ==
    init # "start" /\ hash[i] # NoEntry /\ hash'[i] # hash[i] =>
        /\ hash'[i] # NoEntry
        /\ hash'[i].state # hash[i].state
        /\ hash'[i].last_change >= hash[i].last_change

LEMMA StepForward == ASSUME IInv, [Next]_vars, NEW i \in Iface PROVE Forward(i)
<1>1. CASE UNCHANGED hash
    BY <1>1 DEF Forward
<1>2. CASE InitCache
    BY <1>2 DEF Forward, InitCache
<1>3. ASSUME NEW k \in Iface, InitAdd(k) PROVE Forward(i)
    BY <1>3 DEF Forward, InitAdd, IInv, TimeInv, TypeOK
<1>4. ASSUME NEW k \in Iface, NEW x \in Index, VisitLink(k, x) PROVE Forward(i)
    <2>1. /\ now \in Time /\ \A j \in Iface \ {k} : hash'[j] = hash[j]
          /\ hash'[k] # NoEntry
          /\ \/ hash'[k] = hash[k]
             \/ hash'[k].last_change = now /\ hash'[k].state = cache[k][x] /\ ~InHash(k, x)
        BY <1>4, VisitStep DEF InHash
    <2>2. CASE hash'[i] = hash[i]
        BY <2>2 DEF Forward
    <2>3. CASE hash'[i] # hash[i] /\ hash[i] # NoEntry
        <3>1. k = i /\ hash'[i].last_change = now /\ hash'[i].state # hash[i].state
            BY <2>1, <2>3 DEF InHash
        <3>2. hash[i].last_change <= now
            BY <2>3 DEF IInv, TimeInv
        <3>3. QED  BY <2>1, <3>1, <3>2 DEF Forward
    <2>4. QED  BY <2>2, <2>3 DEF Forward
<1>5. QED
    BY <1>1, <1>2, <1>3, <1>4
    DEF Next, Kernel, MainThread, ManagerThread, SubscriptionThread, Tick, ChangeState,
        DeleteLink, CreateLink, SetLink, MngrSubscribe, MngrRefill, Receive, ReceiveOverrun,
        LockHash, UnlockHash, ListInterfaces, GetLastChange, GetLock, GetUnlock, hashVars, vars

\* Whatever the order of the messages and of the threads, the element of a link
\* changes only with its state and never to an earlier last-change, and it is
\* not removed.
THEOREM Monotone == Spec => LastChangeMonotone
<1>1. IInv /\ [Next]_vars => \A i \in Iface : Forward(i)
    BY StepForward
<1>2. IInv /\ [Next]_vars =>
        [\A i \in Iface : init # "start" /\ hash[i] # NoEntry /\ hash'[i] # hash[i] =>
            /\ hash'[i] # NoEntry
            /\ hash'[i].state # hash[i].state
            /\ hash'[i].last_change >= hash[i].last_change]_vars
    BY <1>1 DEF Forward
<1>3. QED  BY <1>2, InvariantHolds, PTL DEF Spec, LastChangeMonotone

-----------------------------------------------------------------------------
(* The mutex                                                               *)

\* Unless init or a getter that did not find its link has taken the mutex from
\* under it, whoever uses the hash holds the mutex.
LockInv ==
    /\ init = "start" => mgr = "absent"
    /\ ~reset /\ ~freed /\ mgr = "walk" => mutex /\ get # "read"
    /\ ~reset /\ ~freed /\ get = "read" => mutex

LEMMA LockNext == ASSUME LockInv, TypeOK, [Next]_vars PROVE LockInv'
<1>1. CASE Kernel
    <2>1. ASSUME NEW i \in Iface, NEW x, NEW s, NEW c, SetLink(i, x, s, c)
          PROVE  UNCHANGED <<hashVars, initVars, mgrVars, getVars, freed>>
        BY <2>1 DEF SetLink
    <2>2. UNCHANGED <<hashVars, initVars, mgrVars, getVars, freed>>
        BY <1>1, <2>1 DEF Kernel, Tick, ChangeState, DeleteLink, CreateLink
    <2>3. QED  BY <2>2 DEF LockInv, hashVars, initVars, mgrVars, getVars
<1>2. CASE MainThread
    BY <1>2 DEF LockInv, TypeOK, MainThread, InitCache, InitAdd, MngrSubscribe, MngrRefill,
                hashVars, kernelVars, mgrVars, getVars
<1>3. CASE ManagerThread
    BY <1>3 DEF LockInv, TypeOK, ManagerThread, Receive, ReceiveOverrun, LockHash, UnlockHash,
                VisitLink, hashVars, kernelVars, initVars, mgrVars, getVars
<1>4. CASE SubscriptionThread
    BY <1>4 DEF LockInv, TypeOK, SubscriptionThread, ListInterfaces, GetLastChange, GetLock,
                GetUnlock, hashVars, kernelVars, initVars, mgrVars
<1>5. CASE UNCHANGED vars
    BY <1>5 DEF vars, LockInv, hashVars, kernelVars, initVars, mgrVars, getVars
<1>6. QED  BY <1>1, <1>2, <1>3, <1>4, <1>5 DEF Next

\* "block further access using mutex": callback and getter use the hash
\* together only after a getter has unlocked a mutex that it had not locked.
THEOREM AccessExclusive == Spec => []AccessExclusiveUnlessFreed
<1>1. Init => LockInv
    BY DEF Init, LockInv
<1>2. LockInv /\ TypeOK /\ [Next]_vars => LockInv'
    BY LockNext
<1>3. LockInv => AccessExclusiveUnlessFreed
    BY DEF LockInv, AccessExclusiveUnlessFreed
<1>4. QED  BY <1>1, <1>2, <1>3, TypeCorrect, PTL DEF Spec

-----------------------------------------------------------------------------
(* The messages of a name and the list of its cached links                 *)

Says(p, i) == queue[p].if = i

\* The message that deletes link x of i is on its way.
Doomed(i, x) ==
    \E p \in 1..Len(queue) : Says(p, i) /\ queue[p].index = x /\ queue[p].state = Gone

\* Nothing is sent before the socket has joined the group, and nothing cached
\* before the set-up is done.
SocketInv ==
    /\ ~Subscribed => queue = <<>> /\ overrun = "no"
    /\ init # "done" => \A i \in Iface : Cached(i) = {}

\* The messages of a name are about one link after another, and a link that
\* comes after an older one in the list has no message of that one to follow.
AscendInv(i) ==
    /\ \A x \in Cached(i) : x <= index[i]
    /\ \A p \in 1..Len(queue) : Says(p, i) =>
          /\ queue[p].index <= index[i]
          /\ queue[p].state = Gone /\ queue[p].index = index[i] => link[i] = Gone
    /\ \A p, q \in 1..Len(queue) : p < q /\ Says(p, i) /\ Says(q, i) =>
          /\ queue[p].index <= queue[q].index
          /\ queue[p].state = Gone => queue[p].index < queue[q].index
    /\ \A x, y \in Index, p \in 1..Len(queue) :
          <<x, y>> \in order[i] /\ x < y /\ Says(p, i) => queue[p].index >= y

\* A deleted link that comes, or will come, after a newer one in the list will
\* be deleted there, unless the message of its deletion was dropped.
ListInv(i) ==
    missed[i] # "lost" =>
        /\ \A p \in 1..Len(queue) :
              init = "refill" /\ Says(p, i) /\ (queue[p].index = index[i] => link[i] = Gone)
                  => Doomed(i, queue[p].index)
        /\ \A y \in Cached(i), p \in 1..Len(queue) :
              Says(p, i) /\ queue[p].index < y => Doomed(i, queue[p].index)
        /\ \A x, y \in Index : <<y, x>> \in order[i] /\ x < y => Doomed(i, x)

\* Then the hash has the state of the last link in the list.
AgreeInv(i) ==
    evented /\ mgr = "polling" /\ missed[i] # "lost" =>
        \A x \in Index : LastCached(i, x) => InHash(i, x)

QueueInv == SocketInv /\ \A i \in Iface : AscendInv(i) /\ ListInv(i) /\ AgreeInv(i)

LEMMA QueueInit == Init => QueueInv
<1> SUFFICES ASSUME Init PROVE QueueInv
    OBVIOUS
<1>1. /\ Len(queue) = 0 /\ \A i \in Iface : Cached(i) = {} /\ order[i] = {}
      /\ ~evented
    BY DEF Init, Cached
<1>2. SocketInv
    BY <1>1 DEF Init, SocketInv
<1>3. QED  BY <1>1, <1>2 DEF QueueInv, AscendInv, ListInv, AgreeInv

\* A step that leaves the kernel, the messages and the cache alone.
LEMMA QueueKept ==
    ASSUME TypeOK, QueueInv, UNCHANGED <<link, index, queue, cache, order, missed>>, SocketInv',
           init' = "refill" => init = "refill" \/ queue = <<>>,
           \A i \in Iface : AgreeInv(i)'
    PROVE  QueueInv'
<1> SUFFICES ASSUME NEW i \in Iface PROVE (AscendInv(i) /\ ListInv(i))'
    BY DEF QueueInv
<1>1. AscendInv(i) /\ ListInv(i)
    BY DEF QueueInv
<1>2. /\ Cached(i)' = Cached(i) /\ \A p : Says(p, i)' <=> Says(p, i)
      /\ \A x : Doomed(i, x)' <=> Doomed(i, x)
    BY DEF Cached, Says, Doomed
<1>3. AscendInv(i)'
    BY <1>1, <1>2 DEF AscendInv
<1>4. ListInv(i)'
    <2>1. init' = "refill" /\ 1..Len(queue) # {} => init = "refill"
        BY DEF TypeOK
    <2>2. QED  BY <1>1, <1>2, <2>1 DEF ListInv
<1>5. QED  BY <1>3, <1>4

LEMMA AgreeKept ==
    ASSUME NEW i \in Iface, AgreeInv(i),
           UNCHANGED <<cache, order, hash, evented, mgr>>, missed'[i] # "lost" => missed[i] # "lost"
    PROVE  AgreeInv(i)'
<1>1. \A x : (LastCached(i, x)' <=> LastCached(i, x)) /\ (InHash(i, x)' <=> InHash(i, x))
    BY DEF LastCached, Cached, InHash
<1>2. QED  BY <1>1 DEF AgreeInv

-----------------------------------------------------------------------------
(* The kernel changes a link                                               *)

\* The link of a name that exists changes or is deleted, or one that does not
\* is created; only the change is recorded.
Recorded(i, x, s, c) ==
    \/ /\ link[i] # Gone /\ x = index[i] /\ s # link[i]
       /\ \/ c = Untracked /\ s = Gone
          \/ c = [at |-> now, evented |-> evented, tracked |-> init = "done"] /\ s # Gone
    \/ link[i] = Gone /\ x = index[i] + 1 /\ s # Gone /\ c = Untracked

LEMMA KernelStep ==
    ASSUME TypeOK, Kernel
    PROVE  \/ Tick
           \/ \E i \in Iface, x \in Index, s \in State, c \in Change :
                 SetLink(i, x, s, c) /\ Recorded(i, x, s, c)
<1>1. \A i \in Iface : index[i] \in Index
    BY DEF TypeOK
<1>2. Untracked \in Change
    BY TrackingAssumption DEF Untracked, Change, Time
<1>3. ASSUME NEW i \in Iface, ChangeState(i)
      PROVE  \E x \in Index, s \in State, c \in Change : SetLink(i, x, s, c) /\ Recorded(i, x, s, c)
    <2> DEFINE d == [at |-> now, evented |-> evented, tracked |-> init = "done"]
    <2>1. d \in Change
        BY DEF TypeOK, Change
    <2>2. PICK s \in OperState \ {link[i]} : SetLink(i, index[i], s, d) /\ link[i] # Gone
        BY <1>3 DEF ChangeState
    <2>3. s \in State /\ Recorded(i, index[i], s, d)
        BY <2>2, TrackingAssumption DEF Recorded, State
    <2>4. QED  BY <1>1, <2>1, <2>2, <2>3
<1>4. ASSUME NEW i \in Iface, DeleteLink(i)
      PROVE  \E x \in Index, s \in State, c \in Change : SetLink(i, x, s, c) /\ Recorded(i, x, s, c)
    <2>1. SetLink(i, index[i], Gone, Untracked) /\ Recorded(i, index[i], Gone, Untracked)
        BY <1>4 DEF DeleteLink, Recorded
    <2>2. QED  BY <1>1, <1>2, <2>1 DEF State
<1>5. ASSUME NEW i \in Iface, CreateLink(i)
      PROVE  \E x \in Index, s \in State, c \in Change : SetLink(i, x, s, c) /\ Recorded(i, x, s, c)
    <2>1. PICK s \in OperState : SetLink(i, index[i] + 1, s, Untracked) /\ link[i] = Gone
        BY <1>5 DEF CreateLink
    <2>2. index[i] + 1 \in Index
        BY <1>1, <1>5, TrackingAssumption DEF CreateLink, Index
    <2>3. s \in State /\ Recorded(i, index[i] + 1, s, Untracked)
        BY <2>1, TrackingAssumption DEF Recorded, State
    <2>4. QED  BY <1>2, <2>1, <2>2, <2>3
<1>6. QED  BY <1>3, <1>4, <1>5 DEF Kernel

\* Nothing is sent yet; or the message is the last of the queue; or it is lost.
LEMMA SetLinkStep ==
    ASSUME TypeOK, SocketInv, NEW i \in Iface, NEW x \in Index, NEW s \in State, NEW c \in Change,
           SetLink(i, x, s, c)
    PROVE  /\ link' = [link EXCEPT ![i] = s] /\ index' = [index EXCEPT ![i] = x]
           /\ changed' = [changed EXCEPT ![i] = c]
           /\ UNCHANGED <<now, hash, init, mgr, walk, cache, order, evented>>
           /\ \A j \in Iface : missed[j] = "lost" => missed'[j] = "lost"
           /\ \A j \in Iface \ {i} : missed'[j] = missed[j]
           /\ SocketInv'
           /\ \/ UNCHANGED queue /\ Len(queue) = 0 /\ init \notin {"refill", "done"}
              \/ /\ Len(queue') = Len(queue) + 1
                 /\ queue'[Len(queue) + 1] = [if |-> i, index |-> x, state |-> s]
                 /\ \A n \in 1..Len(queue) : queue'[n] = queue[n]
                 /\ missed'[i] = "none" \/ (missed[i] = "last" /\ missed'[i] = "earlier")
                                        \/ missed'[i] = "lost"
                 /\ missed'[i] = "none" => missed[i] \in {"none", "earlier"}
              \/ /\ UNCHANGED queue /\ missed'[i] \in {"last", "lost"}
                 /\ s = Gone /\ init = "refill" => missed'[i] = "lost"
<1>1. /\ link' = [link EXCEPT ![i] = s] /\ index' = [index EXCEPT ![i] = x]
      /\ changed' = [changed EXCEPT ![i] = c]
      /\ UNCHANGED <<now, hash, init, mgr, walk, cache, order, evented>>
    BY DEF SetLink, hashVars, initVars, mgrVars
<1>2. \A j \in Iface : Cached(j)' = Cached(j)
    BY <1>1 DEF Cached
<1>3. missed \in [Iface -> {"none", "last", "earlier", "lost"}] /\ queue \in Seq(Message)
    BY DEF TypeOK
<1>4. CASE ~Subscribed /\ UNCHANGED <<socketVars, missed>>
    <2>1. queue = <<>> /\ UNCHANGED <<queue, overrun, missed>>
        BY <1>4 DEF SocketInv, socketVars
    <2>2. Len(queue) = 0
        BY <2>1
    <2>3. SocketInv'
        BY <1>1, <1>2, <2>1 DEF SocketInv, Subscribed
    <2>4. QED  BY <1>1, <1>4, <2>1, <2>2, <2>3 DEF Subscribed
<1>5. CASE /\ Subscribed
           /\ queue' = Append(queue, [if |-> i, index |-> x, state |-> s]) /\ Sent(i)
    <2>1. PICK m \in Message : m = [if |-> i, index |-> x, state |-> s]
        BY DEF Message
    <2>2. /\ Len(queue') = Len(queue) + 1 /\ queue'[Len(queue) + 1] = m
          /\ \A n \in 1..Len(queue) : queue'[n] = queue[n]
        BY <1>3, <1>5, <2>1
    <2>3. /\ \A j \in Iface : missed[j] = "lost" => missed'[j] = "lost"
          /\ \A j \in Iface \ {i} : missed'[j] = missed[j]
          /\ missed'[i] = "none" \/ (missed[i] = "last" /\ missed'[i] = "earlier")
                                 \/ missed'[i] = "lost"
          /\ missed'[i] = "none" => missed[i] \in {"none", "earlier"}
        BY <1>3, <1>5 DEF Sent
    <2>4. SocketInv'
        BY <1>1, <1>2, <1>5 DEF SocketInv, Subscribed
    <2>5. QED  BY <1>1, <2>1, <2>2, <2>3, <2>4
<1>6. CASE Subscribed /\ Dropped(i, s) /\ UNCHANGED queue
    <2>1. /\ \A j \in Iface : missed[j] = "lost" => missed'[j] = "lost"
          /\ \A j \in Iface \ {i} : missed'[j] = missed[j]
          /\ missed'[i] \in {"last", "lost"}
          /\ s = Gone /\ init = "refill" => missed'[i] = "lost"
        BY <1>3, <1>6 DEF Dropped
    <2>2. SocketInv'
        BY <1>1, <1>2, <1>6 DEF SocketInv, Subscribed
    <2>3. QED  BY <1>1, <1>6, <2>1, <2>2
<1>7. QED  BY <1>4, <1>5, <1>6 DEF SetLink, Sent, Dropped

LEMMA QueueSetLink ==
    ASSUME IInv, QueueInv, NEW i \in Iface, NEW x \in Index, NEW s \in State, NEW c \in Change,
           SetLink(i, x, s, c), Recorded(i, x, s, c)
    PROVE  QueueInv'
<1>1. /\ link' = [link EXCEPT ![i] = s] /\ index' = [index EXCEPT ![i] = x]
      /\ UNCHANGED <<hash, init, mgr, walk, cache, order, evented>>
      /\ \A j \in Iface : missed[j] = "lost" => missed'[j] = "lost"
      /\ SocketInv'
      /\ \/ UNCHANGED queue /\ Len(queue) = 0 /\ init \notin {"refill", "done"}
         \/ /\ Len(queue') = Len(queue) + 1
            /\ queue'[Len(queue) + 1] = [if |-> i, index |-> x, state |-> s]
            /\ \A n \in 1..Len(queue) : queue'[n] = queue[n]
         \/ /\ UNCHANGED queue
            /\ s = Gone /\ init = "refill" => missed'[i] = "lost"
    BY SetLinkStep DEF IInv, QueueInv
<1> SUFFICES ASSUME NEW j \in Iface PROVE (AscendInv(j) /\ ListInv(j) /\ AgreeInv(j))'
    BY <1>1 DEF QueueInv
<1>2. AscendInv(j) /\ ListInv(j) /\ AgreeInv(j) /\ SocketInv
    BY DEF QueueInv
<1>3. AgreeInv(j)'
    BY <1>1, <1>2, AgreeKept
<1>4. PICK L \in Nat : L = Len(queue)
    BY DEF IInv, TypeOK
<1>5. /\ index[j] \in Int /\ index'[j] = (IF j = i THEN x ELSE index[j])
      /\ link'[j] = (IF j = i THEN s ELSE link[j]) /\ x \in Int
      /\ x >= index[i]
    BY <1>1, TrackingAssumption DEF IInv, TypeOK, Index, Recorded
<1>6. Cached(j)' = Cached(j) /\ Cached(j) \subseteq Int /\ Index \subseteq Int
    BY <1>1 DEF Cached, Index
<1>7. \A p \in 1..L : queue[p].index \in Index /\ queue[p].index \in Int
    <2>1. \A p \in 1..L : queue[p] \in Message
        BY <1>4 DEF IInv, TypeOK
    <2>2. QED  BY <2>1 DEF Message, Index
<1>8. CASE UNCHANGED queue
    <2>1. (\A p : Says(p, j)' <=> Says(p, j)) /\ (\A y : Doomed(j, y)' <=> Doomed(j, y))
        BY <1>8 DEF Says, Doomed
    <2>2. ASSUME NEW p \in 1..L, Says(p, j)
          PROVE  /\ queue[p].index <= index'[j]
                 /\ queue[p].state = Gone /\ queue[p].index = index'[j] => link'[j] = Gone
        <3>1. /\ queue[p].index <= index[j]
              /\ queue[p].state = Gone /\ queue[p].index = index[j] => link[j] = Gone
            BY <1>2, <1>4, <2>2 DEF AscendInv
        <3>2. QED  BY <1>5, <1>7, <3>1 DEF Recorded
    <2>3. AscendInv(j)'
        <3>1. \A y \in Cached(j) : y <= index'[j]
            BY <1>2, <1>5, <1>6 DEF AscendInv
        <3>2. QED  BY <1>1, <1>2, <1>4, <1>6, <1>8, <2>1, <2>2, <3>1 DEF AscendInv
    <2>4. ASSUME missed'[j] # "lost", init = "refill", NEW p \in 1..L, Says(p, j),
                 queue[p].index = index'[j] => link'[j] = Gone
          PROVE  Doomed(j, queue[p].index)
        <3>1. missed[j] # "lost"
            BY <1>1, <2>4
        <3>2. j = i => s # Gone
            BY <1>1, <1>4, <1>8, <2>4
        <3>3. queue[p].index = index[j] => link[j] = Gone
            BY <1>5, <2>4, <3>2 DEF Recorded
        <3>4. QED  BY <1>2, <1>4, <2>4, <3>1, <3>3 DEF ListInv
    <2>5. ListInv(j)'
        BY <1>1, <1>2, <1>4, <1>6, <1>8, <2>1, <2>4 DEF ListInv
    <2>6. QED  BY <1>3, <2>3, <2>5
<1>9. CASE /\ Len(queue') = L + 1
           /\ queue'[L + 1] = [if |-> i, index |-> x, state |-> s]
           /\ \A n \in 1..L : queue'[n] = queue[n]
    <2>1. /\ \A p \in 1..L : Says(p, j)' <=> Says(p, j)
          /\ Says(L + 1, j)' <=> j = i
          /\ queue'[L + 1].index = x /\ queue'[L + 1].state = s
        BY <1>9 DEF Says
    <2>2. \A y : Doomed(j, y) => Doomed(j, y)'
        BY <1>4, <1>9, <2>1 DEF Doomed
    <2>3. ASSUME NEW p \in 1..L, Says(p, j)
          PROVE  /\ queue[p].index <= index'[j]
                 /\ queue[p].state = Gone /\ queue[p].index = index'[j] => link'[j] = Gone
                 /\ j = i => queue[p].index <= x
                 /\ j = i /\ queue[p].state = Gone => queue[p].index < x
        <3>1. /\ queue[p].index <= index[j]
              /\ queue[p].state = Gone /\ queue[p].index = index[j] => link[j] = Gone
            BY <1>2, <1>4, <2>3 DEF AscendInv
        <3>2. QED  BY <1>5, <1>7, <3>1 DEF Recorded
    <2>4. AscendInv(j)'
        <3>1. \A y \in Cached(j) : y <= index'[j]
            BY <1>2, <1>5, <1>6 DEF AscendInv
        <3>2. ASSUME NEW p \in 1..(L + 1), Says(p, j)'
              PROVE  /\ queue'[p].index <= index'[j]
                     /\ queue'[p].state = Gone /\ queue'[p].index = index'[j] => link'[j] = Gone
            BY <1>5, <1>9, <2>1, <2>3, <3>2
        <3>3. ASSUME NEW p \in 1..(L + 1), NEW q \in 1..(L + 1), p < q, Says(p, j)', Says(q, j)'
              PROVE  /\ queue'[p].index <= queue'[q].index
                     /\ queue'[p].state = Gone => queue'[p].index < queue'[q].index
            <4>1. p \in 1..L /\ queue'[p] = queue[p] /\ Says(p, j)
                BY <1>9, <2>1, <3>3
            <4>2. CASE q = L + 1
                BY <2>1, <2>3, <3>3, <4>1, <4>2
            <4>3. CASE q # L + 1
                <5>1. q \in 1..L /\ queue'[q] = queue[q] /\ Says(q, j)
                    BY <1>9, <2>1, <3>3, <4>3
                <5>2. QED  BY <1>2, <1>4, <3>3, <4>1, <5>1 DEF AscendInv
            <4>4. QED  BY <4>2, <4>3
        <3>4. ASSUME NEW u \in Index, NEW v \in Index, NEW p \in 1..(L + 1),
                     <<u, v>> \in order[j], u < v, Says(p, j)'
              PROVE  queue'[p].index >= v
            <4>1. CASE p = L + 1
                <5>1. v \in Cached(j) /\ j = i
                    BY <2>1, <3>4, <4>1 DEF IInv, OrderInv
                <5>2. v <= index[i]
                    BY <1>2, <5>1 DEF AscendInv
                <5>3. QED  BY <1>5, <1>6, <2>1, <4>1, <5>1, <5>2
            <4>2. CASE p # L + 1
                BY <1>2, <1>4, <1>9, <2>1, <3>4, <4>2 DEF AscendInv
            <4>3. QED  BY <4>1, <4>2
        <3>5. QED  BY <1>1, <1>6, <1>9, <3>1, <3>2, <3>3, <3>4 DEF AscendInv
    <2>5. ASSUME missed'[j] # "lost" PROVE missed[j] # "lost"
        BY <1>1, <2>5
    <2>6. ASSUME missed'[j] # "lost", init = "refill", NEW p \in 1..(L + 1), Says(p, j)',
                 queue'[p].index = index'[j] => link'[j] = Gone, NEW u \in Index,
                 u = queue'[p].index
          PROVE  Doomed(j, u)'
        <3>1. CASE p = L + 1
            <4>1. j = i /\ s = Gone /\ u = x
                BY <1>5, <2>1, <2>6, <3>1
            <4>2. QED  BY <1>4, <1>9, <2>1, <3>1, <4>1 DEF Doomed
        <3>2. CASE p # L + 1
            <4>1. p \in 1..L /\ queue'[p] = queue[p] /\ Says(p, j)
                BY <1>9, <2>1, <2>6, <3>2
            <4>2. CASE queue[p].index = index[j] => link[j] = Gone
                <5>1. Doomed(j, queue[p].index)
                    BY <1>2, <1>4, <2>5, <2>6, <4>1, <4>2 DEF ListInv
                <5>2. QED  BY <2>2, <2>6, <4>1, <5>1
            <4>3. CASE queue[p].index = index[j] /\ link[j] # Gone
                <5>1. j = i /\ s = Gone /\ x = index[i]
                    BY <1>5, <2>6, <4>1, <4>3 DEF Recorded
                <5>2. u = x /\ L + 1 \in 1..(L + 1)
                    BY <2>6, <4>1, <4>3, <5>1
                <5>3. QED  BY <1>9, <2>1, <5>1, <5>2 DEF Doomed
            <4>4. QED  BY <4>2, <4>3
        <3>3. QED  BY <3>1, <3>2
    <2>7. ASSUME missed'[j] # "lost", NEW y \in Cached(j), NEW p \in 1..(L + 1), Says(p, j)',
                 NEW u \in Index, u = queue'[p].index, u < y
          PROVE  Doomed(j, u)'
        <3>1. p # L + 1
            <4>1. y <= index[j]
                BY <1>2 DEF AscendInv
            <4>2. QED  BY <1>5, <1>6, <2>1, <2>7, <4>1
        <3>2. p \in 1..L /\ queue'[p] = queue[p] /\ Says(p, j)
            BY <1>9, <2>1, <2>7, <3>1
        <3>3. Doomed(j, queue[p].index)
            BY <1>2, <1>4, <2>5, <2>7, <3>2 DEF ListInv
        <3>4. QED  BY <2>2, <2>7, <3>2, <3>3
    <2>8. ListInv(j)'
        <3>1. \A p \in 1..(L + 1) : queue'[p].index \in Index
            BY <1>7, <1>9, <2>1
        <3>2. missed'[j] # "lost" =>
                 \A u, y \in Index : <<y, u>> \in order[j] /\ u < y => Doomed(j, u)'
            BY <1>2, <2>2, <2>5 DEF ListInv
        <3>3. QED  BY <1>1, <1>6, <1>9, <2>6, <2>7, <3>1, <3>2 DEF ListInv
    <2>9. QED  BY <1>3, <2>4, <2>8
<1>10. QED  BY <1>1, <1>4, <1>8, <1>9

-----------------------------------------------------------------------------
(* The set-up and the manager thread                                       *)

LEMMA QueueMainThread == ASSUME IInv, QueueInv, MainThread PROVE QueueInv'
<1>1. init # "done" /\ UNCHANGED <<link, index, queue, overrun, missed, evented>> /\ ~evented
    BY DEF MainThread, InitCache, InitAdd, MngrSubscribe, MngrRefill, hashVars, kernelVars,
           mgrVars, socketVars, IInv, StepInv
<1>2. \A i \in Iface : AgreeInv(i)'
    BY <1>1 DEF AgreeInv
<1>3. CASE init' # "done"
    <2>1. UNCHANGED <<cache, order>>
        BY <1>3 DEF MainThread, InitCache, InitAdd, MngrSubscribe, MngrRefill, mgrVars
    <2>2. SocketInv'
        BY <1>1, <1>3, <2>1 DEF QueueInv, SocketInv, Subscribed, Cached, MainThread, InitCache,
                                InitAdd, MngrSubscribe, MngrRefill
    <2>3. init' = "refill" => init = "refill" \/ queue = <<>>
        BY DEF QueueInv, SocketInv, Subscribed, MainThread, InitCache, InitAdd, MngrSubscribe,
               MngrRefill
    <2>4. QED  BY <1>1, <1>2, <2>1, <2>2, <2>3, QueueKept DEF IInv
<1>4. CASE init' = "done"
    <2>1. init = "refill" /\ order' = [i \in Iface |-> {}]
        BY <1>1, <1>4 DEF MainThread, InitCache, InitAdd, MngrSubscribe, MngrRefill
    <2>2. \A i \in Iface, x \in Index : cache'[i][x] = IF x = index[i] THEN link[i] ELSE Gone
        BY <1>1, <1>4 DEF MainThread, InitCache, InitAdd, MngrSubscribe, MngrRefill
    <2>3. SocketInv'
        BY <1>1, <1>4 DEF QueueInv, SocketInv, Subscribed
    <2>4. ASSUME NEW i \in Iface PROVE (AscendInv(i) /\ ListInv(i))'
        <3>1. AscendInv(i) /\ ListInv(i)
            BY DEF QueueInv
        <3>2. /\ \A y \in Cached(i)' : y = index[i] /\ link[i] # Gone
              /\ index[i] \in Int /\ order'[i] = {}
            BY <2>1, <2>2 DEF Cached, IInv, TypeOK, Index
        <3>3. (\A p : Says(p, i)' <=> Says(p, i)) /\ (\A x : Doomed(i, x)' <=> Doomed(i, x))
            BY <1>1 DEF Says, Doomed
        <3>4. AscendInv(i)'
            BY <1>1, <3>1, <3>2, <3>3 DEF AscendInv
        <3>5. ASSUME missed[i] # "lost", NEW y \in Cached(i)', NEW p \in 1..Len(queue), Says(p, i),
                     queue[p].index < y
              PROVE  Doomed(i, queue[p].index)
            <4>1. queue[p].index # index[i]
                BY <3>2, <3>5
            <4>2. QED  BY <2>1, <3>1, <3>5, <4>1 DEF ListInv
        <3>6. ListInv(i)'
            BY <1>1, <1>4, <3>2, <3>3, <3>5 DEF ListInv
        <3>7. QED  BY <3>4, <3>6
    <2>5. QED  BY <1>2, <2>3, <2>4 DEF QueueInv
<1>5. QED  BY <1>3, <1>4

\* A message about a link that is cached already finds it at the end of its
\* list, unless it deletes it.
LEMMA HeadIsLast ==
    ASSUME IInv, QueueInv, NEW i \in Iface, NEW x \in Index, missed[i] # "lost",
           queue # <<>>, Says(1, i), queue[1].index = x, x \in Cached(i)
    PROVE  LastCached(i, x)
<1>1. 1 \in 1..Len(queue) /\ Len(queue) \in Nat
    BY DEF IInv, TypeOK
<1>2. ASSUME NEW y \in Cached(i), <<x, y>> \in order[i] PROVE FALSE
    <2>1. y \in Index /\ y # x /\ y \in Int /\ x \in Int
        BY <1>2 DEF IInv, OrderInv, Cached, Index
    <2>2. CASE x < y
        <3>1. queue[1].index >= y
            BY <1>1, <1>2, <2>1, <2>2 DEF QueueInv, AscendInv
        <3>2. QED  BY <2>1, <2>2, <3>1
    <2>3. CASE y < x
        <3>1. PICK p \in 1..Len(queue) : Says(p, i) /\ queue[p].index = y
            BY <1>2, <2>1, <2>3 DEF QueueInv, ListInv, Doomed
        <3>2. 1 < p
            BY <1>1, <2>1, <3>1
        <3>3. queue[1].index <= queue[p].index
            BY <1>1, <3>1, <3>2 DEF QueueInv, AscendInv
        <3>4. QED  BY <2>1, <2>3, <3>1, <3>3
    <2>4. QED  BY <2>1, <2>2, <2>3
<1>3. QED  BY <1>2 DEF LastCached

LEMMA QueueReceive == ASSUME IInv, QueueInv, Receive PROVE QueueInv'
<1>1. PICK h \in Message :
              /\ h = queue[1] /\ h = Head(queue) /\ Len(queue) >= 1
              /\ cache' \in [Iface -> [Index -> State]]
              /\ \A j \in Iface, y \in Index :
                    cache'[j][y] = IF j = h.if /\ y = h.index THEN h.state ELSE cache[j][y]
              /\ order' \in [Iface -> SUBSET (Index \X Index)]
              /\ \A j \in Iface \ {h.if} : order'[j] = order[j]
              /\ \A y, z \in Index :
                    <<y, z>> \in order'[h.if] <=>
                        \/ y # h.index /\ z # h.index /\ <<y, z>> \in order[h.if]
                        \/ h.state # Gone /\ z = h.index /\ y \in Cached(h.if) \ {h.index}
    BY ReceiveStep DEF IInv
<1>2. h.if \in Iface /\ h.index \in Index /\ h.state \in State
    BY DEF Message
<1>3. PICK L \in Nat : L = Len(queue) /\ L >= 1
    BY <1>1 DEF IInv, TypeOK
<1>4. Len(queue') = L - 1 /\ \A n \in 1..(L - 1) : queue'[n] = queue[n + 1]
    BY <1>3 DEF IInv, TypeOK, Receive
<1>5. /\ UNCHANGED <<link, index, missed, init, evented, hash>> /\ mgr = "polling"
      /\ init = "done" /\ queue # <<>>
      /\ mgr' = IF cache' = cache THEN "polling" ELSE "lock"
    BY DEF Receive, kernelVars, initVars, hashVars, IInv, StepInv
<1>6. SocketInv'
    BY <1>5 DEF SocketInv, Subscribed
<1> SUFFICES ASSUME NEW i \in Iface PROVE (AscendInv(i) /\ ListInv(i) /\ AgreeInv(i))'
    BY <1>6 DEF QueueInv
<1>7. AscendInv(i) /\ ListInv(i) /\ AgreeInv(i)
    BY DEF QueueInv
<1>8. /\ \A n \in 1..(L - 1) : n + 1 \in 1..L /\ (Says(n, i)' <=> Says(n + 1, i))
      /\ Says(1, i) <=> h.if = i
    BY <1>1, <1>4 DEF Says
<1>9. \A y \in Index :
         y \in Cached(i)' <=> IF i = h.if /\ y = h.index THEN h.state # Gone ELSE y \in Cached(i)
    BY <1>1 DEF Cached
<1>10. Index \subseteq Int /\ Cached(i) \subseteq Index /\ Cached(i)' \subseteq Index
    BY DEF Index, Cached
<1>11. \A p \in 1..L : queue[p].index \in Index
    <2>1. \A p \in 1..L : queue[p] \in Message
        BY <1>3 DEF IInv, TypeOK
    <2>2. QED  BY <2>1 DEF Message
<1>12. ASSUME NEW y \in Index, Doomed(i, y), ~(h.if = i /\ h.index = y /\ h.state = Gone)
       PROVE  Doomed(i, y)'
    <2>1. PICK p \in 1..L : Says(p, i) /\ queue[p].index = y /\ queue[p].state = Gone
        BY <1>3, <1>12 DEF Doomed
    <2>2. p # 1
        BY <1>1, <1>8, <1>12, <2>1
    <2>3. p - 1 \in 1..(L - 1) /\ (p - 1) + 1 = p
        BY <2>2
    <2>4. queue'[p - 1] = queue[p] /\ Says(p - 1, i)'
        BY <1>4, <1>8, <2>1, <2>3
    <2>5. QED  BY <1>4, <2>1, <2>3, <2>4 DEF Doomed
\* What follows a message of i is not about an older link of it.
<1>13. ASSUME NEW p \in 1..(L - 1), Says(p, i)', h.if = i
       PROVE  /\ h.index <= queue'[p].index
              /\ h.state = Gone => h.index < queue'[p].index
    <2>1. p + 1 \in 1..L /\ 1 \in 1..L /\ 1 < p + 1 /\ Says(p + 1, i) /\ Says(1, i)
        BY <1>3, <1>8, <1>13
    <2>2. /\ queue[1].index <= queue[p + 1].index
          /\ queue[1].state = Gone => queue[1].index < queue[p + 1].index
        BY <1>3, <1>7, <2>1 DEF AscendInv
    <2>3. QED  BY <1>1, <1>4, <2>2
<1>14. AscendInv(i)'
    <2>1. \A y \in Cached(i)' : y <= index[i]
        <3>1. h.if = i => h.index <= index[i]
            BY <1>1, <1>3, <1>7, <1>8 DEF AscendInv
        <3>2. QED  BY <1>7, <1>9, <1>10, <3>1 DEF AscendInv
    <2>2. ASSUME NEW p \in 1..(L - 1), Says(p, i)'
          PROVE  /\ queue'[p].index <= index[i]
                 /\ queue'[p].state = Gone /\ queue'[p].index = index[i] => link[i] = Gone
        BY <1>3, <1>4, <1>7, <1>8, <2>2 DEF AscendInv
    <2>3. ASSUME NEW p \in 1..(L - 1), NEW q \in 1..(L - 1), p < q, Says(p, i)', Says(q, i)'
          PROVE  /\ queue'[p].index <= queue'[q].index
                 /\ queue'[p].state = Gone => queue'[p].index < queue'[q].index
        <3>1. p + 1 < q + 1 /\ p + 1 \in 1..L /\ q + 1 \in 1..L /\ Says(p + 1, i) /\ Says(q + 1, i)
            BY <1>8, <2>3
        <3>2. QED  BY <1>3, <1>4, <1>7, <3>1 DEF AscendInv
    <2>4. ASSUME NEW u \in Index, NEW v \in Index, NEW p \in 1..(L - 1),
                 <<u, v>> \in order'[i], u < v, Says(p, i)'
          PROVE  queue'[p].index >= v
        <3>1. CASE <<u, v>> \in order[i]
            <4>1. p + 1 \in 1..L /\ Says(p + 1, i) /\ queue'[p] = queue[p + 1]
                BY <1>4, <1>8, <2>4
            <4>2. QED  BY <1>3, <1>7, <2>4, <3>1, <4>1 DEF AscendInv
        <3>2. CASE <<u, v>> \notin order[i]
            <4>1. h.if = i /\ v = h.index
                BY <1>1, <2>4, <3>2
            <4>2. p + 1 \in 1..L /\ queue'[p] = queue[p + 1]
                BY <1>4, <1>8
            <4>3. queue'[p].index \in Int /\ v \in Int
                BY <1>10, <1>11, <4>2
            <4>4. QED  BY <1>13, <2>4, <4>1, <4>3
        <3>3. QED  BY <3>1, <3>2
    <2>5. QED  BY <1>4, <1>5, <2>1, <2>2, <2>3, <2>4 DEF AscendInv
<1>15. ListInv(i)'
    <2> SUFFICES ASSUME missed[i] # "lost"
                 PROVE  /\ \A y \in Cached(i)', p \in 1..(L - 1) :
                              Says(p, i)' /\ queue'[p].index < y => Doomed(i, queue[p].index)'
                        /\ \A x, y \in Index : <<y, x>> \in order'[i] /\ x < y => Doomed(i, x)'
        BY <1>4, <1>5 DEF ListInv
    <2>1. ASSUME NEW y \in Cached(i)', NEW p \in 1..(L - 1), Says(p, i)', queue'[p].index < y,
                 NEW u \in Index, u = queue'[p].index
          PROVE  Doomed(i, u)'
        <3>1. p + 1 \in 1..L /\ Says(p + 1, i) /\ queue'[p] = queue[p + 1] /\ u < y
            BY <1>4, <1>8, <2>1
        <3>2. ~(h.if = i /\ h.index = y)
            <4>1. y \in Int /\ u \in Int
                BY <1>10
            <4>2. QED  BY <1>13, <2>1, <3>1, <4>1
        <3>3. y \in Cached(i)
            BY <1>9, <1>10, <3>2
        <3>4. Doomed(i, u)
            BY <1>3, <1>7, <2>1, <3>1, <3>3 DEF ListInv
        <3>5. ~(h.if = i /\ h.index = u /\ h.state = Gone)
            <4>1. u \in Int
                BY <1>10
            <4>2. QED  BY <1>13, <2>1, <4>1
        <3>6. QED  BY <1>12, <3>4, <3>5
    <2>2. ASSUME NEW x \in Index, NEW y \in Index, <<y, x>> \in order'[i], x < y
          PROVE  Doomed(i, x)'
        <3>1. CASE <<y, x>> \in order[i] /\ ~(h.if = i /\ h.index = x)
            BY <1>7, <1>12, <2>2, <3>1 DEF ListInv
        <3>2. CASE ~(<<y, x>> \in order[i] /\ ~(h.if = i /\ h.index = x))
            <4>1. h.if = i /\ h.index = x /\ h.state # Gone /\ y \in Cached(i)
                BY <1>1, <2>2, <3>2
            <4>2. 1 \in 1..Len(queue) /\ Says(1, i) /\ queue[1].index < y
                BY <1>1, <1>3, <1>8, <2>2, <4>1
            <4>3. Doomed(i, x)
                BY <1>1, <1>7, <4>1, <4>2 DEF ListInv
            <4>4. QED  BY <1>12, <4>1, <4>3
        <3>3. QED  BY <3>1, <3>2
    <2>3. \A p \in 1..(L - 1) : queue'[p].index \in Index
        BY <1>4, <1>8, <1>11
    <2>4. QED  BY <2>1, <2>2, <2>3
<1>16. AgreeInv(i)'
    <2> SUFFICES ASSUME evented, mgr' = "polling", missed[i] # "lost", NEW y \in Index,
                        LastCached(i, y)'
                 PROVE  InHash(i, y)'
        BY <1>5 DEF AgreeInv
    <2>1. cache' = cache /\ UNCHANGED hash
        BY <1>5
    <2>2. Cached(i)' = Cached(i) /\ (InHash(i, y)' <=> InHash(i, y))
        BY <2>1 DEF Cached, InHash
    <2>3. CASE h.if # i \/ h.state = Gone
        <3>1. \A z \in Cached(i) : <<y, z>> \in order[i] => <<y, z>> \in order'[i]
            <4>1. ASSUME h.if = i, h.state = Gone PROVE h.index \notin Cached(i)
                BY <1>2, <1>9, <2>2, <4>1
            <4>2. y \in Cached(i)
                BY <2>2 DEF LastCached
            <4>3. QED  BY <1>1, <1>10, <2>3, <4>1, <4>2
        <3>2. LastCached(i, y)
            BY <2>2, <3>1 DEF LastCached
        <3>3. QED  BY <1>5, <1>7, <2>2, <3>2 DEF AgreeInv
    <2>4. CASE h.if = i /\ h.state # Gone
        <3>1. h.index \in Cached(i)
            BY <1>2, <1>9, <2>2, <2>4
        <3>2. y = h.index
            <4>1. y \in Cached(i) /\ <<y, h.index>> \notin order'[i]
                BY <2>2, <3>1 DEF LastCached
            <4>2. QED  BY <1>1, <1>2, <1>10, <2>4, <4>1
        <3>3. LastCached(i, h.index)
            BY <1>1, <1>2, <1>5, <1>8, <2>4, <3>1, HeadIsLast
        <3>4. QED  BY <1>2, <1>5, <1>7, <2>2, <3>2, <3>3 DEF AgreeInv
    <2>5. QED  BY <2>3, <2>4
<1>17. QED  BY <1>14, <1>15, <1>16

LEMMA QueueManagerThread == ASSUME IInv, QueueInv, ManagerThread PROVE QueueInv'
<1>1. CASE Receive
    BY <1>1, QueueReceive
<1>2. CASE ReceiveOverrun
    <2>1. /\ UNCHANGED <<link, index, queue, cache, order, missed, init, hash, evented, mgr>>
          /\ mgr = "polling"
        BY <1>2 DEF ReceiveOverrun, hashVars, kernelVars, initVars, mgrVars
    <2>2. SocketInv'
        BY <2>1 DEF IInv, StepInv, SocketInv, Subscribed
    <2>3. \A i \in Iface : AgreeInv(i)'
        BY <2>1, AgreeKept DEF QueueInv
    <2>4. QED  BY <2>1, <2>2, <2>3, QueueKept DEF IInv
<1>3. CASE ManagerThread /\ ~Receive /\ ~ReceiveOverrun
    <2>1. UNCHANGED <<link, index, queue, overrun, cache, order, missed, init>>
        BY <1>3 DEF ManagerThread, LockHash, UnlockHash, VisitLink, kernelVars, initVars, socketVars
    <2>2. SocketInv'
        BY <2>1 DEF QueueInv, SocketInv, Subscribed, Cached
    <2>3. CASE mgr' # "polling"
        BY <2>1, <2>2, <2>3, QueueKept DEF AgreeInv, IInv
    <2>4. CASE mgr' = "polling"
        <3>1. UnlockHash
            BY <1>3, <2>4 DEF ManagerThread, LockHash, VisitLink
        <3>2. \A i \in Iface : Cached(i)' = Cached(i) /\ Visited(i) = Cached(i)
            BY <3>1 DEF UnlockHash, Cached, Visited
        <3>3. \A i \in Iface : AgreeInv(i)'
            BY <3>1, <3>2 DEF AgreeInv, UnlockHash, IInv, WalkInv, LastCached, LastVisited, InHash
        <3>4. QED  BY <2>1, <2>2, <3>3, QueueKept DEF IInv
    <2>5. QED  BY <2>3, <2>4
<1>4. QED  BY <1>1, <1>2, <1>3

LEMMA QueueNext == IInv /\ QueueInv /\ [Next]_vars => QueueInv'
<1> SUFFICES ASSUME IInv, QueueInv, [Next]_vars PROVE QueueInv'
    OBVIOUS
<1>1. ASSUME UNCHANGED <<link, index, queue, overrun, cache, order, missed, init, hash, evented, mgr>>
      PROVE  QueueInv'
    <2>1. SocketInv'
        BY <1>1 DEF QueueInv, SocketInv, Subscribed, Cached
    <2>2. \A i \in Iface : AgreeInv(i)'
        BY <1>1, AgreeKept DEF QueueInv
    <2>3. QED  BY <1>1, <2>1, <2>2, QueueKept DEF IInv
<1>2. CASE UNCHANGED vars
    BY <1>1, <1>2 DEF vars, hashVars, kernelVars, initVars, mgrVars, socketVars
<1>3. CASE Tick \/ SubscriptionThread
    BY <1>1, <1>3 DEF Tick, SubscriptionThread, ListInterfaces, GetLastChange, GetLock, GetUnlock,
                      hashVars, kernelVars, initVars, mgrVars, socketVars
<1>4. CASE Kernel
    BY <1>3, <1>4, KernelStep, QueueSetLink DEF IInv
<1>5. QED  BY <1>2, <1>3, <1>4, QueueMainThread, QueueManagerThread DEF Next

LEMMA QueueHolds == Spec => []QueueInv
    BY QueueInit, QueueNext, InvariantHolds, PTL DEF Spec

\* interfaces_link_cache_change_cb visits every link of the cache: between its
\* runs the hash agrees with the link cache, and with the last of the links of
\* a name unless the set-up has upset their order.
THEOREM HashAgrees == Spec => []HashFollowsCache
<1>1. IInv /\ QueueInv => HashFollowsCache
    BY DEF IInv, WalkInv, QueueInv, AgreeInv, HashFollowsCache
<1>2. QED  BY <1>1, InvariantHolds, QueueHolds, PTL


-----------------------------------------------------------------------------
(* What the messages say of a link: position 0 is the cache, the others are *)
(* the messages that wait.                                                  *)

About(k, i) == k = 0 \/ queue[k].if = i
Known(k, i) == IF k = 0 THEN cache[i][index[i]] ELSE queue[k].state
Current(k, i) == k # 0 => queue[k].index = index[i]

\* The last position about i, and the one before it.
Latest(k, i) == /\ k \in 0..Len(queue) /\ About(k, i)
                /\ \A n \in (k + 1)..Len(queue) : ~About(n, i)
Previous(j, k, i) == /\ j \in 0..(k - 1) /\ About(j, i)
                     /\ \A n \in (j + 1)..(k - 1) : ~About(n, i)

\* The change of i is in the hash, or the callback is about to see it.
Caught(i) ==
    \/ hash[i] # NoEntry /\ hash[i].last_change >= changed[i].at
    \/ /\ mgr = "lock" \/ index[i] \in walk[i]
       /\ hash[i] = NoEntry \/ hash[i].state # cache[i][index[i]]

TrackedInv(i) ==
    /\ changed[i].at <= now
    /\ changed[i].evented => evented
    /\ changed[i].tracked => init = "done" /\ link[i] # Gone

\* Unless a message was dropped the last one is about the link there is and has
\* its state; once it is in the cache it is the last of its name in the list.
LatestInv(i) ==
    missed[i] \in {"none", "earlier"} /\ link[i] # Gone =>
        \A k \in 0..Len(queue) :
            Latest(k, i) /\ (k # 0 \/ init = "done") =>
                /\ Known(k, i) = link[i] /\ Current(k, i)
                /\ k = 0 => LastCached(i, index[i])

\* Unless one was dropped before it, it differs from the one before it.
FreshInv(i) ==
    changed[i].tracked /\ changed[i].evented /\ missed[i] = "none" =>
        \A k \in 0..Len(queue) :
            Latest(k, i) =>
                /\ k = 0 => Caught(i)
                /\ \A j \in 0..(k - 1) :
                      Previous(j, k, i) => Known(j, i) \notin {Gone, link[i]} /\ Current(j, i)

DeliveryInv == \A i \in Iface : TrackedInv(i) /\ LatestInv(i) /\ FreshInv(i)

LEMMA DeliveryInit == Init => DeliveryInv
<1> SUFFICES ASSUME Init, NEW i \in Iface PROVE TrackedInv(i) /\ LatestInv(i) /\ FreshInv(i)
    BY DEF DeliveryInv
<1>1. changed[i] = Untracked /\ Len(queue) = 0 /\ now = 0 /\ init = "start"
    BY DEF Init
<1>2. TrackedInv(i) /\ FreshInv(i)
    BY <1>1 DEF TrackedInv, FreshInv, Untracked
<1>3. LatestInv(i)
    BY <1>1 DEF LatestInv
<1>4. QED  BY <1>2, <1>3

LEMMA DeliveryKept ==
    ASSUME TypeOK, DeliveryInv, UNCHANGED <<link, index, queue, cache, order, changed, missed>>,
           evented => evented', init' = "done" <=> init = "done", now \in Int, now' \in Int,
           now' >= now,
           \A i \in Iface : missed[i] = "none" /\ changed[i].tracked /\ changed[i].evented
               /\ Latest(0, i) /\ Caught(i) => Caught(i)'
    PROVE  DeliveryInv'
<1> SUFFICES ASSUME NEW i \in Iface PROVE (TrackedInv(i) /\ LatestInv(i) /\ FreshInv(i))'
    BY DEF DeliveryInv
<1>1. TrackedInv(i) /\ LatestInv(i) /\ FreshInv(i)
    BY DEF DeliveryInv
<1>2. TrackedInv(i)'
    <2>1. changed[i].at \in Int
        BY DEF TypeOK, Change, Time
    <2>2. QED  BY <1>1, <2>1 DEF TrackedInv
<1>3. /\ \A k : (Latest(k, i)' <=> Latest(k, i)) /\ (Current(k, i)' <=> Current(k, i))
      /\ \A x : LastCached(i, x)' <=> LastCached(i, x)
    BY DEF Latest, About, Current, LastCached, Cached
<1>4. \A j, k : (Previous(j, k, i)' <=> Previous(j, k, i)) /\ Known(k, i)' = Known(k, i)
    BY DEF Previous, About, Known
<1>5. LatestInv(i)'
    BY <1>1, <1>3, <1>4 DEF LatestInv
<1>6. FreshInv(i)'
    BY <1>1, <1>3, <1>4 DEF FreshInv
<1>7. QED  BY <1>2, <1>5, <1>6

LEMMA DeliveryTick == ASSUME IInv, DeliveryInv, Tick PROVE DeliveryInv'
<1>1. now \in Int /\ now' \in Int /\ now' >= now
    BY DEF IInv, TypeOK, Tick, Time
<1>2. UNCHANGED <<link, index, queue, cache, order, changed, missed, evented, init, hash, mgr, walk>>
    BY DEF Tick, socketVars, hashVars, initVars, mgrVars
<1>3. \A i \in Iface : Caught(i) => Caught(i)'
    BY <1>2 DEF Caught
<1>4. QED  BY <1>1, <1>2, <1>3, DeliveryKept DEF IInv

LEMMA DeliverySubscriptionThread ==
    ASSUME IInv, DeliveryInv, SubscriptionThread
    PROVE  DeliveryInv'
<1>1. UNCHANGED <<link, index, queue, cache, order, changed, missed, evented, init, now, hash, mgr,
                  walk>>
    BY DEF SubscriptionThread, ListInterfaces, GetLastChange, GetLock, GetUnlock, hashVars,
           kernelVars, initVars, mgrVars, socketVars
<1>2. \A i \in Iface : Caught(i) => Caught(i)'
    BY <1>1 DEF Caught
<1>3. QED  BY <1>1, <1>2, DeliveryKept DEF IInv, TypeOK, Time

\* Nothing is tracked before init is done.
LEMMA DeliveryMainThread == ASSUME IInv, DeliveryInv, MainThread PROVE DeliveryInv'
<1>1. init # "done" /\ UNCHANGED <<link, index, queue, changed, missed, evented, now>>
    BY DEF MainThread, InitCache, InitAdd, MngrSubscribe, MngrRefill, hashVars, kernelVars,
           mgrVars, socketVars
<1>2. \A i \in Iface : ~changed[i].tracked
    BY <1>1 DEF DeliveryInv, TrackedInv
<1>3. CASE init' # "done"
    <2>1. UNCHANGED <<cache, order>>
        BY <1>3 DEF MainThread, InitCache, InitAdd, MngrSubscribe, MngrRefill, mgrVars
    <2>2. now \in Int /\ now' \in Int /\ now' >= now
        BY <1>1 DEF IInv, TypeOK, Time
    <2>3. QED  BY <1>1, <1>2, <1>3, <2>1, <2>2, DeliveryKept DEF IInv
<1>4. CASE init' = "done"
    <2>1. order' = [i \in Iface |-> {}]
        BY <1>1, <1>4 DEF MainThread, InitCache, InitAdd, MngrSubscribe, MngrRefill
    <2>2. \A i \in Iface : index[i] \in Index /\ cache'[i][index[i]] = link[i]
        BY <1>1, <1>4 DEF IInv, TypeOK, MainThread, InitCache, InitAdd, MngrSubscribe, MngrRefill
    <2> SUFFICES ASSUME NEW i \in Iface PROVE (TrackedInv(i) /\ LatestInv(i) /\ FreshInv(i))'
        BY DEF DeliveryInv
    <2>3. TrackedInv(i)' /\ FreshInv(i)'
        BY <1>1, <1>2 DEF DeliveryInv, TrackedInv, FreshInv
    <2>4. ASSUME missed[i] \in {"none", "earlier"}, link[i] # Gone, NEW k \in 0..Len(queue),
                 Latest(k, i)'
          PROVE  /\ Known(k, i)' = link[i] /\ Current(k, i)'
                 /\ k = 0 => LastCached(i, index[i])'
        <3>1. CASE k = 0
            BY <1>1, <2>1, <2>2, <2>4, <3>1 DEF Known, Current, LastCached, Cached
        <3>2. CASE k # 0
            <4>1. /\ Latest(k, i) /\ Known(k, i)' = Known(k, i)
                  /\ Current(k, i)' <=> Current(k, i)
                BY <1>1, <2>4, <3>2 DEF Latest, About, Known, Current
            <4>2. QED  BY <2>4, <3>2, <4>1 DEF DeliveryInv, LatestInv
        <3>3. QED  BY <3>1, <3>2
    <2>5. LatestInv(i)'
        BY <1>1, <2>4 DEF LatestInv
    <2>6. QED  BY <2>3, <2>5
<1>5. QED  BY <1>3, <1>4

-----------------------------------------------------------------------------
(* The kernel changes a link                                               *)

LEMMA DeliverySetLink ==
    ASSUME IInv, QueueInv, DeliveryInv, NEW i \in Iface, NEW x \in Index, NEW s \in State,
           NEW c \in Change, SetLink(i, x, s, c), Recorded(i, x, s, c)
    PROVE  DeliveryInv'
<1>1. /\ link' = [link EXCEPT ![i] = s] /\ index' = [index EXCEPT ![i] = x]
      /\ changed' = [changed EXCEPT ![i] = c]
      /\ UNCHANGED <<now, hash, init, mgr, walk, cache, order, evented>>
      /\ \A j \in Iface \ {i} : missed'[j] = missed[j]
      /\ \/ UNCHANGED queue /\ Len(queue) = 0 /\ init \notin {"refill", "done"}
         \/ /\ Len(queue') = Len(queue) + 1
            /\ queue'[Len(queue) + 1] = [if |-> i, index |-> x, state |-> s]
            /\ \A n \in 1..Len(queue) : queue'[n] = queue[n]
            /\ missed'[i] = "none" => missed[i] \in {"none", "earlier"}
         \/ UNCHANGED queue /\ missed'[i] \in {"last", "lost"}
    BY SetLinkStep DEF IInv, QueueInv
<1>2. link'[i] = s /\ index'[i] = x /\ changed'[i] = c
    BY <1>1 DEF IInv, TypeOK
<1>3. TrackedInv(i)'
    <2>1. now \in 0..MaxTime /\ 0 <= now /\ now <= now
        BY TrackingAssumption DEF IInv, TypeOK, Time
    <2>2. CASE c = Untracked
        BY <1>1, <1>2, <2>1, <2>2 DEF TrackedInv, Untracked
    <2>3. CASE c # Untracked
        <3>1. /\ c = [at |-> now, evented |-> evented, tracked |-> init = "done"]
              /\ s # Gone
            BY <2>3 DEF Recorded
        <3>2. c.at = now /\ (c.evented => evented) /\ (c.tracked => init = "done")
            BY <3>1
        <3>3. QED  BY <1>1, <1>2, <2>1, <3>1, <3>2 DEF TrackedInv
    <2>4. QED  BY <2>2, <2>3
<1>4. PICK L \in Nat : L = Len(queue)
    BY DEF IInv, TypeOK
<1>5. \A m \in Iface : TrackedInv(m) /\ LatestInv(m) /\ FreshInv(m)
    BY DEF DeliveryInv
<1>6. ASSUME NEW m \in Iface, m # i
      PROVE  /\ link'[m] = link[m] /\ index'[m] = index[m] /\ changed'[m] = changed[m]
             /\ missed'[m] = missed[m] /\ (Caught(m)' <=> Caught(m)) /\ TrackedInv(m)'
             /\ LastCached(m, index[m])' <=> LastCached(m, index[m])
    <2>1. /\ link'[m] = link[m] /\ index'[m] = index[m] /\ changed'[m] = changed[m]
          /\ missed'[m] = missed[m]
        BY <1>1, <1>6 DEF IInv, TypeOK
    <2>2. QED  BY <1>1, <1>5, <2>1 DEF TrackedInv, Caught, LastCached, Cached
<1>7. ASSUME NEW m \in Iface, m # i, UNCHANGED queue
      PROVE  (TrackedInv(m) /\ LatestInv(m) /\ FreshInv(m))'
    <2>1. \A k : Latest(k, m)' <=> Latest(k, m)
        BY <1>7 DEF Latest, About
    <2>2. \A j, k : /\ Previous(j, k, m)' <=> Previous(j, k, m)
                    /\ Known(k, m)' = Known(k, m) /\ (Current(k, m)' <=> Current(k, m))
        BY <1>1, <1>6, <1>7 DEF Previous, About, Known, Current
    <2>3. LatestInv(m)'
        BY <1>1, <1>5, <1>6, <1>7, <2>1, <2>2 DEF LatestInv
    <2>4. FreshInv(m)'
        BY <1>5, <1>6, <1>7, <2>1, <2>2 DEF FreshInv
    <2>5. QED  BY <1>6, <1>7, <2>3, <2>4
<1>8. CASE UNCHANGED queue /\ Len(queue) = 0 /\ init \notin {"refill", "done"}
    <2>1. ~changed'[i].tracked
        BY <1>1, <1>3, <1>8 DEF TrackedInv
    <2>2. LatestInv(i)' /\ FreshInv(i)'
        BY <1>1, <1>8, <2>1 DEF LatestInv, FreshInv
    <2>3. QED  BY <1>3, <1>7, <1>8, <2>2 DEF DeliveryInv
<1>9. CASE UNCHANGED queue /\ missed'[i] \in {"last", "lost"}
    <2>1. LatestInv(i)' /\ FreshInv(i)'
        BY <1>9 DEF LatestInv, FreshInv
    <2>2. QED  BY <1>3, <1>7, <1>9, <2>1 DEF DeliveryInv
<1>10. CASE /\ Len(queue') = L + 1
            /\ queue'[L + 1] = [if |-> i, index |-> x, state |-> s]
            /\ \A n \in 1..L : queue'[n] = queue[n]
            /\ missed'[i] = "none" => missed[i] \in {"none", "earlier"}
    <2>1. \A n \in 0..L, m \in Iface : About(n, m)' <=> About(n, m)
        BY <1>10 DEF About
    <2>2. \A n \in 0..L, m \in Iface :
             index'[m] = index[m] => /\ Known(n, m)' = Known(n, m)
                                     /\ Current(n, m)' <=> Current(n, m)
        BY <1>1, <1>10 DEF Known, Current
    <2>3. About(L + 1, i)' /\ Known(L + 1, i)' = s /\ Current(L + 1, i)' /\ L + 1 # 0
        BY <1>2, <1>10 DEF About, Known, Current
    <2>4. ASSUME NEW m \in Iface, m # i
          PROVE  (TrackedInv(m) /\ LatestInv(m) /\ FreshInv(m))'
        <3>1. ~About(L + 1, m)'
            BY <1>10, <2>4 DEF About
        <3>2. ASSUME NEW k \in 0..(L + 1), Latest(k, m)'
              PROVE  k \in 0..L /\ Latest(k, m)
            BY <1>4, <1>10, <2>1, <3>1, <3>2 DEF Latest
        <3>3. ASSUME NEW k \in 0..L, NEW j \in 0..(k - 1), Previous(j, k, m)'
              PROVE  Previous(j, k, m)
            BY <2>1, <3>3 DEF Previous
        <3>4. ASSUME missed'[m] \in {"none", "earlier"}, link'[m] # Gone, NEW k \in 0..(L + 1),
                     Latest(k, m)', k # 0 \/ init' = "done"
              PROVE  /\ Known(k, m)' = link'[m] /\ Current(k, m)'
                     /\ k = 0 => LastCached(m, index[m])'
            <4>1. k \in 0..L /\ Latest(k, m)
                BY <3>2, <3>4
            <4>2. /\ Known(k, m) = link[m] /\ Current(k, m)
                  /\ k = 0 => LastCached(m, index[m])
                BY <1>1, <1>4, <1>5, <1>6, <2>4, <3>4, <4>1 DEF LatestInv
            <4>3. QED  BY <1>6, <2>2, <2>4, <4>1, <4>2
        <3>5. LatestInv(m)'
            BY <1>10, <3>4 DEF LatestInv
        <3>6. ASSUME changed'[m].tracked, changed'[m].evented, missed'[m] = "none",
                     NEW k \in 0..(L + 1), Latest(k, m)'
              PROVE  /\ k = 0 => Caught(m)'
                     /\ \A j \in 0..(k - 1) :
                           Previous(j, k, m)' => /\ Known(j, m)' \notin {Gone, link'[m]}
                                                 /\ Current(j, m)'
            <4>1. k \in 0..L /\ Latest(k, m)
                BY <3>2, <3>6
            <4>2. /\ k = 0 => Caught(m)
                  /\ \A j \in 0..(k - 1) :
                        Previous(j, k, m) => Known(j, m) \notin {Gone, link[m]} /\ Current(j, m)
                BY <1>4, <1>5, <1>6, <2>4, <3>6, <4>1 DEF FreshInv
            <4>3. ASSUME NEW j \in 0..(k - 1), Previous(j, k, m)'
                  PROVE  Known(j, m)' \notin {Gone, link'[m]} /\ Current(j, m)'
                BY <1>6, <2>2, <2>4, <3>3, <4>1, <4>2, <4>3
            <4>4. QED  BY <1>6, <2>4, <4>2, <4>3
        <3>7. FreshInv(m)'
            BY <1>10, <3>6 DEF FreshInv
        <3>8. QED  BY <1>6, <2>4, <3>5, <3>7
    <2>5. ASSUME NEW k, Latest(k, i)' PROVE k = L + 1
        BY <1>10, <2>3, <2>5 DEF Latest
    <2>6. LatestInv(i)'
        BY <1>2, <2>3, <2>5 DEF LatestInv
    <2>7. ASSUME changed'[i].tracked, missed'[i] = "none",
                 NEW j \in 0..L, Previous(j, L + 1, i)'
          PROVE  Known(j, i)' \notin {Gone, link'[i]} /\ Current(j, i)'
        <3>1. init = "done" /\ link[i] \notin {Gone, s} /\ x = index[i]
            <4>1. c.tracked
                BY <1>2, <2>7
            <4>2. c # Untracked
                BY <4>1 DEF Untracked
            <4>3. /\ c = [at |-> now, evented |-> evented, tracked |-> init = "done"]
                  /\ link[i] # Gone /\ s # link[i] /\ x = index[i]
                BY <4>2 DEF Recorded
            <4>4. QED  BY <4>1, <4>3
        <3>2. missed[i] \in {"none", "earlier"}
            BY <1>10, <2>7
        <3>3. Latest(j, i)
            BY <1>4, <2>1, <2>7 DEF Latest, Previous
        <3>4. Known(j, i) = link[i] /\ Current(j, i)
            BY <1>4, <1>5, <3>1, <3>2, <3>3 DEF LatestInv
        <3>5. QED  BY <1>2, <2>2, <3>1, <3>4
    <2>8. FreshInv(i)'
        <3>1. L + 1 # 0 /\ (L + 1) - 1 = L
            OBVIOUS
        <3>2. QED  BY <1>10, <2>5, <2>7, <3>1 DEF FreshInv
    <2>9. QED  BY <1>3, <2>4, <2>6, <2>8 DEF DeliveryInv
<1>11. QED  BY <1>1, <1>4, <1>8, <1>9, <1>10

LEMMA DeliveryKernel == ASSUME IInv, QueueInv, DeliveryInv, Kernel PROVE DeliveryInv'
    BY KernelStep, DeliveryTick, DeliverySetLink DEF IInv

-----------------------------------------------------------------------------
(* The manager thread                                                      *)

\* The first message takes the place of the cache for its link.
LEMMA DeliveryReceive == ASSUME IInv, QueueInv, DeliveryInv, Receive PROVE DeliveryInv'
<1>1. PICK L \in Nat : L = Len(queue) /\ L >= 1
    BY DEF IInv, TypeOK, Receive
<1>2. PICK h \in Message :
          /\ h = queue[1]
          /\ cache' \in [Iface -> [Index -> State]]
          /\ \A j \in Iface, y \in Index :
                cache'[j][y] = IF j = h.if /\ y = h.index THEN h.state ELSE cache[j][y]
          /\ \A j \in Iface \ {h.if} : order'[j] = order[j]
          /\ \A y, z \in Index :
                <<y, z>> \in order'[h.if] <=>
                    \/ y # h.index /\ z # h.index /\ <<y, z>> \in order[h.if]
                    \/ h.state # Gone /\ z = h.index /\ y \in Cached(h.if) \ {h.index}
    BY ReceiveStep DEF IInv
<1>3. /\ Len(queue') = L - 1
      /\ \A n \in 1..(L - 1) : queue'[n] = queue[n + 1]
    BY <1>1 DEF IInv, TypeOK, Receive
<1>4. /\ h.if \in Iface /\ h.index \in Index /\ h.state \in State
      /\ \A j \in Iface : index[j] \in Index
    BY DEF Message, IInv, TypeOK
<1>5. /\ UNCHANGED <<link, index, now, changed, missed, init, evented, hash, walk>>
      /\ mgr = "polling" /\ queue # <<>>
      /\ mgr' = IF cache' = cache THEN "polling" ELSE "lock"
    BY DEF Receive, kernelVars, initVars, hashVars
<1>6. init = "done" /\ \A j \in Iface : walk[j] = {}
    BY <1>5 DEF IInv, StepInv
<1> SUFFICES ASSUME NEW i \in Iface PROVE (TrackedInv(i) /\ LatestInv(i) /\ FreshInv(i))'
    BY DEF DeliveryInv
<1>8. TrackedInv(i) /\ LatestInv(i) /\ FreshInv(i)
    BY DEF DeliveryInv
<1>9. TrackedInv(i)'
    BY <1>5, <1>8 DEF TrackedInv
<1> DEFINE F == [k \in 0..(L - 1) |-> IF k = 0 /\ h.if # i THEN 0 ELSE k + 1]
<1>10. PICK was \in [0..(L - 1) -> 0..L] :
            \A k \in 0..(L - 1) : was[k] = IF k = 0 /\ h.if # i THEN 0 ELSE k + 1
    <2>1. F \in [0..(L - 1) -> 0..L]
        OBVIOUS
    <2>2. QED  BY <2>1
<1>11. ASSUME NEW k \in 0..(L - 1)
       PROVE  /\ was[k] \in 0..L
              /\ About(k, i)' => About(was[k], i)
              /\ Current(was[k], i) => Known(k, i)' = Known(was[k], i) /\ Current(k, i)'
    <2>1. CASE k = 0
        BY <1>1, <1>2, <1>4, <1>5, <1>10, <2>1 DEF About, Known, Current
    <2>2. CASE k # 0
        BY <1>1, <1>3, <1>5, <1>10, <2>2 DEF About, Known, Current
    <2>3. QED  BY <2>1, <2>2
<1>12. \A n \in 2..L : About(n, i) => About(n - 1, i)'
    BY <1>1, <1>3 DEF About
<1>13. ASSUME NEW k \in 0..(L - 1), Latest(k, i)' PROVE Latest(was[k], i)
    <2>1. About(was[k], i) /\ was[k] \in 0..L
        BY <1>3, <1>11, <1>13 DEF Latest
    <2>2. ASSUME NEW n \in (was[k] + 1)..L PROVE ~About(n, i)
        <3>1. CASE n = 1
            BY <1>2, <1>10, <3>1 DEF About
        <3>2. CASE n # 1
            <4>1. n \in 2..L /\ n - 1 \in (k + 1)..(L - 1)
                BY <1>10, <3>2
            <4>2. ~About(n - 1, i)'
                BY <1>3, <1>13, <4>1 DEF Latest
            <4>3. QED  BY <1>12, <4>1, <4>2
        <3>3. QED  BY <3>1, <3>2
    <2>3. QED  BY <1>1, <2>1, <2>2 DEF Latest
<1>14. ASSUME NEW k \in 0..(L - 1), NEW j \in 0..(k - 1), Previous(j, k, i)'
       PROVE  Previous(was[j], was[k], i) /\ was[j] \in 0..(was[k] - 1)
    <2>1. About(was[j], i) /\ was[j] \in 0..(was[k] - 1) /\ was[k] = k + 1
        BY <1>11, <1>14, <1>10 DEF Previous
    <2>2. ASSUME NEW n \in (was[j] + 1)..(was[k] - 1) PROVE ~About(n, i)
        <3>1. CASE n = 1
            BY <1>2, <1>10, <3>1 DEF About
        <3>2. CASE n # 1
            <4>1. n \in 2..L /\ n - 1 \in (j + 1)..(k - 1)
                <5>1. was[j] = j + 1 \/ (was[j] = 0 /\ j = 0)
                    BY <1>10
                <5>2. n \in 2..(k + 1) /\ n \in (j + 1)..k /\ k + 1 \in 1..L
                    BY <2>1, <3>2, <5>1
                <5>3. n # j + 1
                    BY <3>2, <5>1
                <5>4. QED  BY <5>2, <5>3
            <4>2. ~About(n - 1, i)'
                BY <1>14, <4>1 DEF Previous
            <4>3. QED  BY <1>12, <4>1, <4>2
        <3>3. QED  BY <3>1, <3>2
    <2>3. QED  BY <2>1, <2>2 DEF Previous
<1>15. ASSUME h.if # i \/ (h.if = i /\ h.index = index[i] /\ h.state # Gone),
              h.if # i => LastCached(i, index[i])
       PROVE  LastCached(i, index[i])'
    <2>1. CASE h.if # i
        BY <1>2, <1>5, <1>15, <2>1 DEF LastCached, Cached
    <2>2. CASE h.if = i
        <3>1. index[i] \in Cached(i)' /\ Cached(i)' \subseteq Index
            BY <1>2, <1>4, <1>5, <1>15, <2>2 DEF Cached
        <3>2. \A y \in Index : <<index[i], y>> \notin order'[i]
            BY <1>2, <1>4, <1>15, <2>2
        <3>3. QED  BY <1>5, <3>1, <3>2 DEF LastCached
    <2>3. QED  BY <2>1, <2>2
<1>16. LatestInv(i)'
    <2>1. ASSUME missed[i] \in {"none", "earlier"}, link[i] # Gone, NEW k \in 0..(L - 1),
                 Latest(k, i)'
          PROVE  /\ Known(k, i)' = link[i] /\ Current(k, i)'
                 /\ k = 0 => LastCached(i, index[i])'
        <3>1. Latest(was[k], i) /\ was[k] \in 0..L
            BY <1>11, <1>13, <2>1
        <3>2. /\ Known(was[k], i) = link[i] /\ Current(was[k], i)
              /\ was[k] = 0 => LastCached(i, index[i])
            BY <1>1, <1>6, <1>8, <2>1, <3>1 DEF LatestInv
        <3>3. Known(k, i)' = link[i] /\ Current(k, i)'
            BY <1>11, <3>2
        <3>4. CASE k = 0
            <4>1. h.if = i => was[k] = 1 /\ h.index = index[i] /\ h.state # Gone
                BY <1>2, <1>10, <2>1, <3>2, <3>4 DEF Current, Known
            <4>2. h.if # i => was[k] = 0
                BY <1>10, <3>4
            <4>3. QED  BY <1>15, <3>2, <3>3, <4>1, <4>2
        <3>5. QED  BY <3>3, <3>4
    <2>2. QED  BY <1>3, <1>5, <2>1 DEF LatestInv
<1>17. ASSUME changed[i].tracked, changed[i].evented, missed[i] = "none",
              NEW k \in 0..(L - 1), Latest(k, i)'
       PROVE  /\ k = 0 => Caught(i)'
              /\ \A j \in 0..(k - 1) :
                    Previous(j, k, i)' => Known(j, i)' \notin {Gone, link[i]} /\ Current(j, i)'
    <2>1. /\ Latest(was[k], i) /\ was[k] \in 0..L
          /\ was[k] = 0 => Caught(i)
          /\ \A j \in 0..(was[k] - 1) :
                Previous(j, was[k], i) => Known(j, i) \notin {Gone, link[i]} /\ Current(j, i)
        BY <1>1, <1>8, <1>11, <1>13, <1>17 DEF FreshInv
    <2>2. ASSUME NEW j \in 0..(k - 1), Previous(j, k, i)'
          PROVE  Known(j, i)' \notin {Gone, link[i]} /\ Current(j, i)'
        <3>1. j \in 0..(L - 1)
            OBVIOUS
        <3>2. Previous(was[j], was[k], i) /\ was[j] \in 0..(was[k] - 1)
            BY <1>14, <2>2
        <3>3. Known(was[j], i) \notin {Gone, link[i]} /\ Current(was[j], i)
            BY <2>1, <3>2
        <3>4. QED  BY <1>11, <3>1, <3>3
    <2>3. CASE k = 0 /\ h.if # i
        BY <1>5, <1>6, <1>10, <2>1, <2>3 DEF Caught
    <2>4. CASE k = 0 /\ h.if = i
        <3>1. was[k] = 1 /\ Previous(0, 1, i) /\ Known(0, i) = cache[i][index[i]]
            BY <1>10, <2>4 DEF Previous, About, Known
        <3>2. cache[i][index[i]] \notin {Gone, link[i]}
            BY <2>1, <3>1
        <3>3. link[i] # Gone /\ evented
            BY <1>8, <1>17 DEF TrackedInv
        <3>4. h.state = link[i] /\ h.index = index[i]
            BY <1>1, <1>2, <1>6, <1>8, <1>17, <2>1, <3>1, <3>3 DEF LatestInv, Known, Current
        <3>5. cache'[i][index[i]] = link[i]
            BY <1>2, <1>4, <2>4, <3>4
        <3>6. LastCached(i, index[i])
            <4>1. index[i] \in Cached(i) /\ Says(1, i)
                BY <1>2, <1>4, <2>4, <3>2 DEF Cached, Says
            <4>2. QED  BY <1>2, <1>4, <1>5, <1>17, <3>4, <4>1, HeadIsLast
        <3>7. hash[i] # NoEntry /\ hash[i].state = cache[i][index[i]]
            BY <1>4, <1>5, <1>17, <3>3, <3>6 DEF QueueInv, AgreeInv, InHash
        <3>8. mgr' = "lock"
            BY <1>5, <3>2, <3>5
        <3>9. Caught(i)'
            BY <1>5, <3>2, <3>5, <3>7, <3>8 DEF Caught
        <3>10. QED  BY <2>2, <3>9
    <2>5. QED  BY <2>2, <2>3, <2>4
<1>18. FreshInv(i)'
    BY <1>3, <1>5, <1>17 DEF FreshInv
<1>19. QED  BY <1>9, <1>16, <1>18

\* The callback: what it has yet to see is in its walk, and what it sees is
\* recorded with the time of now.
LEMMA DeliveryCallback ==
    ASSUME IInv, DeliveryInv,
           LockHash \/ UnlockHash \/ \E i \in Iface, x \in Index : VisitLink(i, x)
    PROVE  DeliveryInv'
<1>1. /\ UNCHANGED <<link, index, queue, cache, order, changed, missed, init, now>>
      /\ evented => evented'
    BY DEF LockHash, UnlockHash, VisitLink, kernelVars, initVars, socketVars
<1>2. now \in Int /\ now <= now
    BY DEF IInv, TypeOK, Time
<1>3. ASSUME NEW i \in Iface, missed[i] = "none", changed[i].tracked, Latest(0, i), Caught(i)
      PROVE  Caught(i)'
    <2>1. changed[i].at <= now /\ init = "done" /\ link[i] # Gone
        BY <1>3 DEF DeliveryInv, TrackedInv
    <2>2. index[i] \in Cached(i)
        BY <1>3, <2>1 DEF DeliveryInv, LatestInv, Latest, LastCached
    <2>3. CASE LockHash
        BY <1>1, <1>3, <2>2, <2>3 DEF LockHash, Caught
    <2>4. CASE UnlockHash
        BY <1>1, <1>3, <2>4 DEF UnlockHash, Caught
    <2>5. ASSUME NEW k \in Iface, NEW x \in Index, VisitLink(k, x) PROVE Caught(i)'
        <3>1. /\ \A j \in Iface \ {k} : hash'[j] = hash[j]
              /\ InHash(k, x)'
              /\ \/ hash'[k] = hash[k] /\ InHash(k, x)
                 \/ hash'[k].last_change = now
            BY <2>5, VisitStep
        <3>2. /\ mgr = "walk" /\ walk'[k] = walk[k] \ {x}
              /\ \A j \in Iface \ {k} : walk'[j] = walk[j]
            BY <2>5 DEF VisitLink, IInv, TypeOK
        <3>3. CASE k # i
            BY <1>1, <1>3, <3>1, <3>2, <3>3 DEF Caught
        <3>4. CASE k = i /\ hash'[i].last_change = now
            BY <1>1, <2>1, <3>1, <3>4 DEF Caught, InHash
        <3>5. CASE k = i /\ hash'[i] = hash[i] /\ InHash(i, x)
            <4>1. CASE x = index[i]
                BY <1>1, <1>3, <3>2, <3>5, <4>1 DEF Caught, InHash
            <4>2. CASE x # index[i]
                BY <1>1, <1>3, <3>2, <3>5, <4>2 DEF Caught
            <4>3. QED  BY <4>1, <4>2
        <3>6. QED  BY <3>1, <3>3, <3>4, <3>5
    <2>6. QED  BY <2>3, <2>4, <2>5
<1>4. QED  BY <1>1, <1>2, <1>3, DeliveryKept DEF IInv

LEMMA DeliveryManagerThread ==
    ASSUME IInv, QueueInv, DeliveryInv, ManagerThread
    PROVE  DeliveryInv'
<1>1. CASE ReceiveOverrun
    <2>1. UNCHANGED <<link, index, queue, cache, order, changed, missed, evented, init, now, hash,
                      mgr, walk>>
        BY <1>1 DEF ReceiveOverrun, hashVars, kernelVars, initVars, mgrVars
    <2>2. \A i \in Iface : Caught(i) => Caught(i)'
        BY <2>1 DEF Caught
    <2>3. now \in Int /\ now <= now
        BY DEF IInv, TypeOK, Time
    <2>4. QED  BY <2>1, <2>2, <2>3, DeliveryKept DEF IInv
<1>2. QED  BY <1>1, DeliveryReceive, DeliveryCallback DEF ManagerThread

LEMMA DeliveryNext == IInv /\ QueueInv /\ DeliveryInv /\ [Next]_vars => DeliveryInv'
<1> SUFFICES ASSUME IInv, QueueInv, DeliveryInv, [Next]_vars PROVE DeliveryInv'
    OBVIOUS
<1>1. CASE UNCHANGED vars
    <2>1. UNCHANGED <<link, index, queue, cache, order, changed, missed, evented, init, now, hash,
                      mgr, walk>>
        BY <1>1 DEF vars, hashVars, kernelVars, initVars, mgrVars, socketVars
    <2>2. \A i \in Iface : Caught(i) => Caught(i)'
        BY <2>1 DEF Caught
    <2>3. QED  BY <2>1, <2>2, DeliveryKept DEF IInv, TypeOK, Time
<1>2. QED
    BY <1>1, DeliveryKernel, DeliveryMainThread, DeliveryManagerThread,
       DeliverySubscriptionThread DEF Next

\* A change after the first run of the callback is never lost: however the
\* messages and the threads interleave and whatever the socket drops, once no
\* message of a link waits the hash has its state, also if deleted links of its
\* name are still in the cache, and a last-change that is not earlier than the
\* change unless a message was dropped.
THEOREM NeverEarly == Spec => []LastChangeNotEarly
<1>1. IInv /\ QueueInv /\ DeliveryInv => LastChangeNotEarly
    <2> SUFFICES ASSUME IInv, QueueInv, DeliveryInv, NEW i \in Iface,
                        changed[i].tracked, changed[i].evented, Settled(i)
                 PROVE  /\ missed[i] \in {"none", "earlier"} =>
                              hash[i] # NoEntry /\ hash[i].state = link[i]
                        /\ missed[i] = "none" => hash[i].last_change >= changed[i].at
        BY DEF LastChangeNotEarly
    <2>1. /\ evented /\ init = "done" /\ link[i] # Gone /\ mgr = "polling" /\ walk[i] = {}
          /\ index[i] \in Index
        BY DEF DeliveryInv, TrackedInv, Settled, IInv, StepInv, TypeOK
    <2>2. Latest(0, i) /\ 0 \in 0..Len(queue)
        BY DEF Latest, About, Settled, IInv, TypeOK
    <2>3. ASSUME missed[i] \in {"none", "earlier"}
          PROVE  hash[i] # NoEntry /\ hash[i].state = link[i]
        <3>1. cache[i][index[i]] = link[i] /\ LastCached(i, index[i])
            BY <2>1, <2>2, <2>3 DEF DeliveryInv, LatestInv, Known
        <3>2. InHash(i, index[i])
            BY <2>1, <2>3, <3>1 DEF QueueInv, AgreeInv
        <3>3. QED  BY <3>1, <3>2 DEF InHash
    <2>4. ASSUME missed[i] = "none" PROVE hash[i].last_change >= changed[i].at
        BY <2>1, <2>2, <2>4 DEF DeliveryInv, FreshInv, Caught
    <2>5. QED  BY <2>3, <2>4
<1>2. QED
    BY <1>1, DeliveryInit, DeliveryNext, InvariantHolds, QueueHolds, PTL DEF Spec
=============================================================================
