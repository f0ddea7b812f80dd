----------------------- MODULE InterfaceChange_verdict -----------------------
(***************************************************************************)
(* Proofs about InterfaceChange, continued: what an edit leaves alone, and *)
(* whether the verdict of the callback is right.                           *)
(***************************************************************************)
EXTENDS InterfaceChange_proofs

-----------------------------------------------------------------------------
(* Where the callback is                                                   *)

NameLeaf(i) == LeafAt("name", i, NoKey)
EnabledLeaf(i) == LeafAt("enabled", i, NoKey)
MtuLeaf(i) == LeafAt("mtu", i, NoKey)
SubnetKinds == {"prefix-length", "netmask"}

\* The phase that handles leaf l.
PhaseOf(l) ==
    CASE l.kind = "name" -> 1
      [] l.kind = "description" -> 2
      [] l.kind = "type" -> 3
      [] l.kind = "enabled" -> 4
      [] l.kind = "link-up-down-trap-enable" -> 5
      [] l.kind = "mtu" -> 6
      [] l.kind = "ipv4-enabled" -> 7
      [] l.kind = "ip" -> IF l.key \in Addr4 THEN 8 ELSE 13
      [] l.kind = "prefix-length" -> IF l.key \in Addr4 THEN 9 ELSE 14
      [] l.kind = "netmask" -> 10
      [] l.kind = "neighbor-ip" -> IF l.key \in Neigh4 THEN 11 ELSE 15
      [] l.kind = "link-layer-address" -> IF l.key \in Neigh4 THEN 12 ELSE 16

\* The handler of leaf m, if it is a changed one, has been called.
Done(m) == PhaseOf(m) < phase \/ (PhaseOf(m) = phase /\ nl.open /\ m \notin todo)

\* The sixteen phases, one by one.
LEMMA PhaseTable ==
    /\ Phases[1] = Phase("name", {NoKey}) /\ Phases[2] = Phase("description", {NoKey})
    /\ Phases[3] = Phase("type", {NoKey}) /\ Phases[4] = Phase("enabled", {NoKey})
    /\ Phases[5] = Phase("link-up-down-trap-enable", {NoKey})
    /\ Phases[6] = Phase("mtu", {NoKey}) /\ Phases[7] = Phase("ipv4-enabled", {NoKey})
    /\ Phases[8] = Phase("ip", Addr4) /\ Phases[9] = Phase("prefix-length", Addr4)
    /\ Phases[10] = Phase("netmask", Addr4)
    /\ Phases[11] = Phase("neighbor-ip", Neigh4)
    /\ Phases[12] = Phase("link-layer-address", Neigh4)
    /\ Phases[13] = Phase("ip", Addr6) /\ Phases[14] = Phase("prefix-length", Addr6)
    /\ Phases[15] = Phase("neighbor-ip", Neigh6)
    /\ Phases[16] = Phase("link-layer-address", Neigh6)
    BY DEF Phases

\* Every leaf is handled in exactly one phase.
LEMMA OnePhase ==
    ASSUME NEW l \in Leaf
    PROVE  /\ PhaseOf(l) \in 1..16
           /\ \A q \in 1..16 : l \in PhaseLeaves(q) <=> q = PhaseOf(l)
<1> DEFINE At(q) == l.kind = Phases[q].kind /\ l.key \in Phases[q].keys
<1>1. \A q : l \in PhaseLeaves(q) <=> At(q)
    BY DEF PhaseLeaves
<1>2. \A kind, keys : Phase(kind, keys).kind = kind /\ Phase(kind, keys).keys = keys
    BY DEF Phase
<1>3. CASE l.kind \in IfKinds /\ l.key = NoKey
    <2>1. /\ At(1) <=> l.kind = "name"
          /\ At(2) <=> l.kind = "description"
          /\ At(3) <=> l.kind = "type"
          /\ At(4) <=> l.kind = "enabled"
          /\ At(5) <=> l.kind = "link-up-down-trap-enable"
          /\ At(6) <=> l.kind = "mtu"
          /\ At(7) <=> l.kind = "ipv4-enabled"
        BY <1>2, <1>3, PhaseTable
    <2>2. \A q \in 8..16 : ~At(q)
        <3>1. ~At(8) /\ ~At(9) /\ ~At(10) /\ ~At(11) /\ ~At(12) /\ ~At(13) /\ ~At(14)
              /\ ~At(15) /\ ~At(16)
            BY <1>2, <1>3, PhaseTable DEF IfKinds, IgnoredKinds
        <3>2. QED  BY <3>1
    <2> HIDE DEF At
    <2>3. PhaseOf(l) \in 1..7 /\ At(PhaseOf(l))
        BY <1>3, <2>1 DEF PhaseOf, IfKinds, IgnoredKinds
    <2>4. \A q \in 1..7 : At(q) => q = PhaseOf(l)
        BY <2>1 DEF PhaseOf
    <2>5. QED  BY <1>1, <2>2, <2>3, <2>4
<1>4. CASE \/ l.kind \in AddrKinds /\ l.key \in Addr
           \/ l.kind = "netmask" /\ l.key \in Addr4
    <2>1. /\ At(8) <=> l.kind = "ip" /\ l.key \in Addr4
          /\ At(9) <=> l.kind = "prefix-length" /\ l.key \in Addr4
          /\ At(10) <=> l.kind = "netmask"
          /\ At(13) <=> l.kind = "ip" /\ l.key \notin Addr4
          /\ At(14) <=> l.kind = "prefix-length" /\ l.key \notin Addr4
        BY <1>2, <1>4, PhaseTable, KeyAssumption DEF Addr, AddrKinds
    <2>2. ~At(1) /\ ~At(2) /\ ~At(3) /\ ~At(4) /\ ~At(5) /\ ~At(6) /\ ~At(7)
          /\ ~At(11) /\ ~At(12) /\ ~At(15) /\ ~At(16)
        BY <1>2, <1>4, PhaseTable DEF AddrKinds
    <2> HIDE DEF At
    <2>3. PhaseOf(l) \in 1..16 /\ At(PhaseOf(l))
        BY <1>4, <2>1 DEF PhaseOf, AddrKinds
    <2>4. \A q \in 1..16 : At(q) => q = PhaseOf(l)
        BY <2>1, <2>2 DEF PhaseOf
    <2>5. QED  BY <1>1, <2>3, <2>4
<1>5. CASE l.kind \in NeighKinds /\ l.key \in Neigh
    <2>1. /\ At(11) <=> l.kind = "neighbor-ip" /\ l.key \in Neigh4
          /\ At(12) <=> l.kind = "link-layer-address" /\ l.key \in Neigh4
          /\ At(15) <=> l.kind = "neighbor-ip" /\ l.key \notin Neigh4
          /\ At(16) <=> l.kind = "link-layer-address" /\ l.key \notin Neigh4
        BY <1>2, <1>5, PhaseTable, KeyAssumption DEF Neigh, NeighKinds
    <2>2. /\ ~At(1) /\ ~At(2) /\ ~At(3) /\ ~At(4) /\ ~At(5) /\ ~At(6) /\ ~At(7)
          /\ ~At(8) /\ ~At(9) /\ ~At(10) /\ ~At(13) /\ ~At(14)
        BY <1>2, <1>5, PhaseTable DEF NeighKinds
    <2> HIDE DEF At
    <2>3. PhaseOf(l) \in 1..16 /\ At(PhaseOf(l))
        BY <1>5, <2>1 DEF PhaseOf, NeighKinds
    <2>4. \A q \in 1..16 : At(q) => q = PhaseOf(l)
        BY <2>1, <2>2 DEF PhaseOf
    <2>5. QED  BY <1>1, <2>3, <2>4
<1>6. QED  BY <1>3, <1>4, <1>5, LeafCases

-----------------------------------------------------------------------------
(* What the requests do to each part of the kernel                         *)

\* Adding a link changes the index of that name only.
LEMMA AddLinkParts ==
    ASSUME NEW k \in Kernel, NEW i \in Iface, FreshIfindex # {}, NEW k2, k2 = AddLink(k, i)
    PROVE  /\ k2.link[i] # Gone
           /\ \A j \in Iface : j # i => k2.link[j] = k.link[j]
           /\ k2.up = k.up /\ k2.mtu = k.mtu /\ k2.addr = k.addr /\ k2.neigh = k.neigh
<1>1. (CHOOSE x \in FreshIfindex : TRUE) \in Ifindex
    BY DEF FreshIfindex
<1>2. \A x \in Ifindex : x # Gone
    BY ChangeAssumption DEF Ifindex, Gone
<1>3. (CHOOSE x \in FreshIfindex : TRUE) # Gone
    BY <1>1, <1>2
<1>4. QED  BY <1>3 DEF AddLink, Kernel

\* Deleting a link takes everything on it along.
LEMMA DeleteLinkParts ==
    ASSUME NEW k \in Kernel, NEW i \in Iface, NEW k2, k2 = DeleteLink(k, i)
    PROVE  /\ k2.link[i] = Gone
           /\ \A j \in Iface : j # i => /\ k2.link[j] = k.link[j]
                                        /\ k2.up[j] = k.up[j]
                                        /\ k2.mtu[j] = k.mtu[j]
           /\ \A j, b, p : <<j, b, p>> \in k2.addr <=> <<j, b, p>> \in k.addr /\ j # i
           /\ \A j, n, v : <<j, n, v>> \in k2.neigh <=> <<j, n, v>> \in k.neigh /\ j # i
<1>1. /\ k2.link = [k.link EXCEPT ![i] = Gone]
      /\ k2.up = [k.up EXCEPT ![i] = FALSE]
      /\ k2.mtu = [k.mtu EXCEPT ![i] = DefaultMtu]
      /\ k2.addr = {x \in k.addr : x[1] # i}
      /\ k2.neigh = {x \in k.neigh : x[1] # i}
    BY DEF DeleteLink, Kernel
<1>2. QED  BY <1>1, KernelParts

\* Setting the state of a link: going down takes the IPv6 addresses and the
\* neighbours along.
LEMMA SetUpParts ==
    ASSUME NEW k \in Kernel, NEW i \in Iface, NEW up \in BOOLEAN, NEW k2, k2 = SetUp(k, i, up)
    PROVE  /\ k2.up[i] = up
           /\ \A j \in Iface : j # i => k2.up[j] = k.up[j]
           /\ k2.link = k.link /\ k2.mtu = k.mtu
           /\ up => k2.addr = k.addr /\ k2.neigh = k.neigh
           /\ \A j, b, p : <<j, b, p>> \in k2.addr <=>
                              <<j, b, p>> \in k.addr /\ (up \/ j # i \/ b \in Addr4)
           /\ \A j, n, v : <<j, n, v>> \in k2.neigh <=>
                              <<j, n, v>> \in k.neigh /\ (up \/ j # i)
<1>1. CASE up
    BY <1>1 DEF SetUp, Kernel
<1>2. CASE ~up
    <2>1. /\ k2.up = [k.up EXCEPT ![i] = FALSE]
          /\ k2.link = k.link /\ k2.mtu = k.mtu
          /\ k2.addr = {x \in k.addr : x[1] # i \/ x[2] \in Addr4}
          /\ k2.neigh = {x \in k.neigh : x[1] # i}
        BY <1>2 DEF SetUp, Kernel
    <2>2. k2.up[i] = up /\ \A j \in Iface : j # i => k2.up[j] = k.up[j]
        BY <1>2, <2>1, KernelParts
    <2>3. QED  BY <1>2, <2>1, <2>2
<1>3. QED  BY <1>1, <1>2

\* Setting the mtu.
LEMMA SetMtuParts ==
    ASSUME NEW k \in Kernel, NEW i \in Iface, NEW m, NEW k2, k2 = SetMtu(k, i, m)
    PROVE  /\ k2.mtu[i] = m
           /\ \A j \in Iface : j # i => k2.mtu[j] = k.mtu[j]
           /\ k2.link = k.link /\ k2.up = k.up /\ k2.addr = k.addr /\ k2.neigh = k.neigh
    BY DEF SetMtu, Kernel

\* Adding an address.
LEMMA AddAddrParts ==
    ASSUME NEW k \in Kernel, NEW i, NEW a, NEW p, NEW k2, k2 = AddAddr(k, i, a, p)
    PROVE  /\ \A j, b, q : <<j, b, q>> \in k2.addr <=>
                  <<j, b, q>> \in k.addr \/ (j = i /\ b = a /\ q = p)
           /\ k2.link = k.link /\ k2.up = k.up /\ k2.mtu = k.mtu /\ k2.neigh = k.neigh
<1>1. k2.addr = k.addr \cup {<<i, a, p>>}
    BY DEF AddAddr, Kernel
<1>2. k2.link = k.link /\ k2.up = k.up /\ k2.mtu = k.mtu /\ k2.neigh = k.neigh
    BY DEF AddAddr, Kernel
<1>3. QED  BY <1>1, <1>2

\* Deleting an address.
LEMMA DeleteAddrParts ==
    ASSUME NEW k \in Kernel, NEW i, NEW a, NEW p, NEW k2, k2 = DeleteAddr(k, i, a, p)
    PROVE  /\ \A j, b, q : <<j, b, q>> \in k2.addr <=>
                  <<j, b, q>> \in k.addr /\ ~(j = i /\ b = a /\ q = p)
           /\ k2.link = k.link /\ k2.up = k.up /\ k2.mtu = k.mtu /\ k2.neigh = k.neigh
<1>1. k2.addr = k.addr \ {<<i, a, p>>}
    BY DEF DeleteAddr, Kernel
<1>2. k2.link = k.link /\ k2.up = k.up /\ k2.mtu = k.mtu /\ k2.neigh = k.neigh
    BY DEF DeleteAddr, Kernel
<1>3. QED  BY <1>1, <1>2

\* Deleting a neighbour.
LEMMA DeleteNeighParts ==
    ASSUME NEW k \in Kernel, NEW i, NEW n, NEW k2, k2 = DeleteNeigh(k, i, n)
    PROVE  /\ \A j, m, v : <<j, m, v>> \in k2.neigh <=>
                  <<j, m, v>> \in k.neigh /\ ~(j = i /\ m = n)
           /\ k2.link = k.link /\ k2.up = k.up /\ k2.mtu = k.mtu /\ k2.addr = k.addr
<1>1. k2.neigh = {x \in k.neigh : ~(x[1] = i /\ x[2] = n)}
    BY DEF DeleteNeigh, Kernel
<1>2. k2.link = k.link /\ k2.up = k.up /\ k2.mtu = k.mtu /\ k2.addr = k.addr
    BY DEF DeleteNeigh, Kernel
<1>3. QED  BY <1>1, <1>2

\* Replacing a neighbour.
LEMMA ReplaceNeighParts ==
    ASSUME NEW k \in Kernel, NEW i, NEW n, NEW ll, NEW k2, k2 = ReplaceNeigh(k, i, n, ll)
    PROVE  /\ \A j, m, v : <<j, m, v>> \in k2.neigh <=>
                  \/ <<j, m, v>> \in k.neigh /\ ~(j = i /\ m = n)
                  \/ j = i /\ m = n /\ v = ll
           /\ k2.link = k.link /\ k2.up = k.up /\ k2.mtu = k.mtu /\ k2.addr = k.addr
<1>1. k2.neigh = {x \in k.neigh : ~(x[1] = i /\ x[2] = n)} \cup {<<i, n, ll>>}
    BY DEF ReplaceNeigh, Kernel
<1>2. k2.link = k.link /\ k2.up = k.up /\ k2.mtu = k.mtu /\ k2.addr = k.addr
    BY DEF ReplaceNeigh, Kernel
<1>3. QED  BY <1>1, <1>2

\* A neighbour of the kernel, by its parts.
LEMMA NeighbourParts ==
    ASSUME NEW k \in Kernel, NEW i, NEW n
    PROVE  HasNeigh(k, i, n) <=> \E v : <<i, n, v>> \in k.neigh
<1>1. \A x \in k.neigh : x = <<x[1], x[2], x[3]>>
    BY DEF Kernel
<1>2. ASSUME NEW x \in k.neigh, x[1] = i, x[2] = n
      PROVE  \E v : <<i, n, v>> \in k.neigh
    <2>1. <<i, n, x[3]>> \in k.neigh
        BY <1>1, <1>2
    <2>2. QED  BY <2>1
<1>3. ASSUME NEW v, <<i, n, v>> \in k.neigh
      PROVE  HasNeigh(k, i, n)
    BY <1>3 DEF HasNeigh
<1>4. QED  BY <1>2, <1>3 DEF HasNeigh

-----------------------------------------------------------------------------
(* What a handler may touch, what it does, and why it fails                *)

\* The handler of leaf l may touch the state of link j, the address b of j,
\* the neighbour n of j.
DeletesLink(l, j) == l.if = j /\ l.kind = "name" /\ Operation(l) = "DELETED"
TouchesState(l, kind, j) == DeletesLink(l, j) \/ (l.if = j /\ l.kind = kind)
TouchesAddr(l, j, b) ==
    \/ DeletesLink(l, j)
    \/ l.if = j /\ l.kind = "enabled" /\ cand[l] = FALSE /\ b \in Addr6
    \/ l.if = j /\ l.kind = "ip" /\ l.key = b
    \/ l.if = j /\ l.kind \in SubnetKinds /\ Operation(l) = "MODIFIED" /\ l.key = b
TouchesNeigh(l, j, n) ==
    \/ DeletesLink(l, j)
    \/ l.if = j /\ l.kind = "enabled" /\ cand[l] = FALSE
    \/ l.if = j /\ l.kind = "neighbor-ip" /\ l.key = n
    \/ l.if = j /\ l.kind = "link-layer-address" /\ Operation(l) = "MODIFIED" /\ l.key = n

\* Kernel k differs from the present one only in what the handler of leaf l may
\* touch; only the handlers of addresses and neighbours add entries.
Frame(l, k) ==
    /\ \A j \in Iface : ~(l.if = j /\ l.kind = "name") => k.link[j] = kernel.link[j]
    /\ \A j \in Iface : ~TouchesState(l, "enabled", j) => k.up[j] = kernel.up[j]
    /\ \A j \in Iface : ~TouchesState(l, "mtu", j) => k.mtu[j] = kernel.mtu[j]
    /\ \A j \in Iface, b \in Addr : ~TouchesAddr(l, j, b) =>
          \A p : (<<j, b, p>> \in k.addr <=> <<j, b, p>> \in kernel.addr)
    /\ \A j \in Iface, n \in Neigh : ~TouchesNeigh(l, j, n) =>
          \A v : (<<j, n, v>> \in k.neigh <=> <<j, n, v>> \in kernel.neigh)
    /\ l.kind \in {"name", "enabled"} =>
          /\ \A j, b, p : <<j, b, p>> \in k.addr => <<j, b, p>> \in kernel.addr
          /\ \A j, n, v : <<j, n, v>> \in k.neigh => <<j, n, v>> \in kernel.neigh

\* In kernel k the change of leaf l is made.
AppliedLink(l, k) ==
    /\ l.kind = "name" /\ Operation(l) = "CREATED" =>
          k.link[l.if] # Gone \/ (InCache(l.if) /\ k = kernel)
    /\ l.kind = "name" /\ Operation(l) = "DELETED" => k.link[l.if] = Gone
    /\ l.kind = "enabled" /\ cand[l] # NoValue => k.up[l.if] = cand[l]
    /\ l.kind = "mtu" /\ cand[l] # NoValue => k.mtu[l.if] = cand[l]

AppliedAddr(l, k) ==
    /\ l.kind = "ip" /\ Operation(l) = "CREATED" =>
          \A p : <<l.if, l.key, p>> \in k.addr <=>
                    \/ <<l.if, l.key, p>> \in kernel.addr
                    \/ p = PrefixOf(cand, l.if, l.key)
    /\ l.kind = "ip" /\ Operation(l) = "DELETED" =>
          \A p : <<l.if, l.key, p>> \in k.addr <=>
                    /\ <<l.if, l.key, p>> \in kernel.addr
                    /\ p # PrefixOf(running, l.if, l.key)
    /\ l.kind \in SubnetKinds /\ Operation(l) = "MODIFIED" =>
          \A p : <<l.if, l.key, p>> \in k.addr <=>
                    \/ p = PrefixOf(cand, l.if, l.key)
                    \/ /\ <<l.if, l.key, p>> \in kernel.addr
                       /\ p # PrefixOf(running, l.if, l.key)

LlLeaf(i, n) == LeafAt("link-layer-address", i, n)
AppliedNeigh(l, k) ==
    /\ l.kind = "neighbor-ip" /\ Operation(l) = "CREATED" =>
          \A v : <<l.if, l.key, v>> \in k.neigh <=>
                    \/ <<l.if, l.key, v>> \in kernel.neigh
                    \/ ~HasNeigh(kernel, l.if, l.key) /\ v = cand[LlLeaf(l.if, l.key)]
    /\ l.kind = "neighbor-ip" /\ Operation(l) = "DELETED" =>
          \A v : <<l.if, l.key, v>> \notin k.neigh
    /\ l.kind = "link-layer-address" /\ Operation(l) = "MODIFIED" =>
          \A v : <<l.if, l.key, v>> \in k.neigh <=> v = cand[l]

Applied(l, k) == AppliedLink(l, k) /\ AppliedAddr(l, k) /\ AppliedNeigh(l, k)

\* Why the handler of leaf l fails although no request is refused.
Reason(l) ==
    LET i == l.if
        a == l.key
        old == <<i, a, PrefixOf(running, i, a)>>
        new == <<i, a, PrefixOf(cand, i, a)>>
    IN  \/ l.kind = "name" /\ Operation(l) = "DELETED" /\ ~LinkAlive(i)
        \/ l.kind = "type" /\ Operation(l) # "DELETED"
           /\ (~LinkAlive(i) \/ cand[l] \notin HandledTypes)
        \/ l.kind = "enabled" /\ ~LinkAlive(i) /\ (Operation(l) = "DELETED" => InCache(i))
        \/ l.kind \notin IgnoredKinds \cup {"name", "type", "enabled"} /\ ~LinkAlive(i)
        \/ l.kind = "ipv4-enabled" /\ (~nl.anyAddr \/ cand[l] = FALSE)
        \/ l.kind = "ip" /\ Operation(l) = "CREATED" /\ new \in kernel.addr
        \/ l.kind = "ip" /\ Operation(l) = "DELETED" /\ old \notin kernel.addr
        \/ l.kind \in SubnetKinds /\ Operation(l) = "MODIFIED"
           /\ (old \notin kernel.addr \/ (new \in kernel.addr /\ new # old))
        \/ l.kind = "neighbor-ip" /\ Operation(l) = "DELETED" /\ ~HasNeigh(kernel, i, a)
        \/ l.kind = "link-layer-address" /\ Operation(l) = "MODIFIED"
           /\ ~HasNeigh(kernel, i, a)

\* What a handler comes to.
Verdict(l) ==
    /\ Frame(l, kernel')
    /\ \/ Succeed(l, kernel', scratch) /\ Applied(l, kernel')
       \/ Fail /\ refused' = refused + 1
       \/ Fail /\ refused' = refused /\ Reason(l)

\* A kernel left as it is differs in nothing.
LEMMA FrameSame == ASSUME NEW l PROVE Frame(l, kernel)
    BY DEF Frame

\* A handler with one request: it makes the change, is refused, or was not able
\* to make it.
LEMMA RequestVerdict ==
    ASSUME NEW l, NEW possible, NEW k, NEW s, s = scratch, Request(l, possible, k, s),
           possible => Frame(l, k) /\ Applied(l, k),
           ~possible => Reason(l)
    PROVE  Verdict(l)
<1>1. CASE possible /\ Succeed(l, k, s)
    <2>1. kernel' = k /\ Succeed(l, kernel', scratch)
        BY <1>1 DEF Succeed
    <2>2. QED  BY <1>1, <2>1 DEF Verdict
<1>2. CASE possible /\ Refuse(kernel)
    <2>1. kernel' = kernel /\ Fail /\ refused' = refused + 1
        BY <1>2 DEF Refuse
    <2>2. QED  BY <2>1, FrameSame DEF Verdict
<1>3. CASE ~possible /\ Error(kernel)
    <2>1. kernel' = kernel /\ Fail /\ refused' = refused
        BY <1>3 DEF Error
    <2>2. QED  BY <1>3, <2>1, FrameSame DEF Verdict
<1>4. QED  BY <1>1, <1>2, <1>3 DEF Request

\* A handler with nothing to do.
LEMMA NothingToDo ==
    ASSUME NEW l, Succeed(l, kernel, scratch), Applied(l, kernel)
    PROVE  Verdict(l)
<1>1. kernel' = kernel
    BY DEF Succeed
<1>2. QED  BY <1>1, FrameSame DEF Verdict

\* A handler that only looks the link up.
LEMMA LookupVerdict ==
    ASSUME NEW l, LookupOnly(l), Applied(l, kernel), ~LinkAlive(l.if) => Reason(l)
    PROVE  Verdict(l)
<1>1. CASE InCache(l.if) /\ Succeed(l, kernel, scratch)
    BY <1>1, NothingToDo
<1>2. CASE ~InCache(l.if) /\ Error(kernel)
    <2>1. kernel' = kernel /\ Fail /\ refused' = refused /\ Reason(l)
        BY <1>2 DEF Error, LinkAlive
    <2>2. QED  BY <2>1, FrameSame DEF Verdict
<1>3. QED  BY <1>1, <1>2 DEF LookupOnly

\* change_name
LEMMA change_name_verdict ==
    ASSUME IInv, NEW l, change_name(l)
    PROVE  Verdict(l)
<1> DEFINE i == l.if
<1>1. Handling("name", {NoKey}, l)
    BY DEF change_name
<1>2. /\ l \in Leaf /\ i \in Iface /\ l.kind = "name"
      /\ kernel \in Kernel /\ scratch = NoScratch
    BY <1>1, HandlerContext, LeafKinds
<1>3. CASE Operation(l) = "CREATED" /\ InCache(i) /\ Succeed(l, kernel, scratch)
    <2>1. Applied(l, kernel)
        BY <1>2, <1>3 DEF Applied, AppliedLink, AppliedAddr, AppliedNeigh, SubnetKinds
    <2>2. QED  BY <1>3, <2>1, NothingToDo
<1>4. CASE /\ Operation(l) = "CREATED" /\ FreshIfindex # {}
           /\ Request(l, TRUE, IF kernel.link[i] # Gone THEN kernel
                               ELSE AddLink(kernel, i), scratch)
    <2>1. PICK k : k = IF kernel.link[i] # Gone THEN kernel ELSE AddLink(kernel, i)
        OBVIOUS
    <2>2. k.link[i] # Gone /\ \A j \in Iface : j # i => k.link[j] = kernel.link[j]
        BY <1>2, <1>4, <2>1, AddLinkParts
    <2>3. /\ k.up = kernel.up /\ k.mtu = kernel.mtu
          /\ k.addr = kernel.addr /\ k.neigh = kernel.neigh
        BY <1>2, <1>4, <2>1, AddLinkParts
    <2>4. Frame(l, k)
        BY <1>2, <2>2, <2>3 DEF Frame
    <2>5. Applied(l, k)
        BY <1>2, <1>4, <2>2 DEF Applied, AppliedLink, AppliedAddr, AppliedNeigh, SubnetKinds
    <2>6. Request(l, TRUE, k, scratch)
        BY <1>4, <2>1
    <2>7. QED  BY <2>4, <2>5, <2>6, RequestVerdict
<1>5. CASE /\ Operation(l) = "DELETED"
           /\ Request(l, LinkAlive(i), DeleteLink(kernel, i), scratch)
    <2>1. PICK k : k = DeleteLink(kernel, i)
        OBVIOUS
    <2>2. k.link[i] = Gone /\ \A j \in Iface : j # i => /\ k.link[j] = kernel.link[j]
                                                        /\ k.up[j] = kernel.up[j]
                                                        /\ k.mtu[j] = kernel.mtu[j]
        BY <1>2, <2>1, DeleteLinkParts
    <2>3. /\ \A j, b, p : <<j, b, p>> \in k.addr <=> <<j, b, p>> \in kernel.addr /\ j # i
          /\ \A j, n, v : <<j, n, v>> \in k.neigh <=> <<j, n, v>> \in kernel.neigh /\ j # i
        BY <1>2, <2>1, DeleteLinkParts
    <2>4. Frame(l, k)
        BY <1>2, <1>5, <2>2, <2>3
        DEF Frame, TouchesState, TouchesAddr, TouchesNeigh, DeletesLink
    <2>5. Applied(l, k)
        BY <1>2, <1>5, <2>2 DEF Applied, AppliedLink, AppliedAddr, AppliedNeigh, SubnetKinds
    <2>6. ~LinkAlive(i) => Reason(l)
        BY <1>2, <1>5 DEF Reason
    <2>7. Request(l, LinkAlive(i), k, scratch)
        BY <1>5, <2>1
    <2>8. QED  BY <2>4, <2>5, <2>6, <2>7, RequestVerdict
<1>6. QED  BY <1>3, <1>4, <1>5 DEF change_name

\* A leaf of these kinds asks nothing of the kernel.
LEMMA NothingApplied ==
    ASSUME NEW l, NEW k,
           l.kind \in IgnoredKinds \cup {"type", "ipv4-enabled"}
    PROVE  Applied(l, k)
    BY DEF Applied, AppliedLink, AppliedAddr, AppliedNeigh, IgnoredKinds, SubnetKinds

\* The leaves that are accepted and ignored.
LEMMA change_ignored_verdict ==
    ASSUME IInv, NEW l, change_description(l) \/ change_link_up_down_trap_enable(l)
    PROVE  Verdict(l)
<1>1. l.kind \in IgnoredKinds /\ Succeed(l, kernel, scratch)
    BY DEF change_description, change_link_up_down_trap_enable, Handling, IgnoredKinds
<1>2. QED  BY <1>1, NothingApplied, NothingToDo

\* change_type
LEMMA change_type_verdict ==
    ASSUME IInv, NEW l, change_type(l)
    PROVE  Verdict(l)
<1>1. l.kind = "type" /\ Applied(l, kernel) /\ Frame(l, kernel)
    BY NothingApplied, FrameSame DEF change_type, Handling
<1>2. CASE Succeed(l, kernel, scratch)
    BY <1>1, <1>2, NothingToDo
<1>3. CASE /\ Operation(l) # "DELETED"
           /\ Request(l, LinkAlive(l.if) /\ cand[l] \in HandledTypes, kernel, scratch)
    <2>1. ~(LinkAlive(l.if) /\ cand[l] \in HandledTypes) => Reason(l)
        BY <1>1, <1>3 DEF Reason
    <2>2. QED  BY <1>1, <1>3, <2>1, RequestVerdict
<1>4. QED  BY <1>2, <1>3 DEF change_type

\* change_enabled
LEMMA change_enabled_verdict ==
    ASSUME IInv, NEW l, change_enabled(l)
    PROVE  Verdict(l)
<1> DEFINE i == l.if
<1>1. Handling("enabled", {NoKey}, l)
    BY DEF change_enabled
<1>2. /\ l \in Leaf /\ i \in Iface /\ l.kind = "enabled"
      /\ kernel \in Kernel /\ scratch = NoScratch /\ Config(cand)
    BY <1>1, HandlerContext, LeafKinds
<1>3. ASSUME NEW up \in BOOLEAN, Request(l, LinkAlive(i), SetUp(kernel, i, up), scratch),
             cand[l] = up \/ (cand[l] = NoValue /\ up),
             Operation(l) = "DELETED" => InCache(i)
      PROVE  Verdict(l)
    <2>1. PICK k : k = SetUp(kernel, i, up)
        OBVIOUS
    <2>2. /\ k.up[i] = up
          /\ \A j \in Iface : j # i => k.up[j] = kernel.up[j]
          /\ k.link = kernel.link /\ k.mtu = kernel.mtu
        BY <1>2, <2>1, SetUpParts
    <2>3. /\ \A j, b, p : <<j, b, p>> \in k.addr <=>
                             <<j, b, p>> \in kernel.addr /\ (up \/ j # i \/ b \in Addr4)
          /\ \A j, n, v : <<j, n, v>> \in k.neigh <=>
                             <<j, n, v>> \in kernel.neigh /\ (up \/ j # i)
        BY <1>2, <2>1, SetUpParts
    <2>4. ~up => cand[l] = FALSE
        BY <1>3
    <2>5. Frame(l, k)
        BY <1>2, <2>2, <2>3, <2>4
        DEF Frame, TouchesState, TouchesAddr, TouchesNeigh, DeletesLink, Addr
    <2>6. Applied(l, k)
        BY <1>2, <1>3, <2>2 DEF Applied, AppliedLink, AppliedAddr, AppliedNeigh, SubnetKinds
    <2>7. ~LinkAlive(i) => Reason(l)
        BY <1>2, <1>3 DEF Reason
    <2>8. Request(l, LinkAlive(i), k, scratch)
        BY <1>3, <2>1
    <2>9. QED  BY <2>5, <2>6, <2>7, <2>8, RequestVerdict
<1>4. CASE /\ Operation(l) # "DELETED"
           /\ Request(l, LinkAlive(i), SetUp(kernel, i, cand[l]), scratch)
    <2>1. cand[l] \in BOOLEAN
        BY <1>1, <1>2, <1>4, HandlerContext, HandledHasValue, LeafValues
    <2>2. QED  BY <1>3, <1>4, <2>1
<1>5. CASE /\ Operation(l) = "DELETED" /\ InCache(i)
           /\ Request(l, LinkAlive(i), SetUp(kernel, i, TRUE), scratch)
    <2>1. cand[l] = NoValue
        BY <1>5, Operations
    <2>2. QED  BY <1>3, <1>5, <2>1
<1>6. CASE Operation(l) = "DELETED" /\ Succeed(l, kernel, scratch)
    <2>1. cand[l] = NoValue
        BY <1>6, Operations
    <2>2. Applied(l, kernel)
        BY <1>2, <2>1 DEF Applied, AppliedLink, AppliedAddr, AppliedNeigh, SubnetKinds
    <2>3. QED  BY <1>6, <2>2, NothingToDo
<1>7. QED  BY <1>4, <1>5, <1>6 DEF change_enabled

\* ipv4_change_mtu
LEMMA ipv4_change_mtu_verdict ==
    ASSUME IInv, NEW l, ipv4_change_mtu(l)
    PROVE  Verdict(l)
<1> DEFINE i == l.if
<1>1. PICK m : m = IF Operation(l) = "DELETED" THEN DefaultMtu ELSE cand[l]
    OBVIOUS
<1>2. PICK k : k = SetMtu(kernel, i, m)
    OBVIOUS
<1>3. Handling("mtu", {NoKey}, l) /\ Request(l, LinkAlive(i), k, scratch)
    BY <1>1, <1>2 DEF ipv4_change_mtu
<1>4. l \in Leaf /\ i \in Iface /\ l.kind = "mtu" /\ kernel \in Kernel
    BY <1>3, HandlerContext, LeafKinds
<1>5. /\ k.mtu[i] = m
      /\ \A j \in Iface : j # i => k.mtu[j] = kernel.mtu[j]
      /\ k.link = kernel.link /\ k.up = kernel.up
      /\ k.addr = kernel.addr /\ k.neigh = kernel.neigh
    BY <1>2, <1>4, SetMtuParts
<1>6. cand[l] # NoValue => m = cand[l]
    BY <1>1, Operations
<1>7. Frame(l, k)
    BY <1>4, <1>5 DEF Frame, TouchesState
<1>8. Applied(l, k)
    BY <1>4, <1>5, <1>6 DEF Applied, AppliedLink, AppliedAddr, AppliedNeigh, SubnetKinds
<1>9. ~LinkAlive(i) => Reason(l)
    BY <1>4 DEF Reason, IgnoredKinds
<1>10. QED  BY <1>3, <1>7, <1>8, <1>9, RequestVerdict

\* ipv4_change_enabled
LEMMA ipv4_change_enabled_verdict ==
    ASSUME IInv, NEW l, ipv4_change_enabled(l)
    PROVE  Verdict(l)
<1>1. l.kind = "ipv4-enabled"
    BY DEF ipv4_change_enabled, Handling
<1>2. CASE Succeed(l, kernel, scratch)
    BY <1>1, <1>2, NothingApplied, NothingToDo
<1>3. CASE ~(InCache(l.if) /\ nl.anyAddr /\ cand[l] # FALSE) /\ Error(kernel)
    <2>1. Reason(l)
        BY <1>1, <1>3 DEF Reason, LinkAlive, IgnoredKinds
    <2>2. kernel' = kernel /\ Fail /\ refused' = refused
        BY <1>3 DEF Error
    <2>3. QED  BY <2>1, <2>2, FrameSame DEF Verdict
<1>4. QED  BY <1>2, <1>3 DEF ipv4_change_enabled

\* Creating and deleting an address, once its prefix length is collected.
LEMMA ChangeAddress_verdict ==
    ASSUME IInv, NEW l, NEW keys \in SUBSET Addr, Handling("ip", keys, l),
           NEW f \in Family, NEW s, NEW ready, ChangeAddress(l, f, s, ready),
           CollectedFor(l, f, s), Operation(l) = "CREATED" => ready
    PROVE  Verdict(l)
<1> DEFINE i == l.if
           a == l.key
<1>1. /\ l \in Leaf /\ i \in Iface /\ a \in Addr /\ l.kind = "ip"
      /\ kernel \in Kernel /\ scratch = NoScratch
    BY HandlerContext, LeafKinds DEF AddrKinds
<1>2. PICK new : new = PrefixOf(cand, i, a)
    OBVIOUS
<1>3. PICK old : old = PrefixOf(running, i, a)
    OBVIOUS
<1>4. CASE /\ Operation(l) = "CREATED"
           /\ Request(l, LinkAlive(i) /\ ready /\ <<i, a, s[f].prefix_length>> \notin kernel.addr,
                      AddAddr(kernel, i, a, s[f].prefix_length), ResetPrefix(s, f))
    <2>1. s[f].prefix_length = new /\ ResetPrefix(s, f) = scratch /\ ready
        BY <1>1, <1>2, <1>4 DEF CollectedFor
    <2>2. PICK k : k = AddAddr(kernel, i, a, new)
        OBVIOUS
    <2>3. /\ \A j, b, q : <<j, b, q>> \in k.addr <=>
                <<j, b, q>> \in kernel.addr \/ (j = i /\ b = a /\ q = new)
          /\ k.link = kernel.link /\ k.up = kernel.up
          /\ k.mtu = kernel.mtu /\ k.neigh = kernel.neigh
        BY <1>1, <2>2, AddAddrParts
    <2>4. Frame(l, k)
        BY <1>1, <2>3 DEF Frame, TouchesAddr
    <2>5. Applied(l, k)
        BY <1>1, <1>2, <1>4, <2>3
        DEF Applied, AppliedLink, AppliedAddr, AppliedNeigh, SubnetKinds
    <2>6. ~(LinkAlive(i) /\ ready /\ <<i, a, new>> \notin kernel.addr) => Reason(l)
        BY <1>1, <1>2, <1>4, <2>1 DEF Reason, IgnoredKinds
    <2>7. Request(l, LinkAlive(i) /\ ready /\ <<i, a, new>> \notin kernel.addr, k, ResetPrefix(s, f))
        BY <1>4, <2>1, <2>2
    <2>8. QED  BY <2>1, <2>4, <2>5, <2>6, <2>7, RequestVerdict
<1>5. CASE /\ Operation(l) = "DELETED"
           /\ Request(l, LinkAlive(i) /\ <<i, a, PrefixOf(running, i, a)>> \in kernel.addr,
                      DeleteAddr(kernel, i, a, PrefixOf(running, i, a)), ResetPrefix(scratch, f))
    <2>1. ResetPrefix(scratch, f) = scratch
        BY <1>1, ResetNothing
    <2>2. PICK k : k = DeleteAddr(kernel, i, a, old)
        OBVIOUS
    <2>3. /\ \A j, b, q : <<j, b, q>> \in k.addr <=>
                <<j, b, q>> \in kernel.addr /\ ~(j = i /\ b = a /\ q = old)
          /\ k.link = kernel.link /\ k.up = kernel.up
          /\ k.mtu = kernel.mtu /\ k.neigh = kernel.neigh
        BY <1>1, <2>2, DeleteAddrParts
    <2>4. Frame(l, k)
        BY <1>1, <2>3 DEF Frame, TouchesAddr
    <2>5. Applied(l, k)
        BY <1>1, <1>3, <1>5, <2>3
        DEF Applied, AppliedLink, AppliedAddr, AppliedNeigh, SubnetKinds
    <2>6. ~(LinkAlive(i) /\ <<i, a, old>> \in kernel.addr) => Reason(l)
        BY <1>1, <1>3, <1>5 DEF Reason, IgnoredKinds
    <2>7. Request(l, LinkAlive(i) /\ <<i, a, old>> \in kernel.addr, k, ResetPrefix(scratch, f))
        BY <1>3, <1>5, <2>2
    <2>8. QED  BY <2>1, <2>4, <2>5, <2>6, <2>7, RequestVerdict
<1>6. QED  BY <1>4, <1>5 DEF ChangeAddress

\* ipv4_address_change_ip
LEMMA ipv4_address_change_ip_verdict ==
    ASSUME IInv, NEW l, ipv4_address_change_ip(l)
    PROVE  Verdict(l)
<1> DEFINE s == CollectNetmask(CollectPrefix(scratch, "ipv4", PrefixLengthXpath(l.if, l.key)),
                               "ipv4", NetmaskXpath(l.if, l.key))
<1>1. Handling("ip", Addr4, l) /\ ChangeAddress(l, "ipv4", s, s["ipv4"].prefix_set)
    BY DEF ipv4_address_change_ip
<1>2. CollectedFor(l, "ipv4", s)
    BY <1>1, CollectedIp4
<1>3. Operation(l) = "CREATED" => s["ipv4"].prefix_set
    BY <1>2 DEF CollectedFor
<1>4. Addr4 \in SUBSET Addr /\ "ipv4" \in Family
    BY DEF Addr, Family
<1> HIDE DEF s
<1>5. QED  BY <1>1, <1>2, <1>3, <1>4, ChangeAddress_verdict

\* ipv6_address_change_ip
LEMMA ipv6_address_change_ip_verdict ==
    ASSUME IInv, NEW l, ipv6_address_change_ip(l)
    PROVE  Verdict(l)
<1> DEFINE s == CollectPrefix(scratch, "ipv6", PrefixLengthXpath(l.if, l.key))
<1>1. Handling("ip", Addr6, l) /\ ChangeAddress(l, "ipv6", s, TRUE)
    BY DEF ipv6_address_change_ip
<1>2. CollectedFor(l, "ipv6", s)
    BY <1>1, CollectedIp6
<1>3. Addr6 \in SUBSET Addr /\ "ipv6" \in Family
    BY DEF Addr, Family
<1> HIDE DEF s
<1>4. QED  BY <1>1, <1>2, <1>3, ChangeAddress_verdict

\* The prefix length or the netmask of an address.
LEMMA ReplaceAddress_verdict ==
    ASSUME IInv, NEW l, NEW kind \in SubnetKinds, NEW keys,
           Handling(kind, keys, l), ReplaceAddress(l)
    PROVE  Verdict(l)
<1> DEFINE i == l.if
           a == l.key
<1>1. /\ l \in Leaf /\ l.kind = kind /\ l.kind \in SubnetKinds
      /\ kernel \in Kernel /\ scratch = NoScratch
    BY HandlerContext
<1>2. i \in Iface /\ a \in Addr
    BY <1>1, LeafKinds DEF SubnetKinds, AddrKinds, Addr
<1>3. PICK new : new = PrefixOf(cand, i, a)
    OBVIOUS
<1>4. PICK old : old = PrefixOf(running, i, a)
    OBVIOUS
<1>5. l.kind \notin {"name", "enabled", "mtu", "ip", "neighbor-ip", "link-layer-address"}
      /\ l.kind \notin IgnoredKinds \cup {"name", "type", "enabled"}
    BY <1>1 DEF SubnetKinds, IgnoredKinds
<1>6. CASE Operation(l) # "MODIFIED" /\ LookupOnly(l)
    <2>1. Applied(l, kernel)
        BY <1>1, <1>5, <1>6 DEF Applied, AppliedLink, AppliedAddr, AppliedNeigh
    <2>2. ~LinkAlive(i) => Reason(l)
        BY <1>5 DEF Reason
    <2>3. QED  BY <1>6, <2>1, <2>2, LookupVerdict
<1>7. ASSUME Operation(l) = "MODIFIED", NEW removed, removed = DeleteAddr(kernel, i, a, old)
      PROVE  /\ removed \in Kernel /\ Frame(l, removed)
             /\ \A j, b, q : <<j, b, q>> \in removed.addr <=>
                   <<j, b, q>> \in kernel.addr /\ ~(j = i /\ b = a /\ q = old)
             /\ removed.link = kernel.link /\ removed.up = kernel.up
             /\ removed.mtu = kernel.mtu /\ removed.neigh = kernel.neigh
    <2>1. removed \in Kernel
        BY <1>1, <1>2, <1>7, AddrRequests
    <2>2. /\ \A j, b, q : <<j, b, q>> \in removed.addr <=>
                <<j, b, q>> \in kernel.addr /\ ~(j = i /\ b = a /\ q = old)
          /\ removed.link = kernel.link /\ removed.up = kernel.up
          /\ removed.mtu = kernel.mtu /\ removed.neigh = kernel.neigh
        BY <1>1, <1>7, DeleteAddrParts
    <2>3. Frame(l, removed)
        BY <1>1, <1>5, <1>7, <2>2 DEF Frame, TouchesAddr
    <2>4. QED  BY <2>1, <2>2, <2>3
<1>8. CASE /\ Operation(l) = "MODIFIED"
           /\ Succeed(l, AddAddr(DeleteAddr(kernel, i, a, old), i, a, new), scratch)
    <2>1. PICK removed : removed = DeleteAddr(kernel, i, a, old)
        OBVIOUS
    <2>2. /\ removed \in Kernel
          /\ \A j, b, q : <<j, b, q>> \in removed.addr <=>
                <<j, b, q>> \in kernel.addr /\ ~(j = i /\ b = a /\ q = old)
          /\ removed.link = kernel.link /\ removed.up = kernel.up
          /\ removed.mtu = kernel.mtu /\ removed.neigh = kernel.neigh
        BY <1>7, <1>8, <2>1
    <2>3. PICK k : k = AddAddr(removed, i, a, new)
        OBVIOUS
    <2>4. /\ \A j, b, q : <<j, b, q>> \in k.addr <=>
                <<j, b, q>> \in removed.addr \/ (j = i /\ b = a /\ q = new)
          /\ k.link = kernel.link /\ k.up = kernel.up
          /\ k.mtu = kernel.mtu /\ k.neigh = kernel.neigh
        BY <2>2, <2>3, AddAddrParts
    <2>5. Frame(l, k)
        BY <1>1, <1>5, <1>8, <2>2, <2>4 DEF Frame, TouchesAddr
    <2>6. Applied(l, k)
        <3>1. \A p : <<i, a, p>> \in k.addr <=> p = new \/ (<<i, a, p>> \in kernel.addr /\ p # old)
            BY <2>2, <2>4
        <3>2. QED  BY <1>3, <1>4, <1>5, <3>1
                   DEF Applied, AppliedLink, AppliedAddr, AppliedNeigh
    <2>7. kernel' = k /\ Succeed(l, kernel', scratch)
        BY <1>8, <2>1, <2>3 DEF Succeed
    <2>8. QED  BY <2>5, <2>6, <2>7 DEF Verdict
<1>9. CASE Operation(l) = "MODIFIED" /\ Refuse(DeleteAddr(kernel, i, a, old))
    <2>1. kernel' = DeleteAddr(kernel, i, a, old) /\ Fail /\ refused' = refused + 1
        BY <1>9 DEF Refuse
    <2>2. PICK removed : removed = DeleteAddr(kernel, i, a, old)
        OBVIOUS
    <2>3. Frame(l, removed)
        BY <1>7, <1>9, <2>2
    <2>4. QED  BY <2>1, <2>2, <2>3 DEF Verdict
<1>10. CASE Refuse(kernel)
    <2>1. kernel' = kernel /\ Fail /\ refused' = refused + 1
        BY <1>10 DEF Refuse
    <2>2. QED  BY <2>1, FrameSame DEF Verdict
<1>11. CASE /\ Operation(l) = "MODIFIED"
            /\ <<i, a, new>> \in DeleteAddr(kernel, i, a, old).addr
            /\ Error(DeleteAddr(kernel, i, a, old))
    <2>1. kernel' = DeleteAddr(kernel, i, a, old) /\ Fail /\ refused' = refused
        BY <1>11 DEF Error
    <2>2. PICK removed : removed = DeleteAddr(kernel, i, a, old)
        OBVIOUS
    <2>3. Frame(l, removed)
        BY <1>7, <1>11, <2>2
    <2>4. <<i, a, new>> \in kernel.addr /\ new # old
        BY <1>7, <1>11, <2>2
    <2>5. Reason(l)
        BY <1>1, <1>3, <1>4, <1>11, <2>4 DEF Reason
    <2>6. QED  BY <2>1, <2>2, <2>3, <2>5 DEF Verdict
<1>12. CASE /\ Operation(l) = "MODIFIED" /\ Error(kernel)
            /\ ~(LinkAlive(i) /\ <<i, a, old>> \in kernel.addr)
    <2>1. Reason(l)
        BY <1>1, <1>4, <1>5, <1>12 DEF Reason
    <2>2. kernel' = kernel /\ Fail /\ refused' = refused
        BY <1>12 DEF Error
    <2>3. QED  BY <2>1, <2>2, FrameSame DEF Verdict
<1>13. QED
    BY <1>3, <1>4, <1>6, <1>8, <1>9, <1>10, <1>11, <1>12 DEF ReplaceAddress

\* A neighbour that is created has its link-layer address in the edit, and the
\* getter finds it.
LEMMA CollectedNeighbor ==
    ASSUME IInv, NEW l, NEW keys \in SUBSET Neigh, Handling("neighbor-ip", keys, l),
           NEW f \in Family, NEW s, s = CollectLlAddr(scratch, f, LlAddrXpath(l.if, l.key)),
           Operation(l) = "CREATED"
    PROVE  s[f].lladdr = cand[LlLeaf(l.if, l.key)] /\ s[f].lladdr # NoValue
<1> DEFINE ll == LlLeaf(l.if, l.key)
<1>1. /\ l.if \in Iface /\ l.key \in Neigh /\ scratch = NoScratch
      /\ l = LeafAt("neighbor-ip", l.if, l.key)
    BY HandlerContext, LeafKinds DEF NeighKinds
<1>2. ll \in Leaf /\ LlAddrXpath(l.if, l.key) = {ll}
    BY <1>1, LeafMembers DEF LlAddrXpath, LlLeaf
<1>3. cand[l] # NoValue /\ WellFormed(running) /\ WellFormed(cand)
    BY Operations DEF IInv, TypeOK
<1>4. running[ll] = NoValue
    BY <1>1, <1>3, CreatedNeighbor DEF Exists, LlLeaf
<1>5. cand[ll] # NoValue
    BY <1>1, <1>3 DEF WellFormed, NeighborsOK, Exists, LlLeaf
<1>6. Changed({ll}) = {ll}
    BY <1>4, <1>5, Operations DEF Changed
<1>7. s = [NoScratch EXCEPT ![f] = LlData(NoScratch[f], cand[ll])]
    BY <1>1, <1>2, <1>6 DEF CollectLlAddr
<1>8. s[f].lladdr = cand[ll]
    BY <1>7 DEF NoScratch, LlData
<1>9. QED  BY <1>5, <1>8

\* Creating and deleting a neighbour.
LEMMA ChangeNeighbor_verdict ==
    ASSUME IInv, NEW l, NEW keys \in SUBSET Neigh, Handling("neighbor-ip", keys, l),
           NEW f \in Family, ChangeNeighbor(l, f)
    PROVE  Verdict(l)
<1> DEFINE i == l.if
           n == l.key
<1>1. /\ i \in Iface /\ n \in Neigh /\ l.kind = "neighbor-ip"
      /\ kernel \in Kernel /\ scratch = NoScratch
    BY HandlerContext, LeafKinds DEF NeighKinds
<1>2. PICK s : s = CollectLlAddr(scratch, f, LlAddrXpath(i, n))
    OBVIOUS
<1>3. CASE /\ Operation(l) = "CREATED"
           /\ Request(l, LinkAlive(i) /\ s[f].lladdr # NoValue,
                      CreateNeigh(kernel, i, n, s[f].lladdr), ResetLlAddr(s, f))
    <2>1. PICK v : v = s[f].lladdr
        OBVIOUS
    <2>2. v = cand[LlLeaf(i, n)] /\ v # NoValue
        BY <1>2, <1>3, <2>1, CollectedNeighbor
    <2>3. ResetLlAddr(s, f) = scratch
        BY <1>1, <1>2, CollectedLlAddr
    <2>4. PICK k : k = CreateNeigh(kernel, i, n, v)
        OBVIOUS
    <2>5. /\ \A j, m, w : <<j, m, w>> \in k.neigh <=>
                \/ <<j, m, w>> \in kernel.neigh
                \/ j = i /\ m = n /\ w = v /\ ~HasNeigh(kernel, i, n)
          /\ k.link = kernel.link /\ k.up = kernel.up
          /\ k.mtu = kernel.mtu /\ k.addr = kernel.addr
        <3>1. CASE HasNeigh(kernel, i, n)
            BY <2>4, <3>1 DEF CreateNeigh
        <3>2. CASE ~HasNeigh(kernel, i, n)
            <4>1. k = ReplaceNeigh(kernel, i, n, v)
                BY <2>4, <3>2 DEF CreateNeigh
            <4>2. /\ \A j, m, w : <<j, m, w>> \in k.neigh <=>
                        \/ <<j, m, w>> \in kernel.neigh /\ ~(j = i /\ m = n)
                        \/ j = i /\ m = n /\ w = v
                  /\ k.link = kernel.link /\ k.up = kernel.up
                  /\ k.mtu = kernel.mtu /\ k.addr = kernel.addr
                BY <1>1, <4>1, ReplaceNeighParts
            <4>3. \A w : <<i, n, w>> \notin kernel.neigh
                BY <1>1, <3>2, NeighbourParts
            <4>4. QED  BY <3>2, <4>2, <4>3
        <3>3. QED  BY <3>1, <3>2
    <2>6. Frame(l, k)
        BY <1>1, <2>5 DEF Frame, TouchesNeigh
    <2>7. Applied(l, k)
        BY <1>1, <1>3, <2>2, <2>5
        DEF Applied, AppliedLink, AppliedAddr, AppliedNeigh, SubnetKinds
    <2>8. ~(LinkAlive(i) /\ v # NoValue) => Reason(l)
        BY <1>1, <2>2 DEF Reason, IgnoredKinds
    <2>9. Request(l, LinkAlive(i) /\ v # NoValue, k, ResetLlAddr(s, f))
        BY <1>3, <2>1, <2>4
    <2>10. QED  BY <2>3, <2>6, <2>7, <2>8, <2>9, RequestVerdict
<1>4. CASE /\ Operation(l) = "DELETED"
           /\ Request(l, LinkAlive(i) /\ HasNeigh(kernel, i, n),
                      DeleteNeigh(kernel, i, n), ResetLlAddr(scratch, f))
    <2>1. ResetLlAddr(scratch, f) = scratch
        BY <1>1, ResetNothing
    <2>2. PICK k : k = DeleteNeigh(kernel, i, n)
        OBVIOUS
    <2>3. /\ \A j, m, v : <<j, m, v>> \in k.neigh <=>
                <<j, m, v>> \in kernel.neigh /\ ~(j = i /\ m = n)
          /\ k.link = kernel.link /\ k.up = kernel.up
          /\ k.mtu = kernel.mtu /\ k.addr = kernel.addr
        BY <1>1, <2>2, DeleteNeighParts
    <2>4. Frame(l, k)
        BY <1>1, <2>3 DEF Frame, TouchesNeigh
    <2>5. Applied(l, k)
        BY <1>1, <1>4, <2>3
        DEF Applied, AppliedLink, AppliedAddr, AppliedNeigh, SubnetKinds
    <2>6. ~(LinkAlive(i) /\ HasNeigh(kernel, i, n)) => Reason(l)
        BY <1>1, <1>4 DEF Reason, IgnoredKinds
    <2>7. Request(l, LinkAlive(i) /\ HasNeigh(kernel, i, n), k, ResetLlAddr(scratch, f))
        BY <1>4, <2>2
    <2>8. QED  BY <2>1, <2>4, <2>5, <2>6, <2>7, RequestVerdict
<1>5. QED  BY <1>2, <1>3, <1>4 DEF ChangeNeighbor

\* The link-layer address of a neighbour.
LEMMA ReplaceNeighbor_verdict ==
    ASSUME IInv, NEW l, NEW keys \in SUBSET Neigh, Handling("link-layer-address", keys, l),
           ReplaceNeighbor(l)
    PROVE  Verdict(l)
<1> DEFINE i == l.if
           n == l.key
<1>1. l.kind = "link-layer-address" /\ i \in Iface /\ n \in Neigh /\ kernel \in Kernel
    BY HandlerContext, LeafKinds DEF NeighKinds
<1>2. CASE Operation(l) # "MODIFIED" /\ LookupOnly(l)
    <2>1. Applied(l, kernel)
        BY <1>1, <1>2 DEF Applied, AppliedLink, AppliedAddr, AppliedNeigh, SubnetKinds
    <2>2. ~LinkAlive(i) => Reason(l)
        BY <1>1 DEF Reason, IgnoredKinds
    <2>3. QED  BY <1>2, <2>1, <2>2, LookupVerdict
<1>3. CASE /\ Operation(l) = "MODIFIED"
           /\ Request(l, LinkAlive(i) /\ HasNeigh(kernel, i, n),
                      ReplaceNeigh(kernel, i, n, cand[l]), scratch)
    <2>1. PICK k : k = ReplaceNeigh(kernel, i, n, cand[l])
        OBVIOUS
    <2>2. /\ \A j, m, v : <<j, m, v>> \in k.neigh <=>
                \/ <<j, m, v>> \in kernel.neigh /\ ~(j = i /\ m = n)
                \/ j = i /\ m = n /\ v = cand[l]
          /\ k.link = kernel.link /\ k.up = kernel.up
          /\ k.mtu = kernel.mtu /\ k.addr = kernel.addr
        BY <1>1, <2>1, ReplaceNeighParts
    <2>3. Frame(l, k)
        BY <1>1, <1>3, <2>2 DEF Frame, TouchesNeigh
    <2>4. Applied(l, k)
        BY <1>1, <1>3, <2>2
        DEF Applied, AppliedLink, AppliedAddr, AppliedNeigh, SubnetKinds
    <2>5. ~(LinkAlive(i) /\ HasNeigh(kernel, i, n)) => Reason(l)
        BY <1>1, <1>3 DEF Reason, IgnoredKinds
    <2>6. Request(l, LinkAlive(i) /\ HasNeigh(kernel, i, n), k, scratch)
        BY <1>3, <2>1
    <2>7. QED  BY <2>3, <2>4, <2>5, <2>6, RequestVerdict
<1>4. QED  BY <1>2, <1>3 DEF ReplaceNeighbor

\* Every handler makes its change, is refused, or fails for one of the reasons
\* above, and touches nothing else.
LEMMA HandleVerdict ==
    ASSUME IInv, NEW l, Handle(l)
    PROVE  Verdict(l)
<1>1. CASE \/ change_name(l) \/ change_description(l) \/ change_type(l) \/ change_enabled(l)
           \/ change_link_up_down_trap_enable(l)
           \/ ipv4_change_mtu(l) \/ ipv4_change_enabled(l)
    BY <1>1, change_name_verdict, change_ignored_verdict, change_type_verdict,
       change_enabled_verdict, ipv4_change_mtu_verdict, ipv4_change_enabled_verdict
<1>2. CASE ipv4_address_change_ip(l) \/ ipv6_address_change_ip(l)
    BY <1>2, ipv4_address_change_ip_verdict, ipv6_address_change_ip_verdict
<1>3. CASE \/ ipv4_address_change_prefix_length(l) \/ ipv4_address_change_netmask(l)
           \/ ipv6_address_change_prefix_length(l)
    BY <1>3, ReplaceAddress_verdict
    DEF ipv4_address_change_prefix_length, ipv4_address_change_netmask,
        ipv6_address_change_prefix_length, SubnetKinds
<1>4. CASE ipv4_neighbor_change_ip(l) \/ ipv6_neighbor_change_ip(l)
    BY <1>4, ChangeNeighbor_verdict
    DEF ipv4_neighbor_change_ip, ipv6_neighbor_change_ip, Neigh, Family
<1>5. CASE \/ ipv4_neighbor_change_link_layer_address(l)
           \/ ipv6_neighbor_change_link_layer_address(l)
    BY <1>5, ReplaceNeighbor_verdict
    DEF ipv4_neighbor_change_link_layer_address, ipv6_neighbor_change_link_layer_address, Neigh
<1>6. QED  BY <1>1, <1>2, <1>3, <1>4, <1>5 DEF Handle

-----------------------------------------------------------------------------
(* What an edit leaves alone                                               *)

\* What every handler starts from, whichever it is.
LEMMA HandleContext ==
    ASSUME IInv, NEW l, Handle(l)
    PROVE  /\ event = "change" /\ nl.open /\ l \in todo
           /\ UNCHANGED <<running, cand, phase, instep, external>>
           /\ l \in Leaf /\ l \in Changed(Leaf) /\ Operation(l) # "NONE"
           /\ l.if \in Iface /\ l = LeafAt(l.kind, l.if, l.key)
           /\ l.kind \in IfKinds => l.key = NoKey
<1>1. \E kind, keys : Handling(kind, keys, l)
    BY DEF Handle, change_name, change_description, change_type, change_enabled,
       change_link_up_down_trap_enable, ipv4_change_mtu, ipv4_change_enabled,
       ipv4_address_change_ip, ipv4_address_change_prefix_length,
       ipv4_address_change_netmask, ipv4_neighbor_change_ip,
       ipv4_neighbor_change_link_layer_address, ipv6_address_change_ip,
       ipv6_address_change_prefix_length, ipv6_neighbor_change_ip,
       ipv6_neighbor_change_link_layer_address
<1>2. /\ event = "change" /\ nl.open /\ l \in todo
      /\ UNCHANGED <<running, cand, phase, instep, external>>
    BY <1>1 DEF Handling
<1>3. l \in Leaf /\ l \in Changed(Leaf) /\ Operation(l) # "NONE"
    BY <1>2 DEF IInv, TypeOK, ContextClean, Changed
<1>4. QED  BY <1>2, <1>3, LeafKinds

\* An interface that stays is not among the changes.
LEMMA NameKept ==
    ASSUME WellFormed(running), WellFormed(cand), NEW i \in Iface,
           Exists(running, "name", i, NoKey), Exists(cand, "name", i, NoKey)
    PROVE  Operation(NameLeaf(i)) = "NONE"
<1>1. NameLeaf(i) \in Leaf /\ NameLeaf(i).kind = "name" /\ NameLeaf(i).if = i
    BY LeafMembers DEF NameLeaf, IfKinds, LeafAt
<1>2. LeafValue(NameLeaf(i)) = {i}
    BY <1>1 DEF LeafValue, IgnoredKinds
<1>3. /\ running[NameLeaf(i)] \in {i} \cup {NoValue} /\ running[NameLeaf(i)] # NoValue
      /\ cand[NameLeaf(i)] \in {i} \cup {NoValue} /\ cand[NameLeaf(i)] # NoValue
    BY <1>1, <1>2 DEF WellFormed, Config, Exists, NameLeaf
<1>4. QED  BY <1>3, Operations

\* What of the running configuration has to be in kernel k for interface i.
Survivors(i, k) ==
    /\ k.link[i] # Gone
    /\ Unchanged("enabled", i, NoKey) => k.up[i] = running[LeafAt("enabled", i, NoKey)]
    /\ \A a \in Addr :
          /\ Exists(running, "ip", i, a) /\ Exists(cand, "ip", i, a)
          /\ SubnetUnchanged(i, a)
          /\ a \in Addr4 \/ Unchanged("enabled", i, NoKey)
          => AddrRealized(k, running, i, a)
    /\ \A n \in Neigh :
          /\ Exists(running, "neighbor-ip", i, n)
          /\ Unchanged("neighbor-ip", i, n)
          /\ Unchanged("link-layer-address", i, n)
          /\ Unchanged("enabled", i, NoKey)
          => NeighRealized(k, running, i, n)

Stays(i) == Exists(running, "name", i, NoKey) /\ Exists(cand, "name", i, NoKey)

\* The handler of a changed leaf does not touch what the edit does not change.
LEMMA FrameSurvivors ==
    ASSUME IInv, NEW l \in Changed(Leaf), NEW k, Frame(l, k),
           NEW i \in Iface, Stays(i), Survivors(i, kernel)
    PROVE  Survivors(i, k)
<1>1. /\ l \in Leaf /\ Operation(l) # "NONE" /\ l = LeafAt(l.kind, l.if, l.key)
      /\ l.kind \in IfKinds => l.key = NoKey
      /\ l.kind = "netmask" => l.key \in Addr4
    BY LeafKinds DEF Changed
<1>2. WellFormed(running) /\ WellFormed(cand)
    BY DEF IInv, TypeOK
<1>3. ~(l.if = i /\ l.kind = "name")
    BY <1>1, <1>2, NameKept DEF Stays, NameLeaf, IfKinds
<1>4. Unchanged("enabled", i, NoKey) => ~(l.if = i /\ l.kind = "enabled")
    BY <1>1 DEF Unchanged, IfKinds
<1>5. k.link[i] # Gone
    BY <1>3 DEF Frame, Survivors
<1>6. Unchanged("enabled", i, NoKey) => k.up[i] = running[LeafAt("enabled", i, NoKey)]
    BY <1>3, <1>4 DEF Frame, TouchesState, DeletesLink, Survivors
<1>7. ASSUME NEW a \in Addr, Exists(running, "ip", i, a), Exists(cand, "ip", i, a),
             SubnetUnchanged(i, a), a \in Addr4 \/ Unchanged("enabled", i, NoKey)
      PROVE  AddrRealized(k, running, i, a)
    <2>1. ~(l.if = i /\ l.kind = "ip" /\ l.key = a)
        <3>1. LeafAt("ip", i, a) \in Leaf /\ LeafAt("ip", i, a).kind = "ip"
              /\ LeafAt("ip", i, a).key = a
            BY LeafMembers DEF LeafAt
        <3>2. running[LeafAt("ip", i, a)] = a /\ cand[LeafAt("ip", i, a)] = a
            BY <1>2, <1>7, <3>1 DEF WellFormed, Config, LeafValue, Exists
        <3>3. QED  BY <1>1, <3>2, Operations
    <2>2. ~(l.if = i /\ l.kind \in SubnetKinds /\ l.key = a)
        BY <1>1, <1>7 DEF SubnetUnchanged, Unchanged, SubnetKinds
    <2>3. ~(l.if = i /\ l.kind = "enabled" /\ a \in Addr6)
        BY <1>4, <1>7, KeyAssumption
    <2>4. ~TouchesAddr(l, i, a)
        BY <1>3, <2>1, <2>2, <2>3 DEF TouchesAddr, DeletesLink
    <2>5. AddrRealized(kernel, running, i, a)
        BY <1>7 DEF Survivors
    <2>6. QED  BY <2>4, <2>5 DEF Frame, AddrRealized
<1>8. ASSUME NEW n \in Neigh, Exists(running, "neighbor-ip", i, n),
             Unchanged("neighbor-ip", i, n), Unchanged("link-layer-address", i, n),
             Unchanged("enabled", i, NoKey)
      PROVE  NeighRealized(k, running, i, n)
    <2>1. ~TouchesNeigh(l, i, n)
        BY <1>1, <1>3, <1>4, <1>8 DEF TouchesNeigh, DeletesLink, Unchanged
    <2>2. NeighRealized(kernel, running, i, n)
        BY <1>8 DEF Survivors
    <2>3. QED  BY <2>1, <2>2 DEF Frame, NeighRealized
<1>9. QED  BY <1>5, <1>6, <1>7, <1>8 DEF Survivors

\* A kernel in step with the running datastore has all of it.
LEMMA InStepSurvivors ==
    ASSUME NEW k, InStep(k, running), NEW i \in Iface, Exists(running, "name", i, NoKey)
    PROVE  /\ k.link[i] # Gone
           /\ k.up[i] = running[LeafAt("enabled", i, NoKey)]
           /\ \A a \in Addr : Exists(running, "ip", i, a) => AddrRealized(k, running, i, a)
           /\ \A n \in Neigh :
                 Exists(running, "neighbor-ip", i, n) => NeighRealized(k, running, i, n)
    BY DEF InStep, Realizes, LinkRealized

\* A step of others is counted.
LEMMA OthersCount ==
    ASSUME IInv, Others
    PROVE  external' # 0 /\ UNCHANGED <<running, cand, event, refused>>
<1>1. external \in Nat
    BY ChangeAssumption DEF IInv, TypeOK
<1>2. external' = external + 1 /\ UNCHANGED <<running, cand, event, refused>>
    BY DEF Others, ExternalLink, ExternalAddr, External
<1>3. QED  BY <1>1, <1>2

\* UntouchedEntriesSurvive is preserved by every step.
LEMMA UntouchedStep == IInv /\ UntouchedEntriesSurvive /\ [Next]_vars => UntouchedEntriesSurvive'
<1> SUFFICES ASSUME IInv, UntouchedEntriesSurvive, [Next]_vars
             PROVE  UntouchedEntriesSurvive'
    OBVIOUS
<1>1. ASSUME UNCHANGED <<running, cand, instep, external>>, event # "idle",
             \A i \in Iface : Stays(i) /\ Survivors(i, kernel) => Survivors(i, kernel')
      PROVE  UntouchedEntriesSurvive'
    <2> SUFFICES ASSUME instep, external = 0, NEW i \in Iface, Stays(i)
                 PROVE  Survivors(i, kernel)'
        BY <1>1 DEF UntouchedEntriesSurvive, Stays, Exists, Survivors
    <2>1. Survivors(i, kernel)
        BY <1>1 DEF UntouchedEntriesSurvive, Stays, Survivors
    <2>2. Survivors(i, kernel')
        BY <1>1, <2>1
    <2>3. \A kind, key : Unchanged(kind, i, key)' <=> Unchanged(kind, i, key)
        BY <1>1 DEF Unchanged, Operation
    <2>4. \A a : SubnetUnchanged(i, a)' <=> SubnetUnchanged(i, a)
        BY <2>3 DEF SubnetUnchanged
    <2>5. QED  BY <1>1, <2>2, <2>3, <2>4
               DEF Survivors, Exists, AddrRealized, NeighRealized, PrefixOf
<1>2. CASE \E l \in todo : Handle(l)
    <2>1. PICK l \in todo : Handle(l)
        BY <1>2
    <2>2. l \in Changed(Leaf) /\ event # "idle" /\ UNCHANGED <<running, cand, instep, external>>
        BY <2>1, HandleContext
    <2>3. Frame(l, kernel')
        BY <2>1, HandleVerdict DEF Verdict
    <2>4. \A i \in Iface : Stays(i) /\ Survivors(i, kernel) => Survivors(i, kernel')
        BY <2>2, <2>3, FrameSurvivors
    <2>5. QED  BY <1>1, <2>2, <2>4
<1>3. CASE StartPhase \/ FinishPhase \/ ReturnOK \/ AbortEvent
    <2>1. UNCHANGED <<running, cand, instep, external, kernel>> /\ event # "idle"
        BY <1>3 DEF StartPhase, FinishPhase, ReturnOK, AbortEvent
    <2>2. QED  BY <1>1, <2>1
<1>4. CASE DoneEvent \/ DropEdit
    BY <1>4 DEF DoneEvent, DropEdit, UntouchedEntriesSurvive
<1>5. CASE ApplyChanges
    <2> SUFFICES ASSUME instep', NEW i \in Iface, Exists(running, "name", i, NoKey)'
                 PROVE  Survivors(i, kernel)'
        BY DEF UntouchedEntriesSurvive, Survivors
    <2>1. kernel' = kernel /\ running' = running /\ InStep(kernel, running)
        BY <1>5 DEF ApplyChanges
    <2>2. Exists(running, "name", i, NoKey)
        BY <2>1 DEF Exists
    <2>3. /\ kernel.link[i] # Gone
          /\ kernel.up[i] = running[LeafAt("enabled", i, NoKey)]
          /\ \A a \in Addr : Exists(running, "ip", i, a) => AddrRealized(kernel, running, i, a)
          /\ \A n \in Neigh :
                Exists(running, "neighbor-ip", i, n) => NeighRealized(kernel, running, i, n)
        BY <2>1, <2>2, InStepSurvivors
    <2>4. (kernel.link[i] # Gone)' /\ (kernel.up[i] = running[LeafAt("enabled", i, NoKey)])'
        BY <2>1, <2>3
    <2>5. \A a \in Addr : Exists(running, "ip", i, a)' => AddrRealized(kernel, running, i, a)'
        BY <2>1, <2>3 DEF Exists, AddrRealized, PrefixOf
    <2>6. \A n \in Neigh :
             Exists(running, "neighbor-ip", i, n)' => NeighRealized(kernel, running, i, n)'
        BY <2>1, <2>3 DEF Exists, NeighRealized
    <2>7. QED  BY <2>4, <2>5, <2>6 DEF Survivors
<1>6. CASE Others
    <2>1. external' # 0
        BY <1>6, OthersCount
    <2>2. QED  BY <2>1 DEF UntouchedEntriesSurvive
<1>7. CASE UNCHANGED vars
    <2>1. CASE event = "idle"
        BY <1>7, <2>1 DEF vars, UntouchedEntriesSurvive
    <2>2. CASE event # "idle"
        BY <1>1, <1>7, <2>2 DEF vars
    <2>3. QED  BY <2>1, <2>2
<1>8. QED  BY <1>2, <1>3, <1>4, <1>5, <1>6, <1>7 DEF Next, Callback, Sysrepo

\* However an edit ends, in the middle of a phase and after a refused request
\* included, what it does not change is still in the kernel.
THEOREM UntouchedSurvives == Spec => []UntouchedEntriesSurvive
<1>1. Init => UntouchedEntriesSurvive
    BY DEF Init, UntouchedEntriesSurvive
<1>2. QED  BY <1>1, UntouchedStep, Invariance, PTL DEF Spec

-----------------------------------------------------------------------------
(* How far the event is                                                    *)

\* The leaves waiting belong to the phase, and an edit is accepted only after
\* the last one.
PhaseInv ==
    /\ todo \subseteq Leaf \cap PhaseLeaves(phase)
    /\ event = "applied" => phase = 17

\* As long as nobody interferes the cached links are those of the kernel,
\* except the ones the phase of the names has created or deleted itself.
CacheInv ==
    external = 0 /\ nl.open =>
        /\ \A i \in Iface : \/ nl.link[i] = kernel.link[i]
                            \/ phase = 1 /\ NameLeaf(i) \notin todo
        /\ OtherAddr => nl.anyAddr

PInv == IInv /\ PhaseInv /\ CacheInv

\* What a handler finds, besides its leaf.
LEMMA HandlerProgress ==
    ASSUME PInv, NEW l, Handle(l)
    PROVE  /\ phase = PhaseOf(l) /\ phase \in 1..16 /\ ~Done(l)
           /\ l.kind = "name" <=> phase = 1
           /\ external = 0 => /\ nl.link[l.if] = kernel.link[l.if]
                              /\ OtherAddr => nl.anyAddr
<1>1. l \in Leaf /\ l \in todo /\ nl.open /\ l.if \in Iface
      /\ l = LeafAt(l.kind, l.if, l.key) /\ (l.kind \in IfKinds => l.key = NoKey)
    BY HandleContext DEF PInv
<1>2. phase \in 1..16
    BY <1>1, PhasesLength DEF PInv, IInv, TypeOK, ContextClean
<1>3. phase = PhaseOf(l)
    BY <1>1, <1>2, OnePhase DEF PInv, PhaseInv
<1>4. ~Done(l)
    BY <1>1, <1>2, <1>3 DEF Done
<1>5. l.kind = "name" <=> phase = 1
    <2>1. l.kind = "name" => PhaseOf(l) = 1
        BY DEF PhaseOf
    <2>2. PhaseOf(l) = 1 => l.kind = "name"
        <3>1. PhaseOf(l) = 1 => l \in PhaseLeaves(1)
            BY <1>1, OnePhase
        <3>2. Phases[1].kind = "name"
            BY PhaseTable DEF Phase
        <3>3. QED  BY <3>1, <3>2 DEF PhaseLeaves
    <2>3. QED  BY <1>3, <2>1, <2>2
<1>6. ASSUME external = 0
      PROVE  nl.link[l.if] = kernel.link[l.if] /\ (OtherAddr => nl.anyAddr)
    <2>1. phase = 1 => l = NameLeaf(l.if)
        BY <1>1, <1>5 DEF NameLeaf, IfKinds
    <2>2. QED  BY <1>1, <1>6, <2>1 DEF PInv, CacheInv
<1>7. QED  BY <1>2, <1>3, <1>4, <1>5, <1>6

\* A handler that succeeds is done with its leaf, and only with that one.
LEMMA SucceedDone ==
    ASSUME PInv, NEW l, Handle(l), NEW k, NEW s, Succeed(l, k, s), NEW m \in Changed(Leaf)
    PROVE  Done(m)' <=> Done(m) \/ m = l
<1>1. phase' = phase /\ nl' = nl /\ todo' = todo \ {l} /\ nl.open
    BY HandleContext DEF PInv, Succeed
<1>2. phase = PhaseOf(l) /\ phase \in 1..16
    BY HandlerProgress
<1>3. PhaseOf(m) \in 1..16
    BY OnePhase DEF Changed
<1>4. QED  BY <1>1, <1>2, <1>3 DEF Done

\* Entering a phase, leaving it and returning are no progress.
LEMMA QuietDone ==
    ASSUME PInv, NEW m \in Changed(Leaf),
           (StartPhase /\ event' = "change") \/ FinishPhase \/ ReturnOK
    PROVE  Done(m)' <=> Done(m)
<1>1. m \in Leaf /\ PhaseOf(m) \in 1..16
    BY OnePhase DEF Changed
<1>2. phase \in 1..17
    BY PhasesLength DEF PInv, IInv, TypeOK
<1>3. CASE StartPhase /\ event' = "change"
    <2>1. /\ phase' = phase /\ phase \in 1..16 /\ ~nl.open
          /\ todo' = Changed(PhaseLeaves(phase)) /\ nl'.open
        BY <1>2, <1>3, PhasesLength DEF StartPhase, Fail
    <2>2. PhaseOf(m) = phase => m \in PhaseLeaves(phase)
        BY <1>1, <2>1, OnePhase
    <2>3. PhaseOf(m) = phase => m \in todo'
        BY <2>1, <2>2 DEF Changed
    <2>4. QED  BY <1>1, <2>1, <2>3 DEF Done
<1>4. CASE FinishPhase
    <2>1. phase' = phase + 1 /\ nl.open /\ todo = {} /\ ~nl'.open
        BY <1>4, NoSnapshotType DEF FinishPhase
    <2>2. QED  BY <1>1, <1>2, <2>1 DEF Done
<1>5. CASE ReturnOK
    BY <1>5 DEF ReturnOK, Done
<1>6. QED  BY <1>3, <1>4, <1>5

\* When the event begins, nothing is done.
LEMMA ApplyDone ==
    ASSUME PInv, ApplyChanges, NEW m \in Leaf
    PROVE  ~Done(m)'
<1>1. phase' = 1 /\ nl' = nl /\ ~nl.open
    BY DEF ApplyChanges, PInv, IInv, ContextClean
<1>2. PhaseOf(m) \in 1..16
    BY OnePhase
<1>3. QED  BY <1>1, <1>2 DEF Done

\* When the edit is accepted, everything is done.
LEMMA AppliedDone ==
    ASSUME PInv, event = "applied", NEW m \in Leaf
    PROVE  Done(m)
<1>1. phase = 17 /\ PhaseOf(m) \in 1..16
    BY OnePhase DEF PInv, PhaseInv
<1>2. QED  BY <1>1 DEF Done

\* Once a handler fails, its event is over.
LEMMA FailedHandler ==
    ASSUME Fail
    PROVE  event' = "failed" /\ todo' = {} /\ ~nl'.open
    BY NoSnapshotType DEF Fail

\* PhaseInv and CacheInv hold in every state.
LEMMA PInvStep == PInv /\ [Next]_vars => PInv'
<1> SUFFICES ASSUME PInv, [Next]_vars PROVE PInv'
    OBVIOUS
<1>1. IInv'
    BY NextIInv DEF PInv
<1>3. ASSUME NEW l, Handle(l) PROVE PhaseInv' /\ CacheInv'
    <2>1. phase' = phase /\ event = "change" /\ external' = external /\ nl.open
        BY <1>3, HandleContext DEF PInv
    <2>2. Verdict(l)
        BY <1>3, HandleVerdict DEF PInv
    <2>3. CASE Fail
        BY <2>3, FailedHandler DEF PhaseInv, CacheInv
    <2>4. CASE Succeed(l, kernel', scratch)
        <3>1. event' = event /\ nl' = nl /\ todo' = todo \ {l}
            BY <2>4 DEF Succeed
        <3>2. PhaseInv'
            BY <2>1, <3>1 DEF PInv, PhaseInv, PhaseLeaves
        <3>3. ASSUME NEW i \in Iface, external = 0
              PROVE  nl.link[i] = kernel'.link[i] \/ (phase = 1 /\ NameLeaf(i) \notin todo')
            <4>1. nl.link[i] = kernel.link[i] \/ (phase = 1 /\ NameLeaf(i) \notin todo)
                BY <2>1, <3>3 DEF PInv, CacheInv
            <4>2. CASE l.if = i /\ l.kind = "name"
                <5>1. phase = 1
                    BY <1>3, <4>2, HandlerProgress
                <5>2. l = NameLeaf(i)
                    BY <1>3, <4>2, HandleContext DEF PInv, NameLeaf, IfKinds
                <5>3. QED  BY <3>1, <5>1, <5>2
            <4>3. CASE ~(l.if = i /\ l.kind = "name")
                BY <2>2, <3>1, <4>1, <4>3 DEF Verdict, Frame
            <4>4. QED  BY <4>2, <4>3
        <3>4. CacheInv'
            BY <2>1, <3>1, <3>3 DEF PInv, CacheInv
        <3>5. QED  BY <3>2, <3>4
    <2>5. QED  BY <2>2, <2>3, <2>4 DEF Verdict
<1>4. CASE StartPhase
    <2>1. phase' = phase /\ kernel' = kernel /\ event = "change"
        BY <1>4 DEF StartPhase
    <2>2. CASE Fail
        BY <1>1, <2>2, FailedHandler DEF PInv, PhaseInv, CacheInv
    <2>3. CASE /\ nl' = [open |-> TRUE, link |-> kernel.link,
                         anyAddr |-> OtherAddr \/ kernel.addr # {}]
               /\ todo' = Changed(PhaseLeaves(phase))
               /\ event' = event
        <3>1. todo' \subseteq Leaf \cap PhaseLeaves(phase)
            BY <2>3 DEF Changed, PhaseLeaves
        <3>2. PhaseInv'
            BY <2>1, <2>3, <3>1 DEF PhaseInv, PhaseLeaves
        <3>3. nl'.link = kernel'.link /\ (OtherAddr => nl'.anyAddr)
            BY <2>1, <2>3
        <3>4. CacheInv'
            BY <3>3 DEF CacheInv
        <3>5. QED  BY <1>1, <3>2, <3>4 DEF PInv
    <2>4. QED  BY <1>4, <2>2, <2>3 DEF StartPhase
<1>5. CASE FinishPhase
    <2>1. event' = "change" /\ todo' = {} /\ ~nl'.open
        BY <1>5, NoSnapshotType DEF FinishPhase
    <2>2. QED  BY <1>1, <2>1 DEF PInv, PhaseInv, CacheInv
<1>6. CASE ReturnOK
    <2>1. phase = 17 /\ phase' = phase /\ todo' = todo /\ nl' = nl
        BY <1>6, PhasesLength DEF ReturnOK, PInv, IInv, TypeOK
    <2>2. ~nl.open
        BY <2>1, PhasesLength DEF PInv, IInv, ContextClean
    <2>3. QED  BY <1>1, <2>1, <2>2 DEF PInv, PhaseInv, PhaseLeaves, CacheInv
<1>7. CASE Sysrepo
    <2>1. event # "change" /\ UNCHANGED <<todo, nl, kernel>> /\ event' # "applied"
        BY <1>7 DEF Sysrepo, ApplyChanges, DoneEvent, AbortEvent, DropEdit
    <2>2. ~nl.open /\ todo = {}
        BY <2>1 DEF PInv, IInv, ContextClean
    <2>3. QED  BY <1>1, <2>1, <2>2 DEF PInv, PhaseInv, CacheInv
<1>8. CASE Others
    <2>1. external' # 0 /\ event' = event
        BY <1>8, OthersCount DEF PInv
    <2>2. UNCHANGED <<phase, todo>>
        BY <1>8 DEF Others, ExternalLink, ExternalAddr, External
    <2>3. QED  BY <1>1, <2>1, <2>2 DEF PInv, PhaseInv, PhaseLeaves, CacheInv
<1>9. CASE UNCHANGED vars
    BY <1>1, <1>9 DEF PInv, PhaseInv, PhaseLeaves, CacheInv, vars
<1>10. QED
    BY <1>1, <1>3, <1>4, <1>5, <1>6, <1>7, <1>8, <1>9 DEF Next, Callback, PInv

\* At the start there is no event.
LEMMA InitPInv == Init => PInv
<1>1. Init => PhaseInv /\ CacheInv
    BY NoSnapshotType DEF Init, PhaseInv, CacheInv
<1>2. QED  BY <1>1, InitIInv DEF PInv

-----------------------------------------------------------------------------
(* Retrying an edit                                                        *)

\* A name whose creation is done has its link, unless others took it away.
CreatedInv ==
    external = 0 /\ event = "change" =>
        \A i \in Iface : Operation(NameLeaf(i)) = "CREATED" /\ Done(NameLeaf(i))
                         => kernel.link[i] # Gone

RInv == PInv /\ CreatedInv /\ LinkEditRetryable

\* A name is a leaf, of the first phase.
LEMMA NameLeafFacts ==
    ASSUME NEW i \in Iface
    PROVE  /\ NameLeaf(i) \in Leaf /\ PhaseOf(NameLeaf(i)) = 1
           /\ NameLeaf(i).kind = "name" /\ NameLeaf(i).if = i
           /\ Operation(NameLeaf(i)) # "NONE" => NameLeaf(i) \in Changed(Leaf)
<1>1. NameLeaf(i) \in Leaf
    BY LeafMembers DEF NameLeaf, IfKinds
<1>2. NameLeaf(i).kind = "name" /\ NameLeaf(i).if = i
    BY DEF NameLeaf, LeafAt
<1>3. PhaseOf(NameLeaf(i)) = 1
    BY <1>2 DEF PhaseOf
<1>4. QED  BY <1>1, <1>2, <1>3 DEF Changed

\* After a handler that succeeds.
LEMMA CreatedHandler ==
    ASSUME RInv, NEW l, Handle(l), Succeed(l, kernel', scratch), Verdict(l),
           Applied(l, kernel'), external = 0,
           NEW i \in Iface, Operation(NameLeaf(i)) = "CREATED", Done(NameLeaf(i))'
    PROVE  kernel'.link[i] # Gone
<1>1. PInv /\ l \in Leaf /\ event = "change" /\ l = LeafAt(l.kind, l.if, l.key)
      /\ (l.kind \in IfKinds => l.key = NoKey)
    BY HandleContext DEF RInv, PInv
<1>2. NameLeaf(i) \in Changed(Leaf)
    BY NameLeafFacts
<1>3. Done(NameLeaf(i)) \/ NameLeaf(i) = l
    BY <1>1, <1>2, SucceedDone
<1>4. CASE NameLeaf(i) = l
    <2>1. l.kind = "name" /\ l.if = i /\ Operation(l) = "CREATED"
        BY <1>4, NameLeafFacts
    <2>2. kernel'.link[i] # Gone \/ (InCache(i) /\ kernel' = kernel)
        BY <2>1 DEF Applied, AppliedLink
    <2>3. nl.link[i] = kernel.link[i]
        BY <1>1, <2>1, HandlerProgress
    <2>4. QED  BY <2>2, <2>3 DEF InCache
<1>5. CASE NameLeaf(i) # l
    <2>1. ~(l.if = i /\ l.kind = "name")
        BY <1>1, <1>5 DEF NameLeaf, IfKinds
    <2>2. kernel.link[i] # Gone
        BY <1>1, <1>3, <1>5 DEF RInv, CreatedInv
    <2>3. QED  BY <2>1, <2>2 DEF Verdict, Frame
<1>6. QED  BY <1>4, <1>5

\* A handler that fails with nobody interfering was not called for a link edit.
LEMMA FailedLinkEdit ==
    ASSUME RInv, NEW l, Handle(l), Fail, refused' = refused, Reason(l), Frame(l, kernel'),
           Alone, LinkEdit'
    PROVE  FALSE
<1>1. /\ PInv /\ l \in Leaf /\ l \in Changed(Leaf) /\ event = "change" /\ nl.open
      /\ l.if \in Iface /\ UNCHANGED <<running, cand, external>>
    BY HandleContext DEF RInv, PInv
<1>2. Changed(Leaf)' = Changed(Leaf) /\ \A m : Operation(m)' = Operation(m)
    BY <1>1 DEF Changed, Operation
<1>3. /\ l.kind \in {"name", "type", "enabled"} \cup IgnoredKinds
      /\ Operation(l) # "DELETED"
      /\ l.kind = "type" => cand[l] \in HandledTypes
      /\ Operation(LeafAt("name", l.if, NoKey)) = "CREATED" \/ kernel'.link[l.if] # Gone
    BY <1>1, <1>2 DEF LinkEdit
<1>4. l.kind \in {"type", "enabled"} /\ ~LinkAlive(l.if)
    BY <1>3 DEF Reason, SubnetKinds, IgnoredKinds
<1>5. external = 0 /\ nl.link[l.if] = kernel.link[l.if] /\ phase \in 1..16 /\ phase # 1
    BY <1>1, <1>4, HandlerProgress DEF Alone
<1>6. kernel.link[l.if] # Gone
    <2>1. CASE Operation(NameLeaf(l.if)) = "CREATED"
        <3>1. Done(NameLeaf(l.if))
            BY <1>1, <1>5, NameLeafFacts DEF Done
        <3>2. QED  BY <1>1, <1>5, <2>1, <3>1 DEF RInv, CreatedInv
    <2>2. CASE kernel'.link[l.if] # Gone
        BY <1>1, <1>4, <2>2 DEF Frame
    <2>3. QED  BY <1>3, <2>1, <2>2 DEF NameLeaf
<1>7. QED  BY <1>4, <1>5, <1>6 DEF LinkAlive, InCache

\* Where the two say nothing.
LEMMA NothingToRetry ==
    /\ event' # "change" \/ external' # 0 => CreatedInv'
    /\ event' # "failed" \/ external' # 0 \/ refused' # 0 => LinkEditRetryable'
<1>1. event' # "change" \/ external' # 0 => CreatedInv'
    BY Zenon DEF CreatedInv
<1>2. event' # "failed" \/ external' # 0 \/ refused' # 0 => LinkEditRetryable'
    BY Zenon DEF LinkEditRetryable, Alone
<1>3. QED  BY <1>1, <1>2

\* Every step preserves that link edits can be retried.
LEMMA RetryStep ==
    ASSUME RInv, [Next]_vars
    PROVE  CreatedInv' /\ LinkEditRetryable'
<1>1. PInv /\ PInv' /\ CreatedInv /\ LinkEditRetryable
    BY PInvStep DEF RInv
<1>2. refused \in Nat
    BY <1>1, ChangeAssumption DEF PInv, IInv, TypeOK
<1>3. ASSUME NEW l, Handle(l) PROVE CreatedInv' /\ LinkEditRetryable'
    <2>1. UNCHANGED <<running, cand, external>> /\ event = "change"
        BY <1>1, <1>3, HandleContext DEF PInv
    <2>2. Verdict(l)
        BY <1>1, <1>3, HandleVerdict DEF PInv
    <2>3. CASE Succeed(l, kernel', scratch) /\ Applied(l, kernel')
        <3>1. event' = "change"
            BY <2>1, <2>3 DEF Succeed
        <3>2. ASSUME external = 0, NEW i \in Iface, Operation(NameLeaf(i)) = "CREATED",
                     Done(NameLeaf(i))'
              PROVE  kernel'.link[i] # Gone
            BY <1>3, <2>2, <2>3, <3>2, CreatedHandler
        <3>3. \A m : Operation(m)' = Operation(m)
            BY <2>1 DEF Operation
        <3>4. CreatedInv'
            BY <2>1, <3>2, <3>3 DEF CreatedInv
        <3>5. QED  BY <3>1, <3>4, NothingToRetry
    <2>4. CASE Fail /\ refused' = refused + 1
        <3>1. event' = "failed" /\ refused' # 0
            BY <1>2, <2>4, FailedHandler
        <3>2. QED  BY <3>1, NothingToRetry
    <2>5. CASE Fail /\ refused' = refused /\ Reason(l)
        <3>1. event' = "failed"
            BY <2>5, FailedHandler
        <3>2. Alone' => Alone
            BY <2>1, <2>5 DEF Alone
        <3>3. ~(Alone' /\ LinkEdit')
            BY <1>3, <2>2, <2>5, <3>2, FailedLinkEdit DEF Verdict
        <3>4. LinkEditRetryable'
            BY <3>3, Zenon DEF LinkEditRetryable
        <3>5. QED  BY <3>1, <3>4, NothingToRetry
    <2>6. QED  BY <2>2, <2>3, <2>4, <2>5 DEF Verdict
<1>4. CASE StartPhase \/ FinishPhase \/ ReturnOK
    <2>1. UNCHANGED <<running, cand, external, kernel>> /\ event = "change"
        BY <1>4 DEF StartPhase, FinishPhase, ReturnOK
    <2>2. CASE event' = "change"
        <3>1. \A m : Operation(m)' = Operation(m)
            BY <2>1 DEF Operation
        <3>2. \A m \in Changed(Leaf) : Done(m)' <=> Done(m)
            BY <1>1, <1>4, <2>2, QuietDone
        <3>3. \A i \in Iface : Operation(NameLeaf(i)) = "CREATED" =>
                                  (Done(NameLeaf(i))' <=> Done(NameLeaf(i)))
            BY <3>2, NameLeafFacts
        <3>4. CreatedInv'
            BY <1>1, <2>1, <2>2, <3>1, <3>3 DEF CreatedInv
        <3>5. QED  BY <2>2, <3>4, NothingToRetry
    <2>3. CASE event' # "change"
        <3>1. CASE StartPhase
            <4>1. refused' = refused + 1
                BY <2>1, <2>3, <3>1, Zenon DEF StartPhase
            <4>2. QED  BY <1>2, <2>3, <4>1, NothingToRetry
        <3>2. CASE FinishPhase \/ ReturnOK
            <4>1. event' # "failed"
                BY <2>1, <3>2 DEF FinishPhase, ReturnOK
            <4>2. QED  BY <2>3, <4>1, NothingToRetry
        <3>3. QED  BY <1>4, <3>1, <3>2
    <2>4. QED  BY <2>2, <2>3
<1>5. CASE ApplyChanges
    <2>1. event' = "change" /\ \A i \in Iface : ~Done(NameLeaf(i))'
        BY <1>1, <1>5, ApplyDone, NameLeafFacts DEF ApplyChanges
    <2>2. CreatedInv'
        BY <2>1 DEF CreatedInv
    <2>3. QED  BY <2>1, <2>2, NothingToRetry
<1>6. CASE DoneEvent \/ AbortEvent \/ DropEdit
    <2>1. event' # "change" /\ event' # "failed"
        BY <1>6 DEF DoneEvent, AbortEvent, DropEdit
    <2>2. QED  BY <2>1, NothingToRetry
<1>7. CASE Others
    <2>1. external' # 0
        BY <1>1, <1>7, OthersCount DEF PInv
    <2>2. QED  BY <2>1, NothingToRetry
<1>8. CASE UNCHANGED vars
    <2>1. \A m : (Operation(m)' = Operation(m)) /\ (Done(m)' <=> Done(m))
        BY <1>8 DEF Operation, Done, vars
    <2>2. CreatedInv'
        BY <1>1, <1>8, <2>1 DEF CreatedInv, vars
    <2>3. LinkEdit' => LinkEdit
        BY <1>8, <2>1 DEF LinkEdit, Changed, vars
    <2>4. event' = event /\ external' = external /\ refused' = refused
        BY <1>8 DEF vars
    <2>5. LinkEditRetryable'
        BY <1>1, <2>3, <2>4, Zenon DEF LinkEditRetryable, Alone
    <2>6. QED  BY <2>2, <2>5
<1>9. QED
    BY <1>3, <1>4, <1>5, <1>6, <1>7, <1>8 DEF Next, Callback, Sysrepo

\* Whatever earlier edits left behind, a link edit that is not disturbed and
\* not refused goes through.
THEOREM LinkEditsGoThrough == Spec => []LinkEditRetryable
<1>1. Init => RInv
    BY InitPInv DEF Init, RInv, CreatedInv, LinkEditRetryable
<1>2. RInv => LinkEditRetryable
    BY DEF RInv
<1>3. RInv /\ [Next]_vars => RInv'
    BY PInvStep, RetryStep DEF RInv
<1>4. QED  BY <1>1, <1>2, <1>3, PTL DEF Spec

-----------------------------------------------------------------------------
(* The kernel half-way through an edit                                     *)

\* The changed leaves whose handlers have been called.
DoneSet == {m \in Changed(Leaf) : Done(m)}

\* With the handlers of the leaves S called, leaf m is as the edit has it.
UpToDate(S, m) == m \in Changed(Leaf) => m \in S

\* Which links kernel k has then, their state and their mtu.
LinkInv(S, k) ==
    \A i \in Iface :
        /\ Exists(cand, "name", i, NoKey) /\ UpToDate(S, NameLeaf(i)) => k.link[i] # Gone
        /\ Exists(running, "name", i, NoKey) /\ ~UpToDate(S, NameLeaf(i)) => k.link[i] # Gone
        /\ Exists(running, "name", i, NoKey) /\ ~Exists(cand, "name", i, NoKey)
              /\ UpToDate(S, NameLeaf(i)) => k.link[i] = Gone

StateInv(S, k) ==
    \A i \in Iface :
        /\ Exists(cand, "name", i, NoKey) /\ UpToDate(S, EnabledLeaf(i))
              => k.up[i] = cand[EnabledLeaf(i)]
        /\ Exists(cand, "mtu", i, NoKey) /\ UpToDate(S, MtuLeaf(i))
              => k.mtu[i] = cand[MtuLeaf(i)]

\* The leaf whose handler makes the change of an address: ip for one that comes
\* or goes, otherwise the subnet leaf that is modified.
AddrOwner(i, a) ==
    IF Operation(LeafAt("ip", i, a)) # "NONE" THEN LeafAt("ip", i, a)
    ELSE IF a \in Addr4 /\ Operation(LeafAt("netmask", i, a)) = "MODIFIED"
         THEN LeafAt("netmask", i, a)
         ELSE LeafAt("prefix-length", i, a)

\* The configuration address a of i has in the kernel then.
AddrSource(S, i, a) ==
    IF AddrOwner(i, a) \in S /\ ~SubnetSwitched(i, a) THEN cand ELSE running

Down(i) == cand[EnabledLeaf(i)] = FALSE

\* Configuration c has address a of i, and kernel k has it with that prefix
\* length or not at all; k has it unless it goes away with the state.
AddrOnly(c, k, i, a) ==
    \A p : <<i, a, p>> \in k.addr => Exists(c, "ip", i, a) /\ p = PrefixOf(c, i, a)
AddrThere(c, k, i, a) ==
    /\ Exists(c, "ip", i, a) /\ Exists(cand, "name", i, NoKey)
    /\ a \in Addr4 \/ ~Down(i)
    => <<i, a, PrefixOf(c, i, a)>> \in k.addr

AddrInv(S, k) ==
    \A i \in Iface, a \in Addr : /\ AddrOnly(AddrSource(S, i, a), k, i, a)
                                 /\ AddrThere(AddrSource(S, i, a), k, i, a)

\* The same for neighbours.
IpLeaf(i, n) == LeafAt("neighbor-ip", i, n)
NeighOwner(i, n) == IF Operation(IpLeaf(i, n)) # "NONE" THEN IpLeaf(i, n) ELSE LlLeaf(i, n)
NeighSource(S, i, n) == IF NeighOwner(i, n) \in S THEN cand ELSE running
NeighOnly(c, k, i, n) ==
    \A v : <<i, n, v>> \in k.neigh => Exists(c, "neighbor-ip", i, n) /\ v = c[LlLeaf(i, n)]
NeighThere(c, k, i, n) ==
    Exists(c, "neighbor-ip", i, n) /\ Exists(cand, "name", i, NoKey) /\ ~Down(i)
    => <<i, n, c[LlLeaf(i, n)]>> \in k.neigh
NeighInv(S, k) ==
    \A i \in Iface, n \in Neigh : /\ NeighOnly(NeighSource(S, i, n), k, i, n)
                                  /\ NeighThere(NeighSource(S, i, n), k, i, n)

HalfWay(S, k) == LinkInv(S, k) /\ StateInv(S, k) /\ AddrInv(S, k) /\ NeighInv(S, k)

-----------------------------------------------------------------------------
(* One more handler                                                        *)

\* What a handler of leaf l finds and leaves when it succeeds.
Advance(S, l, k) ==
    /\ WellFormed(running) /\ WellFormed(cand)
    /\ S \subseteq Changed(Leaf) /\ l \in Changed(Leaf) /\ l \notin S
    /\ Frame(l, k) /\ Applied(l, k)
    /\ nl.link[l.if] = kernel.link[l.if]

\* A changed leaf, by its parts.
LEMMA ChangedLeaf ==
    ASSUME NEW l \in Changed(Leaf)
    PROVE  /\ l \in Leaf /\ l.if \in Iface /\ l = LeafAt(l.kind, l.if, l.key)
           /\ Operation(l) \in {"CREATED", "DELETED", "MODIFIED"}
           /\ l.kind \in IfKinds => l.key = NoKey
           /\ l.kind \in AddrKinds => l.key \in Addr
           /\ l.kind = "netmask" => l.key \in Addr4
           /\ l.kind \in NeighKinds => l.key \in Neigh
<1>1. l \in Leaf /\ Operation(l) # "NONE"
    BY DEF Changed
<1>2. Operation(l) \in {"CREATED", "DELETED", "MODIFIED"}
    BY <1>1 DEF Operation
<1>3. QED  BY <1>1, <1>2, LeafKinds

\* List keys are created or deleted, never modified.
LEMMA KeysAreNotModified ==
    ASSUME WellFormed(running), WellFormed(cand), NEW l \in Leaf,
           l.kind \in {"name", "ip", "neighbor-ip"}
    PROVE  Operation(l) # "MODIFIED"
<1>1. PICK v : LeafValue(l) = {v}
    BY DEF LeafValue, IgnoredKinds
<1>2. running[l] \in {v} \cup {NoValue} /\ cand[l] \in {v} \cup {NoValue}
    BY <1>1 DEF WellFormed, Config
<1>3. QED  BY <1>2, Operations

\* The links.
LEMMA LinkAdvance ==
    ASSUME NEW S, NEW l, NEW k, Advance(S, l, k), LinkInv(S, kernel)
    PROVE  LinkInv(S \cup {l}, k)
<1> SUFFICES ASSUME NEW i \in Iface
             PROVE  /\ Exists(cand, "name", i, NoKey) /\ UpToDate(S \cup {l}, NameLeaf(i))
                          => k.link[i] # Gone
                    /\ Exists(running, "name", i, NoKey) /\ ~UpToDate(S \cup {l}, NameLeaf(i))
                          => k.link[i] # Gone
                    /\ Exists(running, "name", i, NoKey) /\ ~Exists(cand, "name", i, NoKey)
                          /\ UpToDate(S \cup {l}, NameLeaf(i)) => k.link[i] = Gone
    BY DEF LinkInv
<1>1. /\ l \in Leaf /\ l = LeafAt(l.kind, l.if, l.key)
      /\ Operation(l) \in {"CREATED", "DELETED", "MODIFIED"}
      /\ l.kind \in IfKinds => l.key = NoKey
    BY ChangedLeaf DEF Advance
<1>2. CASE l = NameLeaf(i)
    <2>1. l.kind = "name" /\ l.if = i
        BY <1>2, NameLeafFacts
    <2>2. Operation(l) # "MODIFIED"
        BY <1>1, <2>1, KeysAreNotModified DEF Advance
    <2>3. CASE Operation(l) = "CREATED"
        <3>1. k.link[i] # Gone
            BY <2>1, <2>3 DEF Advance, Applied, AppliedLink, InCache
        <3>2. ~Exists(running, "name", i, NoKey)
            BY <1>2, <2>3, Operations DEF Exists, NameLeaf
        <3>3. QED  BY <3>1, <3>2
    <2>4. CASE Operation(l) = "DELETED"
        <3>1. k.link[i] = Gone
            BY <2>1, <2>4 DEF Advance, Applied, AppliedLink
        <3>2. ~Exists(cand, "name", i, NoKey)
            BY <1>2, <2>4, Operations DEF Exists, NameLeaf
        <3>3. UpToDate(S \cup {l}, NameLeaf(i))
            BY <1>2 DEF UpToDate
        <3>4. QED  BY <3>1, <3>2, <3>3
    <2>5. QED  BY <1>1, <2>2, <2>3, <2>4
<1>3. CASE l # NameLeaf(i)
    <2>1. ~(l.if = i /\ l.kind = "name")
        BY <1>1, <1>3 DEF NameLeaf, IfKinds
    <2>2. k.link[i] = kernel.link[i]
        BY <2>1 DEF Advance, Frame
    <2>3. UpToDate(S \cup {l}, NameLeaf(i)) <=> UpToDate(S, NameLeaf(i))
        BY <1>3 DEF UpToDate
    <2>4. QED  BY <2>2, <2>3 DEF LinkInv
<1>4. QED  BY <1>2, <1>3

\* A link that is deleted is not in the edit.
LEMMA DeletedLink ==
    ASSUME NEW l \in Changed(Leaf), NEW i, DeletesLink(l, i)
    PROVE  ~Exists(cand, "name", i, NoKey)
<1>1. l = NameLeaf(i)
    BY ChangedLeaf DEF DeletesLink, NameLeaf, IfKinds
<1>2. QED  BY <1>1, Operations DEF DeletesLink, Exists, NameLeaf

\* The state and the mtu of the links.
LEMMA StateAdvance ==
    ASSUME NEW S, NEW l, NEW k, Advance(S, l, k), StateInv(S, kernel)
    PROVE  StateInv(S \cup {l}, k)
<1>1. /\ l \in Changed(Leaf) /\ l = LeafAt(l.kind, l.if, l.key)
      /\ l.kind \in IfKinds => l.key = NoKey
    BY ChangedLeaf DEF Advance
<1>2. ASSUME NEW i \in Iface, Exists(cand, "name", i, NoKey),
             UpToDate(S \cup {l}, EnabledLeaf(i))
      PROVE  k.up[i] = cand[EnabledLeaf(i)]
    <2>1. ~DeletesLink(l, i)
        BY <1>1, <1>2, DeletedLink
    <2>2. CASE l = EnabledLeaf(i)
        <3>1. l.kind = "enabled" /\ l.if = i
            BY <2>2 DEF EnabledLeaf, LeafAt
        <3>2. cand[l] # NoValue
            BY <1>2, <2>2 DEF Advance, WellFormed, InterfaceOK, Exists, EnabledLeaf
        <3>3. QED  BY <2>2, <3>1, <3>2 DEF Advance, Applied, AppliedLink
    <2>3. CASE l # EnabledLeaf(i)
        <3>1. ~(l.if = i /\ l.kind = "enabled")
            BY <1>1, <2>3 DEF EnabledLeaf, IfKinds
        <3>2. k.up[i] = kernel.up[i]
            BY <2>1, <3>1 DEF Advance, Frame, TouchesState
        <3>3. UpToDate(S, EnabledLeaf(i))
            BY <1>2, <2>3 DEF UpToDate
        <3>4. QED  BY <1>2, <3>2, <3>3 DEF StateInv
    <2>4. QED  BY <2>2, <2>3
<1>3. ASSUME NEW i \in Iface, Exists(cand, "mtu", i, NoKey),
             UpToDate(S \cup {l}, MtuLeaf(i))
      PROVE  k.mtu[i] = cand[MtuLeaf(i)]
    <2>1. ~DeletesLink(l, i)
        <3>1. MtuLeaf(i) \in Leaf /\ MtuLeaf(i).if = i /\ cand[MtuLeaf(i)] # NoValue
            BY <1>3, LeafMembers DEF MtuLeaf, IfKinds, Exists, LeafAt
        <3>2. Exists(cand, "name", i, NoKey)
            BY <3>1 DEF Advance, WellFormed, InterfaceOK
        <3>3. QED  BY <1>1, <3>2, DeletedLink
    <2>2. CASE l = MtuLeaf(i)
        <3>1. l.kind = "mtu" /\ l.if = i
            BY <2>2 DEF MtuLeaf, LeafAt
        <3>2. cand[l] # NoValue
            BY <1>3, <2>2 DEF Exists, MtuLeaf
        <3>3. QED  BY <2>2, <3>1, <3>2 DEF Advance, Applied, AppliedLink
    <2>3. CASE l # MtuLeaf(i)
        <3>1. ~(l.if = i /\ l.kind = "mtu")
            BY <1>1, <2>3 DEF MtuLeaf, IfKinds
        <3>2. k.mtu[i] = kernel.mtu[i]
            BY <2>1, <3>1 DEF Advance, Frame, TouchesState
        <3>3. UpToDate(S, MtuLeaf(i))
            BY <1>3, <2>3 DEF UpToDate
        <3>4. QED  BY <1>3, <3>2, <3>3 DEF StateInv
    <2>4. QED  BY <2>2, <2>3
<1>4. QED  BY <1>2, <1>3 DEF StateInv

\* The schema on the addresses of both configurations.
LEMMA AddressSchema ==
    ASSUME NEW c, WellFormed(c), NEW i \in Iface, NEW a \in Addr
    PROVE  /\ Exists(c, "ip", i, a) <=> \/ Exists(c, "prefix-length", i, a)
                                        \/ a \in Addr4 /\ Exists(c, "netmask", i, a)
           /\ ~(a \in Addr4 /\ Exists(c, "prefix-length", i, a) /\ Exists(c, "netmask", i, a))
<1>1. AddressesOK(c, i) /\ (a \in Addr4 \/ a \in Addr6) /\ ~(a \in Addr4 /\ a \in Addr6)
    BY KeyAssumption DEF WellFormed, Addr
<1>2. QED  BY <1>1 DEF AddressesOK

\* A subnet leaf that is modified makes the change of its address.
LEMMA SubnetOwner ==
    ASSUME WellFormed(running), WellFormed(cand), NEW i \in Iface, NEW a \in Addr,
           NEW l \in Leaf, l.if = i, l.key = a, l.kind \in SubnetKinds,
           Operation(l) = "MODIFIED"
    PROVE  /\ AddrOwner(i, a) = l /\ ~SubnetSwitched(i, a)
           /\ Exists(running, "ip", i, a) /\ Exists(cand, "ip", i, a)
<1>1. l = LeafAt(l.kind, i, a) /\ (l.kind = "netmask" => a \in Addr4)
    BY LeafKinds
<1>2. Exists(running, l.kind, i, a) /\ Exists(cand, l.kind, i, a)
    BY <1>1, Operations DEF Exists
<1>3. Exists(running, "ip", i, a) /\ Exists(cand, "ip", i, a)
    BY <1>1, <1>2, AddressSchema DEF SubnetKinds
<1>4. LeafAt("ip", i, a) \in Leaf /\ LeafAt("ip", i, a).kind = "ip"
    BY LeafMembers DEF LeafAt
<1>5. Operation(LeafAt("ip", i, a)) = "NONE"
    <2>1. Operation(LeafAt("ip", i, a)) # "MODIFIED"
        BY <1>4, KeysAreNotModified
    <2>2. QED  BY <1>3, <2>1, Operations DEF Exists
<1>6. CASE l.kind = "prefix-length"
    <2>1. a \in Addr4 => ~Exists(running, "netmask", i, a)
        BY <1>2, <1>6, AddressSchema
    <2>2. a \in Addr4 => Operation(LeafAt("netmask", i, a)) # "MODIFIED"
        BY <2>1, Operations DEF Exists
    <2>3. ~SubnetSwitched(i, a)
        BY <1>2, <1>6 DEF SubnetSwitched, Exists
    <2>4. QED  BY <1>1, <1>3, <1>5, <1>6, <2>2, <2>3 DEF AddrOwner
<1>7. CASE l.kind = "netmask"
    <2>1. ~Exists(running, "prefix-length", i, a) /\ ~Exists(cand, "prefix-length", i, a)
        BY <1>1, <1>2, <1>7, AddressSchema
    <2>2. ~SubnetSwitched(i, a)
        BY <2>1 DEF SubnetSwitched, Exists
    <2>3. QED  BY <1>1, <1>3, <1>5, <1>7, <2>2 DEF AddrOwner
<1>8. QED  BY <1>6, <1>7 DEF SubnetKinds

\* A leaf that makes the change of an address but touches nothing belongs to an
\* address whose subnet is switched.
LEMMA QuietOwner ==
    ASSUME WellFormed(running), WellFormed(cand), NEW i \in Iface, NEW a \in Addr,
           NEW l \in Changed(Leaf), AddrOwner(i, a) = l, ~TouchesAddr(l, i, a)
    PROVE  SubnetSwitched(i, a)
<1> DEFINE pl == LeafAt("prefix-length", i, a)
<1>1. Operation(l) \in {"CREATED", "DELETED", "MODIFIED"}
    BY ChangedLeaf
<1>2. Operation(LeafAt("ip", i, a)) = "NONE"
    BY DEF AddrOwner, TouchesAddr, LeafAt
<1>3. l = pl /\ Operation(l) # "MODIFIED"
    BY <1>2 DEF AddrOwner, TouchesAddr, LeafAt, SubnetKinds
<1>4. ~(Exists(running, "prefix-length", i, a) <=> Exists(cand, "prefix-length", i, a))
    BY <1>1, <1>3, Operations DEF Exists
<1>5. Exists(running, "ip", i, a) <=> Exists(cand, "ip", i, a)
    BY <1>2, Operations DEF Exists
<1>6. Exists(running, "ip", i, a) /\ Exists(cand, "ip", i, a)
    <2>1. Exists(running, "ip", i, a) \/ Exists(cand, "ip", i, a)
        BY <1>2, <1>4, AddressSchema
    <2>2. QED  BY <1>5, <2>1
<1>7. QED  BY <1>4, <1>6 DEF SubnetSwitched, Exists

\* The addresses.
LEMMA AddrAdvance ==
    ASSUME NEW S, NEW l, NEW k, Advance(S, l, k), AddrInv(S, kernel)
    PROVE  AddrInv(S \cup {l}, k)
<1> SUFFICES ASSUME NEW i \in Iface, NEW a \in Addr
             PROVE  /\ AddrOnly(AddrSource(S \cup {l}, i, a), k, i, a)
                    /\ AddrThere(AddrSource(S \cup {l}, i, a), k, i, a)
    BY DEF AddrInv
<1>1. /\ l \in Changed(Leaf) /\ l \in Leaf /\ l = LeafAt(l.kind, l.if, l.key)
      /\ Operation(l) \in {"CREATED", "DELETED", "MODIFIED"}
    BY ChangedLeaf DEF Advance
<1>2. WellFormed(running) /\ WellFormed(cand) /\ l \notin S
    BY DEF Advance
<1>3. PICK c : c = AddrSource(S, i, a)
    OBVIOUS
<1>4. AddrOnly(c, kernel, i, a) /\ AddrThere(c, kernel, i, a)
    BY <1>3 DEF AddrInv
<1>5. AddrOwner(i, a) # l => AddrSource(S \cup {l}, i, a) = c
    BY <1>3 DEF AddrSource
<1>6. CASE ~TouchesAddr(l, i, a)
    <2>1. \A p : <<i, a, p>> \in k.addr <=> <<i, a, p>> \in kernel.addr
        BY <1>6 DEF Advance, Frame
    <2>2. AddrSource(S \cup {l}, i, a) = c
        <3>1. CASE AddrOwner(i, a) = l
            <4>1. SubnetSwitched(i, a)
                BY <1>1, <1>2, <1>6, <3>1, QuietOwner
            <4>2. QED  BY <1>3, <4>1 DEF AddrSource
        <3>2. QED  BY <1>5, <3>1
    <2>3. QED  BY <1>4, <2>1, <2>2 DEF AddrOnly, AddrThere
<1>7. CASE l.kind \in {"name", "enabled"} /\ TouchesAddr(l, i, a)
    <2>1. \A p : <<i, a, p>> \in k.addr => <<i, a, p>> \in kernel.addr
        BY <1>7 DEF Advance, Frame
    <2>2. AddrOwner(i, a).kind \in {"ip", "netmask", "prefix-length"}
        BY DEF AddrOwner, LeafAt
    <2>3. AddrSource(S \cup {l}, i, a) = c
        BY <1>5, <1>7, <2>2
    <2>4. AddrOnly(c, k, i, a)
        BY <1>4, <2>1 DEF AddrOnly
    <2>5. \/ ~Exists(cand, "name", i, NoKey)
          \/ a \notin Addr4 /\ Down(i)
        <3>1. CASE DeletesLink(l, i)
            BY <1>1, <3>1, DeletedLink
        <3>2. CASE l.if = i /\ l.kind = "enabled" /\ cand[l] = FALSE /\ a \in Addr6
            <4>1. l = EnabledLeaf(i)
                BY <1>1, <3>2, ChangedLeaf DEF EnabledLeaf, IfKinds
            <4>2. QED  BY <3>2, <4>1, KeyAssumption DEF Down
        <3>3. QED  BY <1>7, <3>1, <3>2 DEF TouchesAddr, SubnetKinds
    <2>6. AddrThere(c, k, i, a)
        BY <2>5 DEF AddrThere
    <2>7. QED  BY <2>3, <2>4, <2>6
<1>8. CASE l.if = i /\ l.kind = "ip" /\ l.key = a
    <2>1. l = LeafAt("ip", i, a) /\ AddrOwner(i, a) = l
        BY <1>1, <1>8 DEF AddrOwner
    <2>2. Operation(l) # "MODIFIED"
        BY <1>1, <1>2, <1>8, KeysAreNotModified
    <2>3. c = running
        BY <1>2, <1>3, <2>1 DEF AddrSource
    <2>4. CASE Operation(l) = "CREATED"
        <3>1. ~Exists(running, "ip", i, a) /\ Exists(cand, "ip", i, a)
            BY <2>1, <2>4, Operations DEF Exists
        <3>2. AddrSource(S \cup {l}, i, a) = cand
            BY <2>1, <3>1 DEF AddrSource, SubnetSwitched
        <3>3. \A p : <<i, a, p>> \notin kernel.addr
            BY <1>4, <2>3, <3>1 DEF AddrOnly
        <3>4. \A p : <<i, a, p>> \in k.addr <=> p = PrefixOf(cand, i, a)
            BY <1>8, <2>4, <3>3 DEF Advance, Applied, AppliedAddr
        <3>5. QED  BY <3>1, <3>2, <3>4 DEF AddrOnly, AddrThere
    <2>5. CASE Operation(l) = "DELETED"
        <3>1. ~Exists(cand, "ip", i, a)
            BY <2>1, <2>5, Operations DEF Exists
        <3>2. AddrSource(S \cup {l}, i, a) = cand
            BY <2>1, <3>1 DEF AddrSource, SubnetSwitched
        <3>3. \A p : <<i, a, p>> \notin k.addr
            BY <1>4, <1>8, <2>3, <2>5 DEF Advance, Applied, AppliedAddr, AddrOnly
        <3>4. QED  BY <3>1, <3>2, <3>3 DEF AddrOnly, AddrThere
    <2>6. QED  BY <1>1, <2>2, <2>4, <2>5
<1>9. CASE l.if = i /\ l.kind \in SubnetKinds /\ Operation(l) = "MODIFIED" /\ l.key = a
    <2>1. /\ AddrOwner(i, a) = l /\ ~SubnetSwitched(i, a)
          /\ Exists(cand, "ip", i, a)
        BY <1>1, <1>2, <1>9, SubnetOwner
    <2>2. c = running /\ AddrSource(S \cup {l}, i, a) = cand
        BY <1>2, <1>3, <2>1 DEF AddrSource
    <2>3. \A p : <<i, a, p>> \in k.addr <=> p = PrefixOf(cand, i, a)
        BY <1>4, <1>9, <2>2 DEF Advance, Applied, AppliedAddr, AddrOnly
    <2>4. QED  BY <2>1, <2>2, <2>3 DEF AddrOnly, AddrThere
<1>10. QED  BY <1>6, <1>7, <1>8, <1>9 DEF TouchesAddr, DeletesLink

\* The schema on the neighbours.
LEMMA NeighbourSchema ==
    ASSUME NEW c, WellFormed(c), NEW i \in Iface, NEW n \in Neigh
    PROVE  Exists(c, "neighbor-ip", i, n) <=> c[LlLeaf(i, n)] # NoValue
    BY DEF WellFormed, NeighborsOK, Exists, LlLeaf

\* The neighbours.
LEMMA NeighAdvance ==
    ASSUME NEW S, NEW l, NEW k, Advance(S, l, k), NeighInv(S, kernel), kernel \in Kernel
    PROVE  NeighInv(S \cup {l}, k)
<1> SUFFICES ASSUME NEW i \in Iface, NEW n \in Neigh
             PROVE  /\ NeighOnly(NeighSource(S \cup {l}, i, n), k, i, n)
                    /\ NeighThere(NeighSource(S \cup {l}, i, n), k, i, n)
    BY DEF NeighInv
<1>1. /\ l \in Changed(Leaf) /\ l \in Leaf /\ l = LeafAt(l.kind, l.if, l.key)
      /\ Operation(l) \in {"CREATED", "DELETED", "MODIFIED"}
    BY ChangedLeaf DEF Advance
<1>2. WellFormed(running) /\ WellFormed(cand) /\ l \notin S
    BY DEF Advance
<1>3. PICK c : c = NeighSource(S, i, n)
    OBVIOUS
<1>4. NeighOnly(c, kernel, i, n) /\ NeighThere(c, kernel, i, n)
    BY <1>3 DEF NeighInv
<1>5. NeighOwner(i, n) # l => NeighSource(S \cup {l}, i, n) = c
    BY <1>3 DEF NeighSource
<1>6. CASE ~TouchesNeigh(l, i, n)
    <2>1. \A v : <<i, n, v>> \in k.neigh <=> <<i, n, v>> \in kernel.neigh
        BY <1>6 DEF Advance, Frame
    <2>2. NeighOwner(i, n) # l
        <3>1. SUFFICES ASSUME NeighOwner(i, n) = l PROVE FALSE
            OBVIOUS
        <3>2. Operation(IpLeaf(i, n)) = "NONE" /\ l = LlLeaf(i, n)
            BY <1>6, <3>1 DEF NeighOwner, TouchesNeigh, LeafAt, IpLeaf
        <3>3. Exists(running, "neighbor-ip", i, n) <=> Exists(cand, "neighbor-ip", i, n)
            BY <3>2, Operations DEF Exists, IpLeaf
        <3>4. Operation(l) = "MODIFIED"
            BY <1>1, <1>2, <3>2, <3>3, NeighbourSchema, Operations
        <3>5. QED  BY <1>6, <3>2, <3>4 DEF TouchesNeigh, LlLeaf, LeafAt
    <2>3. QED  BY <1>4, <1>5, <2>1, <2>2 DEF NeighOnly, NeighThere
<1>7. CASE l.kind \in {"name", "enabled"} /\ TouchesNeigh(l, i, n)
    <2>1. \A v : <<i, n, v>> \in k.neigh => <<i, n, v>> \in kernel.neigh
        BY <1>7 DEF Advance, Frame
    <2>2. NeighOwner(i, n).kind \in {"neighbor-ip", "link-layer-address"}
        BY DEF NeighOwner, LeafAt, IpLeaf, LlLeaf
    <2>3. NeighSource(S \cup {l}, i, n) = c
        BY <1>5, <1>7, <2>2
    <2>4. NeighOnly(c, k, i, n)
        BY <1>4, <2>1 DEF NeighOnly
    <2>5. ~Exists(cand, "name", i, NoKey) \/ Down(i)
        <3>1. CASE DeletesLink(l, i)
            BY <1>1, <3>1, DeletedLink
        <3>2. CASE l.if = i /\ l.kind = "enabled" /\ cand[l] = FALSE
            <4>1. l = EnabledLeaf(i)
                BY <1>1, <3>2, ChangedLeaf DEF EnabledLeaf, IfKinds
            <4>2. QED  BY <3>2, <4>1 DEF Down
        <3>3. QED  BY <1>7, <3>1, <3>2 DEF TouchesNeigh
    <2>6. NeighThere(c, k, i, n)
        BY <2>5 DEF NeighThere
    <2>7. QED  BY <2>3, <2>4, <2>6
<1>8. CASE l.if = i /\ l.kind = "neighbor-ip" /\ l.key = n
    <2>1. l = IpLeaf(i, n) /\ NeighOwner(i, n) = l
        BY <1>1, <1>8 DEF NeighOwner, IpLeaf
    <2>2. Operation(l) # "MODIFIED"
        BY <1>1, <1>2, <1>8, KeysAreNotModified
    <2>3. c = running /\ NeighSource(S \cup {l}, i, n) = cand
        BY <1>2, <1>3, <2>1 DEF NeighSource
    <2>4. CASE Operation(l) = "CREATED"
        <3>1. ~Exists(running, "neighbor-ip", i, n) /\ Exists(cand, "neighbor-ip", i, n)
            BY <2>1, <2>4, Operations DEF Exists, IpLeaf
        <3>2. \A v : <<i, n, v>> \notin kernel.neigh
            BY <1>4, <2>3, <3>1 DEF NeighOnly
        <3>3. ~HasNeigh(kernel, i, n)
            BY <3>2, NeighbourParts
        <3>4. \A v : <<i, n, v>> \in k.neigh <=> v = cand[LlLeaf(i, n)]
            BY <1>8, <2>4, <3>2, <3>3 DEF Advance, Applied, AppliedNeigh
        <3>5. QED  BY <2>3, <3>1, <3>4 DEF NeighOnly, NeighThere
    <2>5. CASE Operation(l) = "DELETED"
        <3>1. ~Exists(cand, "neighbor-ip", i, n)
            BY <2>1, <2>5, Operations DEF Exists, IpLeaf
        <3>2. \A v : <<i, n, v>> \notin k.neigh
            BY <1>8, <2>5 DEF Advance, Applied, AppliedNeigh
        <3>3. QED  BY <2>3, <3>1, <3>2 DEF NeighOnly, NeighThere
    <2>6. QED  BY <1>1, <2>2, <2>4, <2>5
<1>9. CASE /\ l.if = i /\ l.kind = "link-layer-address"
           /\ Operation(l) = "MODIFIED" /\ l.key = n
    <2>1. l = LlLeaf(i, n) /\ running[l] # NoValue /\ cand[l] # NoValue
        BY <1>1, <1>9, Operations DEF LlLeaf
    <2>2. Exists(running, "neighbor-ip", i, n) /\ Exists(cand, "neighbor-ip", i, n)
        BY <1>2, <2>1, NeighbourSchema
    <2>3. Operation(IpLeaf(i, n)) = "NONE"
        <3>1. IpLeaf(i, n) \in Leaf /\ IpLeaf(i, n).kind = "neighbor-ip"
            BY LeafMembers DEF IpLeaf, LeafAt
        <3>2. Operation(IpLeaf(i, n)) # "MODIFIED"
            BY <1>2, <3>1, KeysAreNotModified
        <3>3. QED  BY <2>2, <3>2, Operations DEF Exists, IpLeaf
    <2>4. NeighSource(S \cup {l}, i, n) = cand
        BY <2>1, <2>3 DEF NeighSource, NeighOwner
    <2>5. \A v : <<i, n, v>> \in k.neigh <=> v = cand[LlLeaf(i, n)]
        BY <1>9, <2>1 DEF Advance, Applied, AppliedNeigh
    <2>6. QED  BY <2>2, <2>4, <2>5 DEF NeighOnly, NeighThere
<1>10. QED  BY <1>6, <1>7, <1>8, <1>9 DEF TouchesNeigh, DeletesLink

-----------------------------------------------------------------------------
(* A handler that fails                                                    *)

\* What the handler of leaf l finds.
Position(S, l) ==
    /\ WellFormed(running) /\ WellFormed(cand)
    /\ S \subseteq Changed(Leaf) /\ l \in Changed(Leaf) /\ l \notin S
    /\ HalfWay(S, kernel)
    /\ nl.link[l.if] = kernel.link[l.if] /\ (OtherAddr => nl.anyAddr)
    /\ l.kind # "name" => UpToDate(S, NameLeaf(l.if))

\* Where nothing is refused or cached wrongly, an interface of the edit has its
\* link.
LEMMA EditedLinkAlive ==
    ASSUME NEW S, NEW l, Position(S, l), l.kind # "name", Exists(cand, "name", l.if, NoKey)
    PROVE  LinkAlive(l.if)
<1>1. l.if \in Iface
    BY ChangedLeaf DEF Position
<1>2. kernel.link[l.if] # Gone
    BY <1>1 DEF Position, HalfWay, LinkInv
<1>3. QED  BY <1>2 DEF Position, LinkAlive, InCache

\* A leaf of an interface the edit deletes.
LEMMA LeafDeleted ==
    ASSUME NEW S, NEW l, Position(S, l), ~Exists(cand, "name", l.if, NoKey),
           l.kind \notin IgnoredKinds \cup {"name", "type", "enabled"}
    PROVE  DeletesIpConfig(l.if)
<1>1. l.if \in Iface /\ l \in Leaf /\ Operation(l) # "NONE"
    BY ChangedLeaf DEF Position, Changed
<1>2. cand[l] = NoValue
    BY <1>1 DEF Position, WellFormed, InterfaceOK
<1>3. running[l] # NoValue
    BY <1>1, <1>2, Operations
<1>4. Exists(running, "name", l.if, NoKey)
    BY <1>1, <1>3 DEF Position, WellFormed, InterfaceOK
<1>5. QED  BY <1>1, <1>3, <1>4 DEF DeletesIpConfig, IgnoredKinds

\* A leaf of an entry that the kernel flushes.
LEMMA LeafFlushed ==
    ASSUME NEW l \in Changed(Leaf), l.key \in Addr6 \cup Neigh, Down(l.if)
    PROVE  ChangesFlushed(l.if)
    BY DEF ChangesFlushed, Down, EnabledLeaf

\* The four ways an interface is beyond the plugin that the proof needs by name.
LEMMA BeyondThePlugin ==
    ASSUME NEW i \in Iface,
           \/ DeletesIpConfig(i) \/ ChangesFlushed(i)
           \/ cand[LeafAt("ipv4-enabled", i, NoKey)] = FALSE
           \/ ~OtherAddr /\ LeafAt("ipv4-enabled", i, NoKey) \in Changed(Leaf)
           \/ /\ Exists(cand, "type", i, NoKey)
              /\ cand[LeafAt("type", i, NoKey)] \notin HandledTypes
    PROVE  Unrealizable
    BY DEF Unrealizable

\* An address the running datastore has and whose handler has not been called
\* is in the kernel, or the edit is beyond the plugin.
LEMMA OldAddress ==
    ASSUME NEW S, NEW l, Position(S, l), l.key \in Addr, AddrOwner(l.if, l.key) = l,
           l.kind # "name", Exists(running, "ip", l.if, l.key)
    PROVE  /\ \A p : <<l.if, l.key, p>> \in kernel.addr => p = PrefixOf(running, l.if, l.key)
           /\ \/ <<l.if, l.key, PrefixOf(running, l.if, l.key)>> \in kernel.addr
              \/ ~Exists(cand, "name", l.if, NoKey)
              \/ ChangesFlushed(l.if)
<1> DEFINE i == l.if
           a == l.key
<1>1. i \in Iface /\ l \in Changed(Leaf)
    BY ChangedLeaf DEF Position
<1>2. AddrSource(S, i, a) = running
    BY DEF Position, AddrSource
<1>3. AddrOnly(running, kernel, i, a) /\ AddrThere(running, kernel, i, a)
    BY <1>1, <1>2 DEF Position, HalfWay, AddrInv
<1>4. \A p : <<i, a, p>> \in kernel.addr => p = PrefixOf(running, i, a)
    BY <1>3 DEF AddrOnly
<1>5. CASE a \in Addr4 \/ ~Down(i)
    BY <1>3, <1>4, <1>5 DEF AddrThere
<1>6. CASE a \notin Addr4 /\ Down(i)
    <2>1. a \in Addr6
        BY <1>6 DEF Addr
    <2>2. ChangesFlushed(i)
        BY <1>1, <1>6, <2>1, LeafFlushed
    <2>3. QED  BY <1>4, <2>2
<1>7. QED  BY <1>5, <1>6

\* The same for a neighbour.
LEMMA OldNeighbour ==
    ASSUME NEW S, NEW l, Position(S, l), l.key \in Neigh, NeighOwner(l.if, l.key) = l,
           l.kind # "name", Exists(running, "neighbor-ip", l.if, l.key), kernel \in Kernel
    PROVE  \/ HasNeigh(kernel, l.if, l.key)
           \/ ~Exists(cand, "name", l.if, NoKey)
           \/ ChangesFlushed(l.if)
<1> DEFINE i == l.if
           n == l.key
<1>1. i \in Iface /\ l \in Changed(Leaf)
    BY ChangedLeaf DEF Position
<1>2. NeighSource(S, i, n) = running
    BY DEF Position, NeighSource
<1>3. NeighThere(running, kernel, i, n)
    BY <1>1, <1>2 DEF Position, HalfWay, NeighInv
<1>4. CASE ~Down(i)
    <2>1. CASE Exists(cand, "name", i, NoKey)
        <3>1. <<i, n, running[LlLeaf(i, n)]>> \in kernel.neigh
            BY <1>3, <1>4, <2>1 DEF NeighThere
        <3>2. QED  BY <3>1, NeighbourParts
    <2>2. QED  BY <2>1
<1>5. CASE Down(i)
    <2>1. ChangesFlushed(i)
        BY <1>1, <1>5, LeafFlushed
    <2>2. QED  BY <2>1
<1>6. QED  BY <1>4, <1>5

\* A handler that nobody refused fails only when the edit asks for what the
\* plugin cannot do.
LEMMA ReasonInEdit ==
    ASSUME NEW S, NEW l, Position(S, l), Reason(l), kernel \in Kernel
    PROVE  Unrealizable
<1> DEFINE i == l.if
           a == l.key
<1>1. /\ l \in Changed(Leaf) /\ l \in Leaf /\ i \in Iface /\ l = LeafAt(l.kind, i, a)
      /\ l.kind \in IfKinds => a = NoKey
      /\ l.kind \in AddrKinds => a \in Addr
      /\ l.kind = "netmask" => a \in Addr4
      /\ l.kind \in NeighKinds => a \in Neigh
    BY ChangedLeaf DEF Position
<1>2. WellFormed(running) /\ WellFormed(cand)
    BY DEF Position
<1>3. cand[l] # NoValue => Exists(cand, "name", i, NoKey)
    BY <1>1, <1>2 DEF WellFormed, InterfaceOK
<1>4. CASE l.kind = "name" /\ Operation(l) = "DELETED" /\ ~LinkAlive(i)
    <2>1. l = NameLeaf(i)
        BY <1>1, <1>4 DEF NameLeaf, IfKinds
    <2>2. Exists(running, "name", i, NoKey)
        BY <1>4, <2>1, Operations DEF Exists, NameLeaf
    <2>3. ~UpToDate(S, NameLeaf(i))
        BY <1>1, <2>1 DEF Position, UpToDate
    <2>4. kernel.link[i] # Gone
        BY <1>1, <2>2, <2>3 DEF Position, HalfWay, LinkInv
    <2>5. QED  BY <1>4, <2>4 DEF Position, LinkAlive, InCache
<1>5. CASE /\ l.kind = "type" /\ Operation(l) # "DELETED"
           /\ ~LinkAlive(i) \/ cand[l] \notin HandledTypes
    <2>1. cand[l] # NoValue
        BY <1>1, <1>5, Operations DEF Changed
    <2>2. LinkAlive(i)
        BY <1>3, <1>5, <2>1, EditedLinkAlive
    <2>3. l = LeafAt("type", i, NoKey) /\ Exists(cand, "type", i, NoKey)
        BY <1>1, <1>5, <2>1 DEF IfKinds, Exists
    <2>4. QED  BY <1>1, <1>5, <2>2, <2>3, BeyondThePlugin
<1>6. CASE l.kind = "enabled" /\ ~LinkAlive(i) /\ (Operation(l) = "DELETED" => InCache(i))
    <2>1. Operation(l) # "DELETED"
        BY <1>6 DEF Position, LinkAlive
    <2>2. cand[l] # NoValue
        BY <1>1, <2>1, Operations DEF Changed
    <2>3. QED  BY <1>3, <1>6, <2>2, EditedLinkAlive
<1>7. CASE l.kind \notin IgnoredKinds \cup {"name", "type", "enabled"}
           /\ (~LinkAlive(i) \/ ~Exists(cand, "name", i, NoKey))
    <2>1. ~Exists(cand, "name", i, NoKey)
        BY <1>7, EditedLinkAlive
    <2>2. DeletesIpConfig(i)
        BY <1>7, <2>1, LeafDeleted
    <2>3. QED  BY <1>1, <2>2, BeyondThePlugin
<1>8. CASE l.kind = "ipv4-enabled" /\ (~nl.anyAddr \/ cand[l] = FALSE)
    <2>1. l = LeafAt("ipv4-enabled", i, NoKey)
        BY <1>1, <1>8 DEF IfKinds
    <2>2. ~nl.anyAddr => ~OtherAddr
        BY DEF Position
    <2>3. QED  BY <1>1, <1>8, <2>1, <2>2, BeyondThePlugin
<1>9. CASE /\ l.kind = "ip" /\ Operation(l) = "CREATED"
           /\ <<i, a, PrefixOf(cand, i, a)>> \in kernel.addr
    <2>1. a \in Addr /\ AddrOwner(i, a) = l /\ ~Exists(running, "ip", i, a)
        BY <1>1, <1>9, Operations DEF AddrKinds, AddrOwner, Exists
    <2>2. AddrSource(S, i, a) = running
        BY <2>1 DEF Position, AddrSource
    <2>3. AddrOnly(running, kernel, i, a)
        BY <1>1, <2>1, <2>2 DEF Position, HalfWay, AddrInv
    <2>4. QED  BY <1>9, <2>1, <2>3 DEF AddrOnly
<1>10. CASE /\ l.kind = "ip" /\ Operation(l) = "DELETED"
            /\ <<i, a, PrefixOf(running, i, a)>> \notin kernel.addr
    <2>1. a \in Addr /\ AddrOwner(i, a) = l /\ Exists(running, "ip", i, a)
        BY <1>1, <1>10, Operations DEF AddrKinds, AddrOwner, Exists
    <2>2. ~Exists(cand, "name", i, NoKey) \/ ChangesFlushed(i)
        BY <1>10, <2>1, OldAddress
    <2>3. QED  BY <1>1, <1>7, <1>10, <2>2, BeyondThePlugin DEF IgnoredKinds
<1>11. CASE /\ l.kind \in SubnetKinds /\ Operation(l) = "MODIFIED"
            /\ \/ <<i, a, PrefixOf(running, i, a)>> \notin kernel.addr
               \/ /\ <<i, a, PrefixOf(cand, i, a)>> \in kernel.addr
                  /\ PrefixOf(cand, i, a) # PrefixOf(running, i, a)
    <2>1. a \in Addr
        BY <1>1, <1>11 DEF SubnetKinds, AddrKinds, Addr
    <2>2. AddrOwner(i, a) = l /\ Exists(running, "ip", i, a)
        BY <1>1, <1>2, <1>11, <2>1, SubnetOwner
    <2>3. l.kind # "name" /\ l.kind \notin IgnoredKinds \cup {"name", "type", "enabled"}
        BY <1>11 DEF SubnetKinds, IgnoredKinds
    <2>4. ~Exists(cand, "name", i, NoKey) \/ ChangesFlushed(i)
        BY <1>11, <2>1, <2>2, <2>3, OldAddress
    <2>5. QED  BY <1>1, <1>7, <2>3, <2>4, BeyondThePlugin
<1>12. CASE \/ /\ l.kind = "neighbor-ip" /\ Operation(l) = "DELETED"
               /\ ~HasNeigh(kernel, i, a)
            \/ /\ l.kind = "link-layer-address" /\ Operation(l) = "MODIFIED"
               /\ ~HasNeigh(kernel, i, a)
    <2>1. a \in Neigh
        BY <1>1, <1>12 DEF NeighKinds
    <2>2. NeighOwner(i, a) = l /\ Exists(running, "neighbor-ip", i, a)
        <3>1. CASE l.kind = "neighbor-ip"
            <4>1. l = IpLeaf(i, a) /\ Operation(l) = "DELETED"
                BY <1>1, <1>12, <3>1 DEF IpLeaf
            <4>2. QED  BY <4>1, Operations DEF NeighOwner, Exists, IpLeaf
        <3>2. CASE l.kind = "link-layer-address"
            <4>1. l = LlLeaf(i, a) /\ running[l] # NoValue /\ cand[l] # NoValue
                BY <1>1, <1>12, <3>2, Operations DEF LlLeaf
            <4>2. Exists(running, "neighbor-ip", i, a) /\ Exists(cand, "neighbor-ip", i, a)
                BY <1>1, <1>2, <2>1, <4>1, NeighbourSchema
            <4>3. IpLeaf(i, a) \in Leaf /\ IpLeaf(i, a).kind = "neighbor-ip"
                BY <1>1, <2>1, LeafMembers DEF IpLeaf, LeafAt
            <4>4. Operation(IpLeaf(i, a)) # "MODIFIED"
                BY <1>2, <4>3, KeysAreNotModified
            <4>5. Operation(IpLeaf(i, a)) = "NONE"
                BY <4>2, <4>4, Operations DEF Exists, IpLeaf
            <4>6. QED  BY <4>1, <4>2, <4>5 DEF NeighOwner
        <3>3. QED  BY <1>12, <3>1, <3>2
    <2>3. l.kind # "name" /\ l.kind \notin IgnoredKinds \cup {"name", "type", "enabled"}
        BY <1>12 DEF IgnoredKinds
    <2>4. ~Exists(cand, "name", i, NoKey) \/ ChangesFlushed(i)
        BY <1>12, <2>1, <2>2, <2>3, OldNeighbour
    <2>5. QED  BY <1>1, <1>7, <2>3, <2>4, BeyondThePlugin
<1>13. QED
    BY <1>4, <1>5, <1>6, <1>7, <1>8, <1>9, <1>10, <1>11, <1>12 DEF Reason

-----------------------------------------------------------------------------
(* The beginning and the end of an edit                                    *)

\* A kernel in step with the running datastore, before the first handler.
LEMMA HalfWayBegins ==
    ASSUME WellFormed(running), WellFormed(cand), kernel \in Kernel,
           InStep(kernel, running)
    PROVE  HalfWay({}, kernel)
<1>1. ASSUME NEW i \in Iface, Exists(running, "name", i, NoKey)
      PROVE  LinkRealized(kernel, running, i)
    BY <1>1 DEF InStep, Realizes
<1>2. \A m \in Leaf : UpToDate({}, m) => running[m] = cand[m]
    BY Operations DEF UpToDate, Changed
<1>3. LinkInv({}, kernel)
    <2> SUFFICES ASSUME NEW i \in Iface
                 PROVE  /\ Exists(cand, "name", i, NoKey) /\ UpToDate({}, NameLeaf(i))
                              => kernel.link[i] # Gone
                        /\ Exists(running, "name", i, NoKey) => kernel.link[i] # Gone
                        /\ Exists(running, "name", i, NoKey) /\ ~Exists(cand, "name", i, NoKey)
                              => ~UpToDate({}, NameLeaf(i))
        BY DEF LinkInv
    <2>1. UpToDate({}, NameLeaf(i)) =>
             (Exists(cand, "name", i, NoKey) <=> Exists(running, "name", i, NoKey))
        BY <1>2, NameLeafFacts DEF Exists, NameLeaf
    <2>2. QED  BY <1>1, <2>1 DEF LinkRealized
<1>4. StateInv({}, kernel)
    <2>1. ASSUME NEW i \in Iface, Exists(cand, "name", i, NoKey), UpToDate({}, EnabledLeaf(i))
          PROVE  kernel.up[i] = cand[EnabledLeaf(i)]
        <3>1. EnabledLeaf(i) \in Leaf
            BY LeafMembers DEF EnabledLeaf, IfKinds
        <3>2. running[EnabledLeaf(i)] = cand[EnabledLeaf(i)]
            BY <1>2, <2>1, <3>1
        <3>3. Exists(running, "enabled", i, NoKey)
            BY <2>1, <3>2 DEF WellFormed, InterfaceOK, Exists, EnabledLeaf
        <3>4. Exists(running, "name", i, NoKey)
            BY <3>3 DEF WellFormed, InterfaceOK
        <3>5. QED  BY <1>1, <3>2, <3>4 DEF LinkRealized, EnabledLeaf
    <2>2. ASSUME NEW i \in Iface, Exists(cand, "mtu", i, NoKey), UpToDate({}, MtuLeaf(i))
          PROVE  kernel.mtu[i] = cand[MtuLeaf(i)]
        <3>1. MtuLeaf(i) \in Leaf /\ MtuLeaf(i).if = i
            BY LeafMembers DEF MtuLeaf, IfKinds, LeafAt
        <3>2. running[MtuLeaf(i)] = cand[MtuLeaf(i)]
            BY <1>2, <2>2, <3>1
        <3>3. Exists(running, "mtu", i, NoKey)
            BY <2>2, <3>2 DEF Exists, MtuLeaf
        <3>4. Exists(running, "name", i, NoKey)
            BY <3>1, <3>3 DEF WellFormed, InterfaceOK, Exists, MtuLeaf
        <3>5. QED  BY <1>1, <3>2, <3>3, <3>4 DEF LinkRealized, MtuLeaf
    <2>3. QED  BY <2>1, <2>2 DEF StateInv
<1>5. AddrInv({}, kernel)
    <2> SUFFICES ASSUME NEW i \in Iface, NEW a \in Addr
                 PROVE  AddrOnly(running, kernel, i, a) /\ AddrThere(running, kernel, i, a)
        BY DEF AddrInv, AddrSource
    <2>1. AddrOnly(running, kernel, i, a)
        <3>1. SUFFICES ASSUME NEW p, <<i, a, p>> \in kernel.addr
                       PROVE  Exists(running, "ip", i, a) /\ p = PrefixOf(running, i, a)
            BY DEF AddrOnly
        <3>2. \A x \in kernel.addr :
                 Exists(running, "ip", x[1], x[2]) /\ x[3] = PrefixOf(running, x[1], x[2])
            BY DEF InStep
        <3>3. PICK x \in kernel.addr : x = <<i, a, p>>
            BY <3>1
        <3>4. x[1] = i /\ x[2] = a /\ x[3] = p
            BY <3>3
        <3>5. QED  BY <3>2, <3>3, <3>4
    <2>2. AddrThere(running, kernel, i, a)
        <3>1. SUFFICES ASSUME Exists(running, "ip", i, a)
                       PROVE  <<i, a, PrefixOf(running, i, a)>> \in kernel.addr
            BY DEF AddrThere
        <3>2. LeafAt("ip", i, a) \in Leaf /\ LeafAt("ip", i, a).if = i
            BY LeafMembers DEF LeafAt
        <3>3. Exists(running, "name", i, NoKey)
            BY <3>1, <3>2 DEF WellFormed, InterfaceOK, Exists
        <3>4. QED  BY <3>1, <3>3 DEF InStep, Realizes, AddrRealized
    <2>3. QED  BY <2>1, <2>2
<1>6. NeighInv({}, kernel)
    <2> SUFFICES ASSUME NEW i \in Iface, NEW n \in Neigh
                 PROVE  NeighOnly(running, kernel, i, n) /\ NeighThere(running, kernel, i, n)
        BY DEF NeighInv, NeighSource
    <2>1. NeighOnly(running, kernel, i, n)
        <3>1. SUFFICES ASSUME NEW v, <<i, n, v>> \in kernel.neigh
                       PROVE  Exists(running, "neighbor-ip", i, n) /\ v = running[LlLeaf(i, n)]
            BY DEF NeighOnly
        <3>2. \A x \in kernel.neigh :
                 x[3] = running[LeafAt("link-layer-address", x[1], x[2])]
            BY DEF InStep
        <3>3. PICK x \in kernel.neigh : x = <<i, n, v>>
            BY <3>1
        <3>4. x[1] = i /\ x[2] = n /\ x[3] = v /\ v \in LlAddr
            BY <3>3, KernelParts
        <3>5. v = running[LlLeaf(i, n)] /\ v # NoValue
            BY <3>2, <3>3, <3>4, NoValueAssumption DEF LlLeaf
        <3>6. QED  BY <3>5, NeighbourSchema
    <2>2. NeighThere(running, kernel, i, n)
        <3>1. SUFFICES ASSUME Exists(running, "neighbor-ip", i, n)
                       PROVE  <<i, n, running[LlLeaf(i, n)]>> \in kernel.neigh
            BY DEF NeighThere
        <3>2. IpLeaf(i, n) \in Leaf /\ IpLeaf(i, n).if = i
            BY LeafMembers DEF IpLeaf, LeafAt
        <3>3. Exists(running, "name", i, NoKey)
            BY <3>1, <3>2 DEF WellFormed, InterfaceOK, Exists, IpLeaf
        <3>4. QED  BY <3>1, <3>3 DEF InStep, Realizes, NeighRealized, LlLeaf
    <2>3. QED  BY <2>1, <2>2
<1>7. QED  BY <1>3, <1>4, <1>5, <1>6 DEF HalfWay

\* After the last handler the kernel has what the edit asks for.
LEMMA HalfWayEnds ==
    ASSUME WellFormed(running), WellFormed(cand), kernel \in Kernel,
           HalfWay(Changed(Leaf), kernel)
    PROVE  EditRealized /\ EditRemoved
<1> DEFINE S == Changed(Leaf)
<1>1. \A m : UpToDate(S, m)
    BY DEF UpToDate
<1>2. ASSUME NEW i \in Iface, NEW a \in Addr
      PROVE  \/ AddrSource(S, i, a) = cand
             \/ SubnetSwitched(i, a)
             \/ /\ Exists(running, "ip", i, a) <=> Exists(cand, "ip", i, a)
                /\ Exists(running, "ip", i, a) => PrefixOf(running, i, a) = PrefixOf(cand, i, a)
    <2>1. SUFFICES ASSUME AddrOwner(i, a) \notin S
                   PROVE  /\ Exists(running, "ip", i, a) <=> Exists(cand, "ip", i, a)
                          /\ Exists(running, "ip", i, a) =>
                                PrefixOf(running, i, a) = PrefixOf(cand, i, a)
        BY DEF AddrSource
    <2>2. /\ LeafAt("ip", i, a) \in Leaf /\ LeafAt("prefix-length", i, a) \in Leaf
          /\ a \in Addr4 => LeafAt("netmask", i, a) \in Leaf
        BY LeafMembers
    <2>3. Operation(LeafAt("ip", i, a)) = "NONE"
        BY <2>1, <2>2 DEF AddrOwner, Changed
    <2>4. a \in Addr4 => Operation(LeafAt("netmask", i, a)) # "MODIFIED"
        BY <2>1, <2>2, <2>3 DEF AddrOwner, Changed
    <2>5. Operation(LeafAt("prefix-length", i, a)) = "NONE"
        BY <2>1, <2>2, <2>3, <2>4 DEF AddrOwner, Changed
    <2>6. running[LeafAt("ip", i, a)] = cand[LeafAt("ip", i, a)]
          /\ running[LeafAt("prefix-length", i, a)] = cand[LeafAt("prefix-length", i, a)]
        BY <2>3, <2>5, Operations
    <2>7. ASSUME Exists(running, "ip", i, a), ~Exists(running, "prefix-length", i, a)
          PROVE  running[LeafAt("netmask", i, a)] = cand[LeafAt("netmask", i, a)]
        <3>1. Exists(cand, "ip", i, a) /\ ~Exists(cand, "prefix-length", i, a)
            BY <2>6, <2>7 DEF Exists
        <3>2. a \in Addr4 /\ Exists(running, "netmask", i, a) /\ Exists(cand, "netmask", i, a)
            BY <2>7, <3>1, AddressSchema
        <3>3. QED  BY <2>4, <3>2, Operations DEF Exists
    <2>8. QED  BY <2>6, <2>7 DEF Exists, PrefixOf
<1>3. ASSUME NEW i \in Iface, NEW n \in Neigh
      PROVE  \/ NeighSource(S, i, n) = cand
             \/ /\ Exists(running, "neighbor-ip", i, n) <=> Exists(cand, "neighbor-ip", i, n)
                /\ running[LlLeaf(i, n)] = cand[LlLeaf(i, n)]
    <2>1. SUFFICES ASSUME NeighOwner(i, n) \notin S
                   PROVE  /\ Exists(running, "neighbor-ip", i, n) <=>
                                Exists(cand, "neighbor-ip", i, n)
                          /\ running[LlLeaf(i, n)] = cand[LlLeaf(i, n)]
        BY DEF NeighSource
    <2>2. IpLeaf(i, n) \in Leaf /\ LlLeaf(i, n) \in Leaf
        BY LeafMembers DEF IpLeaf, LlLeaf
    <2>3. Operation(IpLeaf(i, n)) = "NONE" /\ Operation(LlLeaf(i, n)) = "NONE"
        BY <2>1, <2>2 DEF NeighOwner, Changed
    <2>4. QED  BY <2>3, Operations DEF Exists, IpLeaf
<1>4. LinkInv(S, kernel) /\ StateInv(S, kernel) /\ AddrInv(S, kernel) /\ NeighInv(S, kernel)
    BY DEF HalfWay
<1> HIDE DEF S
<1>5. ASSUME NEW i \in Iface, Exists(cand, "name", i, NoKey)
      PROVE  LinkRealized(kernel, cand, i)
    BY <1>1, <1>4, <1>5 DEF LinkInv, StateInv, LinkRealized, EnabledLeaf, MtuLeaf
<1>6. ASSUME NEW i \in Iface, Exists(cand, "name", i, NoKey), NEW a \in Addr,
             Exists(cand, "ip", i, a), ~SubnetSwitched(i, a), a \in Addr4 \/ kernel.up[i]
      PROVE  AddrRealized(kernel, cand, i, a)
    <2>1. a \in Addr4 \/ ~Down(i)
        BY <1>5, <1>6 DEF LinkRealized, Down, EnabledLeaf
    <2>2. AddrThere(AddrSource(S, i, a), kernel, i, a)
        BY <1>4, <1>6 DEF AddrInv
    <2>3. CASE AddrSource(S, i, a) = cand
        BY <1>6, <2>1, <2>2, <2>3 DEF AddrThere, AddrRealized
    <2>4. CASE AddrSource(S, i, a) # cand
        <3>1. /\ Exists(running, "ip", i, a)
              /\ PrefixOf(running, i, a) = PrefixOf(cand, i, a)
            BY <1>2, <1>6, <2>4
        <3>2. AddrSource(S, i, a) = running
            BY <2>4 DEF AddrSource
        <3>3. QED  BY <1>6, <2>1, <2>2, <3>1, <3>2 DEF AddrThere, AddrRealized
    <2>5. QED  BY <2>3, <2>4
<1>7. ASSUME NEW i \in Iface, Exists(cand, "name", i, NoKey), NEW n \in Neigh,
             Exists(cand, "neighbor-ip", i, n), kernel.up[i]
      PROVE  NeighRealized(kernel, cand, i, n)
    <2>1. ~Down(i)
        BY <1>5, <1>7 DEF LinkRealized, Down, EnabledLeaf
    <2>2. NeighThere(NeighSource(S, i, n), kernel, i, n)
        BY <1>4, <1>7 DEF NeighInv
    <2>3. CASE NeighSource(S, i, n) = cand
        BY <1>7, <2>1, <2>2, <2>3 DEF NeighThere, NeighRealized, LlLeaf
    <2>4. CASE NeighSource(S, i, n) # cand
        <3>1. /\ Exists(running, "neighbor-ip", i, n)
              /\ running[LlLeaf(i, n)] = cand[LlLeaf(i, n)]
            BY <1>3, <1>7, <2>4
        <3>2. NeighSource(S, i, n) = running
            BY <2>4 DEF NeighSource
        <3>3. QED  BY <1>7, <2>1, <2>2, <3>1, <3>2 DEF NeighThere, NeighRealized, LlLeaf
    <2>5. QED  BY <2>3, <2>4
<1>8. EditRealized
    BY <1>5, <1>6, <1>7 DEF EditRealized
<1>9. ASSUME NEW i \in Iface, NEW a \in Addr,
             Exists(running, "ip", i, a), ~Exists(cand, "ip", i, a)
      PROVE  ~AddrRealized(kernel, running, i, a)
    <2>1. AddrSource(S, i, a) = cand
        BY <1>2, <1>9 DEF SubnetSwitched
    <2>2. AddrOnly(cand, kernel, i, a)
        BY <1>4, <2>1 DEF AddrInv
    <2>3. QED  BY <1>9, <2>2 DEF AddrOnly, AddrRealized
<1>10. ASSUME NEW i \in Iface, NEW n \in Neigh,
              Exists(running, "neighbor-ip", i, n), ~Exists(cand, "neighbor-ip", i, n)
       PROVE  ~HasNeigh(kernel, i, n)
    <2>1. NeighSource(S, i, n) = cand
        BY <1>3, <1>10
    <2>2. NeighOnly(cand, kernel, i, n)
        BY <1>4, <2>1 DEF NeighInv
    <2>3. \A v : <<i, n, v>> \notin kernel.neigh
        BY <1>10, <2>2 DEF NeighOnly
    <2>4. QED  BY <2>3, NeighbourParts
<1>11. ASSUME NEW i \in Iface, Exists(running, "name", i, NoKey), ~Exists(cand, "name", i, NoKey)
       PROVE  kernel.link[i] = Gone
    BY <1>1, <1>4, <1>11 DEF LinkInv
<1>12. EditRemoved
    BY <1>9, <1>10, <1>11 DEF EditRemoved
<1>13. QED  BY <1>8, <1>12

-----------------------------------------------------------------------------
(* The verdict                                                             *)

\* What is half-way is decided by the two configurations, which only the end
\* of the edit changes.
LEMMA HalfWaySame ==
    ASSUME UNCHANGED <<running, cand>>, NEW S, NEW k
    PROVE  HalfWay(S, k)' <=> HalfWay(S, k)
<1>1. \A m : Operation(m)' = Operation(m)
    BY DEF Operation
<1>2. Changed(Leaf)' = Changed(Leaf)
    BY <1>1 DEF Changed
<1>3. \A m : UpToDate(S, m)' <=> UpToDate(S, m)
    BY <1>2 DEF UpToDate
<1>4. LinkInv(S, k)' <=> LinkInv(S, k)
    BY <1>3 DEF LinkInv, Exists
<1>5. StateInv(S, k)' <=> StateInv(S, k)
    BY <1>3 DEF StateInv, Exists
<1>6. AddrInv(S, k)' <=> AddrInv(S, k)
    <2>1. \A i, a : AddrOwner(i, a)' = AddrOwner(i, a)
        BY <1>1 DEF AddrOwner
    <2>2. \A i, a : SubnetSwitched(i, a)' <=> SubnetSwitched(i, a)
        BY DEF SubnetSwitched, Exists
    <2>3. \A i, a : AddrSource(S, i, a)' = AddrSource(S, i, a)
        BY <2>1, <2>2 DEF AddrSource
    <2>4. QED  BY <2>3 DEF AddrInv, AddrOnly, AddrThere, Exists, PrefixOf, Down
<1>7. NeighInv(S, k)' <=> NeighInv(S, k)
    <2>1. \A i, n : NeighOwner(i, n)' = NeighOwner(i, n)
        BY <1>1 DEF NeighOwner
    <2>2. \A i, n : NeighSource(S, i, n)' = NeighSource(S, i, n)
        BY <2>1 DEF NeighSource
    <2>3. QED  BY <2>2 DEF NeighInv, NeighOnly, NeighThere, Exists, Down
<1>8. QED  BY <1>4, <1>5, <1>6, <1>7 DEF HalfWay

\* The same for what the plugin cannot do.
LEMMA UnrealizableSame ==
    ASSUME UNCHANGED <<running, cand>>
    PROVE  Unrealizable' <=> Unrealizable
<1>1. \A m : Operation(m)' = Operation(m)
    BY DEF Operation
<1>2. Changed(Leaf)' = Changed(Leaf)
    BY <1>1 DEF Changed
<1>3. \A i : DeletesIpConfig(i)' <=> DeletesIpConfig(i)
    BY DEF DeletesIpConfig, Exists
<1>4. \A i : ChangesFlushed(i)' <=> ChangesFlushed(i)
    BY <1>2 DEF ChangesFlushed
<1>5. QED  BY <1>2, <1>3, <1>4 DEF Unrealizable, Exists

\* While an undisturbed edit is applied, the kernel is as far as the handlers
\* that were called have brought it: S and k stand for the two in any state.
VInv ==
    Undisturbed /\ event \in {"change", "applied"} =>
        \A S, k : S = DoneSet /\ k = kernel => HalfWay(S, k)

\* A rejected edit asked for what the plugin cannot do.
FInv == Undisturbed /\ event = "failed" => Unrealizable

WInv == PInv /\ VInv /\ FInv

\* Where the two say nothing.
LEMMA NothingToSay ==
    /\ external' # 0 \/ refused' # 0 => VInv' /\ FInv'
    /\ event' \notin {"change", "applied"} => VInv'
    /\ event' # "failed" => FInv'
<1>1. Undisturbed' => external' = 0 /\ refused' = 0
    BY DEF Undisturbed, Alone
<1>2. external' # 0 \/ refused' # 0 => VInv' /\ FInv'
    BY <1>1, Zenon DEF VInv, FInv
<1>3. event' \notin {"change", "applied"} => VInv'
    BY Zenon DEF VInv
<1>4. event' # "failed" => FInv'
    BY Zenon DEF FInv
<1>5. QED  BY <1>2, <1>3, <1>4

\* A step that takes the set of handled leaves from the edit's beginning on to
\* T, with the kernel half-way there.
LEMMA VInvNext ==
    ASSUME UNCHANGED <<running, cand>>, NEW T, NEW q, DoneSet' = T, kernel' = q,
           Undisturbed' => HalfWay(T, q)
    PROVE  VInv'
<1>1. HalfWay(T, q)' <=> HalfWay(T, q)
    BY HalfWaySame
<1>2. ASSUME Undisturbed', NEW S, NEW k, S = DoneSet', k = kernel'
      PROVE  HalfWay(S, k)'
    BY <1>1, <1>2
<1>3. QED  BY <1>2 DEF VInv

\* A handler of an undisturbed edit.
LEMMA VerdictHandler ==
    ASSUME WInv, NEW l, Handle(l)
    PROVE  VInv' /\ FInv'
<1>1. /\ PInv /\ VInv /\ event = "change" /\ l \in Changed(Leaf) /\ l.if \in Iface
      /\ UNCHANGED <<running, cand, instep, external>>
    BY HandleContext DEF WInv, PInv
<1>2. /\ WellFormed(running) /\ WellFormed(cand) /\ kernel \in Kernel /\ refused \in Nat
    BY <1>1, ChangeAssumption DEF PInv, IInv, TypeOK
<1>3. Verdict(l)
    BY <1>1, HandleVerdict DEF PInv
<1>4. PICK S : S = DoneSet
    OBVIOUS
<1>5. S \subseteq Changed(Leaf) /\ l \notin S
    BY <1>1, <1>4, HandlerProgress DEF DoneSet
<1>6. Undisturbed => HalfWay(S, kernel)
    BY <1>1, <1>4 DEF VInv
<1>7. Undisturbed => /\ nl.link[l.if] = kernel.link[l.if]
                     /\ OtherAddr => nl.anyAddr
    BY <1>1, HandlerProgress DEF Undisturbed, Alone
<1>8. CASE Succeed(l, kernel', scratch) /\ Applied(l, kernel')
    <2>1. event' = "change" /\ refused' = refused
        BY <1>1, <1>8 DEF Succeed
    <2>2. PICK q : q = kernel'
        OBVIOUS
    <2>3. Changed(Leaf)' = Changed(Leaf)
        BY <1>1 DEF Changed, Operation
    <2>4. \A m \in Changed(Leaf) : Done(m)' <=> Done(m) \/ m = l
        BY <1>1, <1>8, SucceedDone
    <2>5. DoneSet' = S \cup {l}
        BY <1>1, <1>4, <2>3, <2>4 DEF DoneSet
    <2>6. ASSUME Undisturbed'
          PROVE  HalfWay(S \cup {l}, q)
        <3>1. Undisturbed
            BY <1>1, <2>1, <2>6 DEF Undisturbed, Alone
        <3>2. Frame(l, q) /\ Applied(l, q)
            BY <1>3, <1>8, <2>2 DEF Verdict
        <3>3. Advance(S, l, q)
            BY <1>1, <1>2, <1>5, <1>7, <3>1, <3>2 DEF Advance
        <3>4. LinkInv(S, kernel) /\ StateInv(S, kernel) /\ AddrInv(S, kernel) /\ NeighInv(S, kernel)
            BY <1>6, <3>1 DEF HalfWay
        <3>5. LinkInv(S \cup {l}, q) /\ StateInv(S \cup {l}, q)
            BY <3>3, <3>4, LinkAdvance, StateAdvance
        <3>6. AddrInv(S \cup {l}, q) /\ NeighInv(S \cup {l}, q)
            BY <1>2, <3>3, <3>4, AddrAdvance, NeighAdvance
        <3>7. QED  BY <3>5, <3>6 DEF HalfWay
    <2>7. PICK T : T = S \cup {l}
        OBVIOUS
    <2>8. VInv'
        BY <1>1, <2>2, <2>5, <2>6, <2>7, VInvNext
    <2>9. QED  BY <2>1, <2>8, NothingToSay
<1>9. CASE Fail /\ refused' = refused + 1
    <2>1. refused' # 0
        BY <1>2, <1>9
    <2>2. QED  BY <2>1, NothingToSay
<1>10. CASE Fail /\ refused' = refused /\ Reason(l)
    <2>1. event' = "failed"
        BY <1>10, FailedHandler
    <2>2. ASSUME Undisturbed'
          PROVE  Unrealizable
        <3>1. Undisturbed
            BY <1>1, <1>10, <2>2 DEF Undisturbed, Alone
        <3>2. ASSUME l.kind # "name"
              PROVE  UpToDate(S, NameLeaf(l.if))
            <4>1. phase # 1 /\ phase \in 1..16
                BY <1>1, <3>2, HandlerProgress
            <4>2. Done(NameLeaf(l.if))
                BY <1>1, <4>1, NameLeafFacts DEF Done
            <4>3. QED  BY <1>4, <4>2 DEF UpToDate, DoneSet
        <3>3. Position(S, l)
            BY <1>1, <1>2, <1>5, <1>6, <1>7, <3>1, <3>2 DEF Position
        <3>4. QED  BY <1>2, <1>10, <3>3, ReasonInEdit
    <2>3. Unrealizable' <=> Unrealizable
        BY <1>1, UnrealizableSame
    <2>4. FInv'
        BY <2>2, <2>3, Zenon DEF FInv
    <2>5. QED  BY <2>1, <2>4, NothingToSay
<1>11. QED  BY <1>3, <1>8, <1>9, <1>10 DEF Verdict

\* HalfWayBegins, for any state.
LEMMA EveryEditBegins ==
    WellFormed(running) /\ WellFormed(cand) /\ kernel \in Kernel /\ InStep(kernel, running)
    => \A S, k : S = {} /\ k = kernel => HalfWay(S, k)
    BY HalfWayBegins

\* An edit that finds the kernel in step with running.
LEMMA VerdictBegins ==
    ASSUME PInv, PInv', ApplyChanges
    PROVE  VInv' /\ FInv'
<1>1. UNCHANGED <<running, kernel>> /\ event' = "change"
      /\ instep' = InStep(kernel, running)
    BY DEF ApplyChanges
<1>2. (WellFormed(running) /\ WellFormed(cand) /\ kernel \in Kernel)'
    BY DEF PInv, IInv, TypeOK
<1>3. InStep(kernel, running)' <=> InStep(kernel, running)
    BY <1>1 DEF InStep, Realizes, LinkRealized, AddrRealized, NeighRealized, Exists, PrefixOf
<1>4. DoneSet' = {}
    <2>1. \A m \in Leaf : ~Done(m)'
        BY ApplyDone
    <2>2. QED  BY <2>1 DEF DoneSet, Changed
<1>5. (WellFormed(running) /\ WellFormed(cand) /\ kernel \in Kernel /\ InStep(kernel, running)
       => \A S, k : S = {} /\ k = kernel => HalfWay(S, k))'
    BY EveryEditBegins, PTL
<1>6. ASSUME Undisturbed', NEW S, NEW k, S = DoneSet', k = kernel'
      PROVE  HalfWay(S, k)'
    <2>1. InStep(kernel, running)'
        BY <1>1, <1>3, <1>6 DEF Undisturbed
    <2>2. QED  BY <1>2, <1>4, <1>5, <1>6, <2>1
<1>7. VInv'
    BY <1>6 DEF VInv
<1>8. QED  BY <1>1, <1>7, NothingToSay

\* A step of the callback between two handlers.
LEMMA VerdictQuiet ==
    ASSUME WInv, StartPhase \/ FinishPhase \/ ReturnOK
    PROVE  VInv' /\ FInv'
<1>1. PInv /\ VInv /\ event = "change" /\ UNCHANGED <<running, cand, kernel, instep, external>>
    BY DEF WInv, StartPhase, FinishPhase, ReturnOK
<1>2. refused \in Nat
    BY <1>1, ChangeAssumption DEF PInv, IInv, TypeOK
<1>3. CASE (StartPhase /\ event' = "change") \/ FinishPhase \/ ReturnOK
    <2>1. event' # "failed" /\ refused' = refused
        BY <1>1, <1>3 DEF StartPhase, FinishPhase, ReturnOK, Fail
    <2>2. Changed(Leaf)' = Changed(Leaf)
        BY <1>1 DEF Changed, Operation
    <2>3. \A m \in Changed(Leaf) : Done(m)' <=> Done(m)
        BY <1>1, <1>3, QuietDone
    <2>4. DoneSet' = DoneSet
        BY <2>2, <2>3 DEF DoneSet
    <2>5. PICK S, k : S = DoneSet /\ k = kernel
        OBVIOUS
    <2>6. Undisturbed' => HalfWay(S, k)
        BY <1>1, <2>1, <2>5 DEF VInv, Undisturbed, Alone
    <2>7. VInv'
        BY <1>1, <2>4, <2>5, <2>6, VInvNext
    <2>8. QED  BY <2>1, <2>7, NothingToSay
<1>4. CASE StartPhase /\ event' # "change"
    <2>1. refused' = refused + 1
        BY <1>1, <1>4, Zenon DEF StartPhase
    <2>2. QED  BY <1>2, <2>1, NothingToSay
<1>5. QED  BY <1>3, <1>4

\* Every step preserves that the verdict is right.
LEMMA VerdictStep == WInv /\ [Next]_vars => WInv'
<1> SUFFICES ASSUME WInv, [Next]_vars PROVE WInv'
    OBVIOUS
<1>1. PInv /\ PInv'
    BY PInvStep DEF WInv
<1>2. CASE \E l \in todo : Handle(l)
    BY <1>1, <1>2, VerdictHandler DEF WInv
<1>3. CASE StartPhase \/ FinishPhase \/ ReturnOK
    BY <1>1, <1>3, VerdictQuiet DEF WInv
<1>4. CASE ApplyChanges
    BY <1>1, <1>4, VerdictBegins DEF WInv
<1>5. CASE DoneEvent \/ AbortEvent \/ DropEdit
    <2>1. event' \notin {"change", "applied", "failed"}
        BY <1>5 DEF DoneEvent, AbortEvent, DropEdit
    <2>2. QED  BY <1>1, <2>1, NothingToSay DEF WInv
<1>6. CASE Others
    <2>1. external' # 0
        BY <1>1, <1>6, OthersCount DEF PInv
    <2>2. QED  BY <1>1, <2>1, NothingToSay DEF WInv
<1>7. CASE UNCHANGED vars
    <2>1. UNCHANGED <<running, cand, kernel, event>> /\ (Undisturbed' <=> Undisturbed)
        BY <1>7 DEF vars, Undisturbed, Alone
    <2>2. DoneSet' = DoneSet
        BY <1>7 DEF vars, DoneSet, Changed, Operation, Done
    <2>3. CASE event \in {"change", "applied"}
        <3>1. PICK S, k : S = DoneSet /\ k = kernel
            OBVIOUS
        <3>2. Undisturbed' => HalfWay(S, k)
            BY <2>1, <2>3, <3>1 DEF WInv, VInv
        <3>3. VInv'
            BY <2>1, <2>2, <3>1, <3>2, VInvNext
        <3>4. QED  BY <1>1, <2>1, <2>3, <3>3, NothingToSay DEF WInv
    <2>4. CASE event \notin {"change", "applied"}
        <3>1. VInv'
            BY <2>1, <2>4, NothingToSay
        <3>2. Unrealizable' <=> Unrealizable
            BY <2>1, UnrealizableSame
        <3>3. FInv'
            BY <2>1, <3>2, Zenon DEF WInv, FInv
        <3>4. QED  BY <1>1, <3>1, <3>3 DEF WInv
    <2>5. QED  BY <2>3, <2>4
<1>8. QED
    BY <1>2, <1>3, <1>4, <1>5, <1>6, <1>7 DEF Next, Callback, Sysrepo

\* The verdict of the callback on an undisturbed edit is right: accepted, the
\* kernel holds what the edit asks for and no longer what it removed; rejected,
\* the reason is in the edit itself.
THEOREM VerdictIsRight == Spec => []VerdictRight
<1>1. Init => WInv
    BY InitPInv DEF Init, WInv, VInv, FInv
<1>2. WInv => VerdictRight
    <2> SUFFICES ASSUME WInv, Undisturbed, event \in {"applied", "failed"}
                 PROVE  /\ event = "applied" => EditRealized /\ EditRemoved
                        /\ event = "failed" => Unrealizable
        BY DEF VerdictRight
    <2>1. CASE event = "applied"
        <3>1. WellFormed(running) /\ WellFormed(cand) /\ kernel \in Kernel
            BY DEF WInv, PInv, IInv, TypeOK
        <3>2. HalfWay(DoneSet, kernel)
            BY <2>1 DEF WInv, VInv
        <3>3. DoneSet = Changed(Leaf)
            BY <2>1, AppliedDone DEF WInv, DoneSet, Changed
        <3>4. QED  BY <2>1, <3>1, <3>2, <3>3, HalfWayEnds
    <2>2. CASE event = "failed"
        BY <2>2 DEF WInv, FInv
    <2>3. QED  BY <2>1, <2>2
<1>3. QED  BY <1>1, <1>2, VerdictStep, PTL DEF Spec
=============================================================================
