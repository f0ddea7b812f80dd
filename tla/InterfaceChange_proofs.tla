----------------------- MODULE InterfaceChange_proofs ------------------------
(***************************************************************************)
(* Proofs about InterfaceChange, for every set of interfaces, addresses,   *)
(* neighbours and client configurations and every bound.                   *)
(***************************************************************************)
EXTENDS InterfaceChange, InterfaceConfig_proofs

-----------------------------------------------------------------------------
(* Prefix lengths                                                          *)

\* The prefix length of a configured address, given by prefix-length or by
\* netmask, is one the kernel knows.
LEMMA PrefixOfType ==
    ASSUME NEW c, WellFormed(c), NEW i \in Iface, NEW a \in Addr, Exists(c, "ip", i, a)
    PROVE  PrefixOf(c, i, a) \in Prefix
<1>1. CASE Exists(c, "prefix-length", i, a)
    <2>1. LeafAt("prefix-length", i, a) \in Leaf
        BY LeafMembers
    <2>2. c[LeafAt("prefix-length", i, a)] \in PrefixLen
        BY <1>1, <2>1, LeafValues DEF Exists, WellFormed, LeafAt
    <2>3. QED  BY <1>1, <2>2, PrefixAssumption DEF PrefixOf, Prefix
<1>2. CASE ~Exists(c, "prefix-length", i, a)
    <2>1. a \in Addr4 /\ Exists(c, "netmask", i, a)
        BY <1>2 DEF WellFormed, AddressesOK, Addr
    <2>2. LeafAt("netmask", i, a) \in Leaf
        BY <2>1, LeafMembers
    <2>3. c[LeafAt("netmask", i, a)] \in Netmask
        BY <2>1, <2>2, LeafValues DEF Exists, WellFormed, LeafAt
    <2>4. Netmask2Prefix(c[LeafAt("netmask", i, a)]) \in 0..32
        BY <2>3, NetmaskPrefix
    <2>5. QED  BY <1>2, <2>4 DEF PrefixOf, Prefix
<1>3. QED  BY <1>1, <1>2

-----------------------------------------------------------------------------
(* The changes of an edit                                                  *)

\* A leaf that is handled and not deleted has a value in the edit.
LEMMA HandledHasValue ==
    ASSUME NEW l \in Leaf, Operation(l) # "NONE", Operation(l) # "DELETED"
    PROVE  cand[l] # NoValue
    BY DEF Operation

\* The operation sysrepo reports for a leaf, by its old and its new value.
LEMMA Operations ==
    ASSUME NEW l
    PROVE  /\ Operation(l) = "NONE" <=> running[l] = cand[l]
           /\ Operation(l) = "CREATED" <=> running[l] = NoValue /\ cand[l] # NoValue
           /\ Operation(l) = "DELETED" <=> running[l] # NoValue /\ cand[l] = NoValue
           /\ Operation(l) = "MODIFIED" <=> /\ running[l] # cand[l]
                                            /\ running[l] # NoValue
                                            /\ cand[l] # NoValue
    BY DEF Operation

\* An address that is being created has, in the edit, exactly one leaf for its
\* subnet, and that leaf is created with it.
LEMMA CreatedAddress ==
    ASSUME WellFormed(running), WellFormed(cand), NEW i \in Iface, NEW a \in Addr,
           Operation(LeafAt("ip", i, a)) = "CREATED"
    PROVE  /\ Exists(cand, "ip", i, a)
           /\ ~Exists(running, "prefix-length", i, a)
           /\ a \in Addr4 => ~Exists(running, "netmask", i, a)
           /\ Exists(cand, "prefix-length", i, a) \/ (a \in Addr4 /\ Exists(cand, "netmask", i, a))
<1>1. ~Exists(running, "ip", i, a) /\ Exists(cand, "ip", i, a)
    BY Operations DEF Exists
<1>2. QED  BY <1>1 DEF WellFormed, AddressesOK, Addr

\* Resetting a collected prefix gives an empty mod_data.
LEMMA ResetCollected ==
    ASSUME NEW f \in Family, NEW set, NEW v,
           NEW s, s = [NoScratch EXCEPT ![f] = PrefixData(NoData, set, v)]
    PROVE  ResetPrefix(s, f) = NoScratch
<1>1. PrefixData(s[f], FALSE, 0) = NoData
    BY DEF PrefixData, NoScratch, NoData
<1>2. QED  BY <1>1 DEF ResetPrefix, NoScratch

\* The IPv4 ip handler collects the prefix length of the very entry it creates,
\* and leaves mod_data as it found it.
LEMMA CollectedPrefix4 ==
    ASSUME WellFormed(running), WellFormed(cand), scratch = NoScratch,
           NEW i \in Iface, NEW a \in Addr, Operation(LeafAt("ip", i, a)) = "CREATED",
           NEW f \in Family,
           NEW s, s = CollectNetmask(CollectPrefix(scratch, f, PrefixLengthXpath(i, a)),
                                     f, NetmaskXpath(i, a))
    PROVE  /\ s[f].prefix_set /\ s[f].prefix_length = PrefixOf(cand, i, a)
           /\ ResetPrefix(s, f) = NoScratch
<1> DEFINE pl == LeafAt("prefix-length", i, a)
           nm == LeafAt("netmask", i, a)
<1>1. pl \in Leaf /\ (a \in Addr4 => nm \in Leaf)
    BY LeafMembers
<1>2. PrefixLengthXpath(i, a) = {pl} /\ (a \in Addr4 => NetmaskXpath(i, a) = {nm})
    BY <1>1 DEF PrefixLengthXpath, NetmaskXpath
<1>3. CASE Exists(cand, "prefix-length", i, a)
    <2>1. Changed(PrefixLengthXpath(i, a)) = {pl}
        BY <1>2, <1>3, CreatedAddress, Operations DEF Changed, Exists
    <2>2. CollectPrefix(scratch, f, PrefixLengthXpath(i, a)) =
             [NoScratch EXCEPT ![f] = PrefixData(NoData, TRUE, cand[pl])]
        BY <2>1 DEF CollectPrefix, NoScratch
    <2>3. s = [NoScratch EXCEPT ![f] = PrefixData(NoData, TRUE, cand[pl])]
        BY <2>2 DEF CollectNetmask, NoScratch, PrefixData
    <2>4. s[f].prefix_set /\ s[f].prefix_length = cand[pl]
        BY <2>3 DEF NoScratch, PrefixData
    <2>5. ResetPrefix(s, f) = NoScratch
        BY <2>3, ResetCollected
    <2>6. QED  BY <1>3, <2>4, <2>5 DEF PrefixOf
<1>4. CASE ~Exists(cand, "prefix-length", i, a)
    <2>1. a \in Addr4 /\ Exists(cand, "netmask", i, a) /\ ~Exists(running, "netmask", i, a)
        BY <1>4, CreatedAddress
    <2>2. Changed(PrefixLengthXpath(i, a)) = {}
        BY <1>2, <1>4, CreatedAddress, Operations DEF Changed, Exists
    <2>3. Changed(NetmaskXpath(i, a)) = {nm}
        BY <1>2, <2>1, Operations DEF Changed, Exists
    <2>4. CollectPrefix(scratch, f, PrefixLengthXpath(i, a)) = NoScratch
        BY <2>2 DEF CollectPrefix
    <2>5. s = [NoScratch EXCEPT ![f] = PrefixData(NoData, TRUE, Netmask2Prefix(cand[nm]))]
        <3>1. NoScratch[f] = NoData
            BY DEF NoScratch
        <3>2. ~NoScratch[f].prefix_set
            BY <3>1 DEF NoData
        <3>3. (CHOOSE l \in {nm} : TRUE) = nm
            OBVIOUS
        <3>4. s = CollectNetmask(NoScratch, f, NetmaskXpath(i, a))
            BY <2>4
        <3>5. QED  BY <2>3, <3>1, <3>2, <3>3, <3>4 DEF CollectNetmask
    <2>6. s[f].prefix_set /\ s[f].prefix_length = Netmask2Prefix(cand[nm])
        BY <2>5 DEF NoScratch, PrefixData
    <2>7. ResetPrefix(s, f) = NoScratch
        BY <2>5, ResetCollected
    <2>8. QED  BY <1>4, <2>6, <2>7 DEF PrefixOf
<1>5. QED  BY <1>3, <1>4

\* So does the IPv6 one, which has no netmask to collect.
LEMMA CollectedPrefix6 ==
    ASSUME WellFormed(running), WellFormed(cand), scratch = NoScratch,
           NEW i \in Iface, NEW a \in Addr6, Operation(LeafAt("ip", i, a)) = "CREATED",
           NEW f \in Family, NEW s, s = CollectPrefix(scratch, f, PrefixLengthXpath(i, a))
    PROVE  /\ s[f].prefix_set /\ s[f].prefix_length = PrefixOf(cand, i, a)
           /\ ResetPrefix(s, f) = NoScratch
<1> DEFINE pl == LeafAt("prefix-length", i, a)
<1>1. a \in Addr /\ a \notin Addr4
    BY KeyAssumption DEF Addr
<1>2. PrefixLengthXpath(i, a) = {pl}
    BY <1>1, LeafMembers DEF PrefixLengthXpath
<1>3. Exists(cand, "prefix-length", i, a) /\ ~Exists(running, "prefix-length", i, a)
    BY <1>1, CreatedAddress
<1>4. Changed({pl}) = {pl}
    BY <1>3, Operations DEF Changed, Exists
<1>5. s = [NoScratch EXCEPT ![f] = PrefixData(NoData, TRUE, cand[pl])]
    BY <1>2, <1>4 DEF CollectPrefix, NoScratch
<1>6. s[f].prefix_set /\ s[f].prefix_length = cand[pl]
    BY <1>5 DEF NoScratch, PrefixData
<1>7. ResetPrefix(s, f) = NoScratch
    BY <1>5, ResetCollected
<1>8. QED  BY <1>3, <1>6, <1>7 DEF PrefixOf

\* Likewise for the link-layer address of a neighbour.
LEMMA CollectedLlAddr ==
    ASSUME scratch = NoScratch, NEW f \in Family, NEW leaves,
           NEW s, s = CollectLlAddr(scratch, f, leaves)
    PROVE  ResetLlAddr(s, f) = NoScratch
    BY DEF ResetLlAddr, CollectLlAddr, NoScratch, LlData, NoData

\* The getter collects a link-layer address of the edit, or nothing.
LEMMA CollectedLlAddrType ==
    ASSUME scratch = NoScratch, Config(cand), NEW i \in Iface, NEW n \in Neigh,
           NEW f \in Family, NEW s, s = CollectLlAddr(scratch, f, LlAddrXpath(i, n))
    PROVE  s[f].lladdr \in LlAddr \cup {NoValue}
<1> DEFINE ll == LeafAt("link-layer-address", i, n)
<1>1. ll \in Leaf /\ LlAddrXpath(i, n) = {ll}
    BY LeafMembers DEF LlAddrXpath
<1>2. cand[ll] \in LlAddr \cup {NoValue}
    BY <1>1, LeafValues DEF LeafAt
<1>3. CASE Changed({ll}) = {}
    BY <1>1, <1>3 DEF CollectLlAddr, NoScratch, NoData
<1>4. CASE Changed({ll}) # {}
    <2>1. Changed({ll}) = {ll}
        BY <1>4 DEF Changed
    <2>2. s = [NoScratch EXCEPT ![f] = LlData(NoScratch[f], cand[ll])]
        BY <1>1, <2>1 DEF CollectLlAddr
    <2>3. s[f].lladdr = cand[ll]
        BY <2>2 DEF NoScratch, LlData
    <2>4. QED  BY <1>2, <2>3
<1>5. QED  BY <1>3, <1>4

-----------------------------------------------------------------------------
(* The kernel                                                              *)

\* A kernel is what its five parts are.
LEMMA KernelParts ==
    ASSUME NEW k \in Kernel
    PROVE  /\ k.link \in [Iface -> Ifindex \cup {Gone}]
           /\ k.up \in [Iface -> BOOLEAN]
           /\ k.mtu \in [Iface -> Mtu \cup {DefaultMtu}]
           /\ k.addr \in SUBSET (Iface \X Addr \X Prefix)
           /\ k.neigh \in SUBSET (Iface \X Neigh \X LlAddr)
    BY DEF Kernel

\* Requests lead from kernels to kernels.
LEMMA LinkRequests ==
    ASSUME NEW k \in Kernel, NEW i \in Iface
    PROVE  /\ FreshIfindex # {} => AddLink(k, i) \in Kernel
           /\ DeleteLink(k, i) \in Kernel
           /\ \A up \in BOOLEAN : SetUp(k, i, up) \in Kernel
           /\ \A m \in Mtu \cup {DefaultMtu} : SetMtu(k, i, m) \in Kernel
<1>1. FreshIfindex # {} => AddLink(k, i) \in Kernel
    <2>1. FreshIfindex # {} => (CHOOSE x \in FreshIfindex : TRUE) \in Ifindex
        BY DEF FreshIfindex
    <2>2. QED  BY <2>1 DEF AddLink, Kernel
<1>2. DeleteLink(k, i) \in Kernel
    BY DEF DeleteLink, Kernel
<1>3. \A up \in BOOLEAN : SetUp(k, i, up) \in Kernel
    BY DEF SetUp, Kernel
<1>4. \A m \in Mtu \cup {DefaultMtu} : SetMtu(k, i, m) \in Kernel
    BY DEF SetMtu, Kernel
<1>5. QED  BY <1>1, <1>2, <1>3, <1>4

\* Adding and deleting an address leads from kernels to kernels.
LEMMA AddrRequests ==
    ASSUME NEW k \in Kernel, NEW i \in Iface, NEW a \in Addr, NEW p
    PROVE  /\ DeleteAddr(k, i, a, p) \in Kernel
           /\ p \in Prefix => AddAddr(k, i, a, p) \in Kernel
<1>1. DeleteAddr(k, i, a, p) \in Kernel
    BY DEF DeleteAddr, Kernel
<1>2. p \in Prefix => AddAddr(k, i, a, p) \in Kernel
    BY DEF AddAddr, Kernel
<1>3. QED  BY <1>1, <1>2

\* So does adding, replacing and deleting a neighbour.
LEMMA NeighRequests ==
    ASSUME NEW k \in Kernel, NEW i \in Iface, NEW n \in Neigh, NEW ll
    PROVE  /\ DeleteNeigh(k, i, n) \in Kernel
           /\ ll \in LlAddr => /\ ReplaceNeigh(k, i, n, ll) \in Kernel
                               /\ CreateNeigh(k, i, n, ll) \in Kernel
<1>1. DeleteNeigh(k, i, n) \in Kernel
    BY DEF DeleteNeigh, Kernel
<1>2. ll \in LlAddr => ReplaceNeigh(k, i, n, ll) \in Kernel
    BY DEF ReplaceNeigh, Kernel
<1>3. ll \in LlAddr => CreateNeigh(k, i, n, ll) \in Kernel
    BY <1>2 DEF CreateNeigh
<1>4. QED  BY <1>1, <1>2, <1>3

-----------------------------------------------------------------------------
(* The inductive invariant                                                 *)

\* TypeOK alone is not inductive: that a handler reads a value of the right
\* type from the edit rests on its leaf being a changed one, and that mod_data
\* keeps its type on every handler starting from an empty one.
IInv == TypeOK /\ ContextClean

\* The callback has sixteen phases.
LEMMA PhasesLength == Len(Phases) = 16
    BY DEF Phases

\* An empty mod_data has the type of mod_data.
LEMMA NoScratchType == NoScratch \in [Family -> ModData]
    BY DEF NoScratch, NoData, ModData, Prefix

\* Nothing allocated is a snapshot that is not open.
LEMMA NoSnapshotType == NoSnapshot \in Snapshot /\ ~NoSnapshot.open
    BY DEF NoSnapshot, Snapshot

\* The set of changes is the same before and after a step of a callback.
LEMMA SameChanges ==
    ASSUME UNCHANGED <<running, cand>>
    PROVE  Changed(Leaf)' = Changed(Leaf)
    BY DEF Changed, Operation

\* The invariant holds when the plugin has subscribed.
LEMMA InitIInv == Init => IInv
<1> SUFFICES ASSUME Init PROVE IInv
    OBVIOUS
<1>1. WellFormed(running) /\ WellFormed(cand)
    BY EmptyWellFormed DEF Init
<1>2. kernel \in Kernel
    BY DEF Init, EmptyKernel, Kernel
<1>3. TypeOK
    BY <1>1, <1>2, NoScratchType, NoSnapshotType, PhasesLength, ChangeAssumption DEF Init, TypeOK
<1>4. ContextClean
    BY NoSnapshotType DEF Init, ContextClean
<1>5. QED  BY <1>3, <1>4 DEF IInv

\* Whatever a handler does, it succeeds, is refused or fails, with a kernel.
LEMMA Outcome ==
    ASSUME IInv, NEW kind, NEW keys, NEW l, Handling(kind, keys, l), NEW k \in Kernel,
           NEW s, s = NoScratch,
           Succeed(l, k, s) \/ Refuse(k) \/ Error(k)
    PROVE  IInv'
<1> USE DEF IInv
<1>1. UNCHANGED <<running, cand, phase, instep, external>>
    BY DEF Handling
<1>2. Changed(Leaf)' = Changed(Leaf)
    BY <1>1, SameChanges
<1>3. WellFormed(running)' /\ WellFormed(cand)'
    <2>1. WellFormed(running) /\ WellFormed(cand)
        BY DEF TypeOK
    <2>2. QED  BY <1>1, <2>1
<1>4. CASE Succeed(l, k, s)
    <2>1. TypeOK'
        BY <1>1, <1>3, <1>4, NoScratchType DEF TypeOK, Succeed
    <2>2. ContextClean'
        BY <1>1, <1>2, <1>4 DEF ContextClean, Succeed, Handling
    <2>3. QED  BY <2>1, <2>2
<1>5. CASE Fail /\ kernel' = k /\ refused' \in 0..MaxRefusal
    <2>1. TypeOK'
        BY <1>1, <1>3, <1>5, NoScratchType, NoSnapshotType DEF TypeOK, Fail
    <2>2. ContextClean'
        BY <1>1, <1>2, <1>5, NoSnapshotType DEF ContextClean, Fail
    <2>3. QED  BY <2>1, <2>2
<1>6. Refuse(k) \/ Error(k) => Fail /\ kernel' = k /\ refused' \in 0..MaxRefusal
    BY ChangeAssumption DEF Refuse, Error, TypeOK
<1>7. QED  BY <1>4, <1>5, <1>6

\* A handler with one request preserves the invariant if the request leads to
\* a kernel and mod_data is empty afterwards.
LEMMA RequestOutcome ==
    ASSUME IInv, NEW kind, NEW keys, NEW l, Handling(kind, keys, l), NEW possible, NEW k,
           possible => k \in Kernel, NEW s, s = NoScratch,
           Request(l, possible, k, s)
    PROVE  IInv'
<1>1. kernel \in Kernel
    BY DEF IInv, TypeOK
<1>2. CASE possible /\ Succeed(l, k, s)
    BY <1>2, Outcome
<1>3. CASE possible /\ Refuse(kernel)
    BY <1>1, <1>3, Outcome
<1>4. CASE ~possible /\ Error(kernel)
    BY <1>1, <1>4, Outcome
<1>5. QED  BY <1>2, <1>3, <1>4 DEF Request

\* What every handler finds: leaf l of the edit has changed, mod_data is empty.
LEMMA HandlerContext ==
    ASSUME IInv, NEW kind, NEW keys, NEW l, Handling(kind, keys, l)
    PROVE  /\ l \in Leaf /\ Operation(l) # "NONE"
           /\ kernel \in Kernel /\ scratch = NoScratch
           /\ Config(running) /\ Config(cand)
           /\ l.kind = kind /\ l.key \in keys
    BY DEF IInv, TypeOK, ContextClean, Handling, Changed, WellFormed

\* A handler that only looks the link up preserves the invariant.
LEMMA LookupOutcome ==
    ASSUME IInv, NEW kind, NEW keys, NEW l, Handling(kind, keys, l), LookupOnly(l)
    PROVE  IInv'
    BY HandlerContext, Outcome DEF LookupOnly

-----------------------------------------------------------------------------
(* One lemma per handler                                                   *)

\* change_name creates or deletes a link, or does nothing.
LEMMA change_name_IInv ==
    ASSUME IInv, NEW l, change_name(l)
    PROVE  IInv'
<1>1. Handling("name", {NoKey}, l)
    BY DEF change_name
<1>2. l \in Leaf /\ l.if \in Iface /\ kernel \in Kernel /\ scratch = NoScratch
    BY <1>1, HandlerContext, LeafKinds
<1>3. CASE Succeed(l, kernel, scratch)
    BY <1>1, <1>2, <1>3, Outcome
<1>4. CASE /\ FreshIfindex # {}
           /\ Request(l, TRUE, IF kernel.link[l.if] # Gone THEN kernel
                               ELSE AddLink(kernel, l.if), scratch)
    <2>1. AddLink(kernel, l.if) \in Kernel
        BY <1>2, <1>4, LinkRequests
    <2>2. (IF kernel.link[l.if] # Gone THEN kernel ELSE AddLink(kernel, l.if)) \in Kernel
        BY <1>2, <2>1
    <2>3. QED  BY <1>1, <1>2, <1>4, <2>2, RequestOutcome
<1>5. CASE Request(l, LinkAlive(l.if), DeleteLink(kernel, l.if), scratch)
    <2>1. DeleteLink(kernel, l.if) \in Kernel
        BY <1>2, LinkRequests
    <2>2. QED  BY <1>1, <1>2, <1>5, <2>1, RequestOutcome
<1>6. QED  BY <1>3, <1>4, <1>5 DEF change_name

\* The leaves that are accepted and ignored.
LEMMA change_ignored_IInv ==
    ASSUME IInv, NEW l, change_description(l) \/ change_link_up_down_trap_enable(l)
    PROVE  IInv'
    BY HandlerContext, Outcome DEF change_description, change_link_up_down_trap_enable

\* change_type leaves the kernel as it is.
LEMMA change_type_IInv ==
    ASSUME IInv, NEW l, change_type(l)
    PROVE  IInv'
<1>1. Handling("type", {NoKey}, l)
    BY DEF change_type
<1>2. kernel \in Kernel /\ scratch = NoScratch
    BY <1>1, HandlerContext
<1>3. CASE Succeed(l, kernel, scratch)
    BY <1>1, <1>2, <1>3, Outcome
<1>4. CASE Request(l, LinkAlive(l.if) /\ cand[l] \in HandledTypes, kernel, scratch)
    BY <1>1, <1>2, <1>4, RequestOutcome
<1>5. QED  BY <1>3, <1>4 DEF change_type

\* change_enabled sets a Boolean of the edit, or the default.
LEMMA change_enabled_IInv ==
    ASSUME IInv, NEW l, change_enabled(l)
    PROVE  IInv'
<1>1. Handling("enabled", {NoKey}, l)
    BY DEF change_enabled
<1>2. l \in Leaf /\ l.if \in Iface /\ kernel \in Kernel /\ scratch = NoScratch
    BY <1>1, HandlerContext, LeafKinds
<1>3. CASE Succeed(l, kernel, scratch)
    BY <1>1, <1>2, <1>3, Outcome
<1>4. CASE /\ Operation(l) # "DELETED"
           /\ Request(l, LinkAlive(l.if), SetUp(kernel, l.if, cand[l]), scratch)
    <2>1. l.kind = "enabled" /\ cand[l] # NoValue /\ Config(cand)
        BY <1>1, <1>4, HandlerContext, HandledHasValue
    <2>2. cand[l] \in BOOLEAN
        BY <1>2, <2>1, LeafValues
    <2>3. SetUp(kernel, l.if, cand[l]) \in Kernel
        BY <1>2, <2>2, LinkRequests
    <2>4. QED  BY <1>1, <1>2, <1>4, <2>3, RequestOutcome
<1>5. CASE Request(l, LinkAlive(l.if), SetUp(kernel, l.if, TRUE), scratch)
    <2>1. SetUp(kernel, l.if, TRUE) \in Kernel
        BY <1>2, LinkRequests
    <2>2. QED  BY <1>1, <1>2, <1>5, <2>1, RequestOutcome
<1>6. QED  BY <1>3, <1>4, <1>5 DEF change_enabled

\* ipv4_change_mtu sets an mtu of the edit, or the default.
LEMMA ipv4_change_mtu_IInv ==
    ASSUME IInv, NEW l, ipv4_change_mtu(l)
    PROVE  IInv'
<1> DEFINE m == IF Operation(l) = "DELETED" THEN DefaultMtu ELSE cand[l]
<1>1. Handling("mtu", {NoKey}, l) /\ Request(l, LinkAlive(l.if), SetMtu(kernel, l.if, m), scratch)
    BY DEF ipv4_change_mtu
<1>2. /\ l \in Leaf /\ l.kind = "mtu" /\ l.if \in Iface
      /\ kernel \in Kernel /\ scratch = NoScratch /\ Config(cand)
    BY <1>1, HandlerContext, LeafKinds
<1>3. Operation(l) # "DELETED" => cand[l] \in Mtu
    BY <1>1, <1>2, HandlerContext, HandledHasValue, LeafValues
<1>4. m \in Mtu \cup {DefaultMtu}
    BY <1>3
<1>5. SetMtu(kernel, l.if, m) \in Kernel
    BY <1>2, <1>4, LinkRequests
<1>6. QED  BY <1>1, <1>2, <1>5, RequestOutcome

\* ipv4_change_enabled succeeds or fails, and leaves the kernel as it is.
LEMMA ipv4_change_enabled_IInv ==
    ASSUME IInv, NEW l, ipv4_change_enabled(l)
    PROVE  IInv'
    BY HandlerContext, Outcome DEF ipv4_change_enabled

\* An entry with nothing collected is reset to nothing.
LEMMA ResetNothing ==
    ASSUME NEW f \in Family
    PROVE  ResetPrefix(NoScratch, f) = NoScratch /\ ResetLlAddr(NoScratch, f) = NoScratch
    BY DEF ResetPrefix, ResetLlAddr, PrefixData, LlData, NoScratch, NoData

\* What the getters of an ip handler have collected when the entry of leaf l is
\* created: its prefix length, and nothing that outlives the handler.
CollectedFor(l, f, s) ==
    Operation(l) = "CREATED" => /\ s[f].prefix_set
                                /\ s[f].prefix_length = PrefixOf(cand, l.if, l.key)
                                /\ ResetPrefix(s, f) = NoScratch

\* The IPv4 getters collect that.
LEMMA CollectedIp4 ==
    ASSUME IInv, NEW l, Handling("ip", Addr4, l), NEW s,
           s = CollectNetmask(CollectPrefix(scratch, "ipv4", PrefixLengthXpath(l.if, l.key)),
                              "ipv4", NetmaskXpath(l.if, l.key))
    PROVE  CollectedFor(l, "ipv4", s)
<1>1. /\ l.if \in Iface /\ l.key \in Addr /\ l = LeafAt("ip", l.if, l.key)
      /\ scratch = NoScratch
    BY HandlerContext, LeafKinds DEF AddrKinds
<1>2. WellFormed(running) /\ WellFormed(cand) /\ "ipv4" \in Family
    BY DEF IInv, TypeOK, Family
<1>3. QED  BY <1>1, <1>2, CollectedPrefix4 DEF CollectedFor

\* The IPv6 getter collects that.
LEMMA CollectedIp6 ==
    ASSUME IInv, NEW l, Handling("ip", Addr6, l), NEW s,
           s = CollectPrefix(scratch, "ipv6", PrefixLengthXpath(l.if, l.key))
    PROVE  CollectedFor(l, "ipv6", s)
<1>1. /\ l.if \in Iface /\ l.key \in Addr6 /\ l = LeafAt("ip", l.if, l.key)
      /\ scratch = NoScratch
    BY HandlerContext, LeafKinds DEF AddrKinds
<1>2. WellFormed(running) /\ WellFormed(cand) /\ "ipv6" \in Family
    BY DEF IInv, TypeOK, Family
<1>3. QED  BY <1>1, <1>2, CollectedPrefix6 DEF CollectedFor

\* Creating and deleting an address, once its prefix length is collected.
LEMMA ChangeAddress_IInv ==
    ASSUME IInv, NEW l, NEW keys \in SUBSET Addr, Handling("ip", keys, l),
           NEW f \in Family, NEW s, NEW ready, ChangeAddress(l, f, s, ready),
           CollectedFor(l, f, s)
    PROVE  IInv'
<1> DEFINE i == l.if
           a == l.key
           new == s[f].prefix_length
           old == PrefixOf(running, i, a)
<1>1. /\ l \in Leaf /\ i \in Iface /\ a \in Addr
      /\ l = LeafAt("ip", i, a)
      /\ kernel \in Kernel /\ scratch = NoScratch
    BY HandlerContext, LeafKinds DEF AddrKinds
<1>2. WellFormed(running) /\ WellFormed(cand)
    BY DEF IInv, TypeOK
<1>3. CASE /\ Operation(l) = "CREATED"
           /\ Request(l, LinkAlive(i) /\ ready /\ <<i, a, new>> \notin kernel.addr,
                      AddAddr(kernel, i, a, new), ResetPrefix(s, f))
    <2>1. Exists(cand, "ip", i, a)
        BY <1>1, <1>2, <1>3, CreatedAddress
    <2>2. new \in Prefix
        BY <1>1, <1>2, <1>3, <2>1, PrefixOfType DEF CollectedFor
    <2>3. AddAddr(kernel, i, a, new) \in Kernel
        BY <1>1, <2>2, AddrRequests
    <2>4. QED  BY <1>3, <2>3, RequestOutcome DEF CollectedFor
<1>4. CASE /\ Operation(l) = "DELETED"
           /\ Request(l, LinkAlive(i) /\ <<i, a, old>> \in kernel.addr,
                      DeleteAddr(kernel, i, a, old), ResetPrefix(scratch, f))
    <2>1. DeleteAddr(kernel, i, a, old) \in Kernel
        BY <1>1, AddrRequests
    <2>2. ResetPrefix(scratch, f) = NoScratch
        BY <1>1, ResetNothing
    <2>3. QED  BY <1>4, <2>1, <2>2, RequestOutcome
<1>5. QED  BY <1>3, <1>4 DEF ChangeAddress

\* ipv4_address_change_ip creates or deletes an IPv4 address.
LEMMA ipv4_address_change_ip_IInv ==
    ASSUME IInv, NEW l, ipv4_address_change_ip(l)
    PROVE  IInv'
<1> DEFINE s == CollectNetmask(CollectPrefix(scratch, "ipv4", PrefixLengthXpath(l.if, l.key)),
                               "ipv4", NetmaskXpath(l.if, l.key))
<1>1. Handling("ip", Addr4, l) /\ ChangeAddress(l, "ipv4", s, s["ipv4"].prefix_set)
    BY DEF ipv4_address_change_ip
<1>2. CollectedFor(l, "ipv4", s)
    BY <1>1, CollectedIp4
<1>3. Addr4 \in SUBSET Addr /\ "ipv4" \in Family
    BY DEF Addr, Family
<1>4. QED  BY <1>1, <1>2, <1>3, ChangeAddress_IInv

\* ipv6_address_change_ip creates or deletes an IPv6 address.
LEMMA ipv6_address_change_ip_IInv ==
    ASSUME IInv, NEW l, ipv6_address_change_ip(l)
    PROVE  IInv'
<1> DEFINE s == CollectPrefix(scratch, "ipv6", PrefixLengthXpath(l.if, l.key))
<1>1. Handling("ip", Addr6, l) /\ ChangeAddress(l, "ipv6", s, TRUE)
    BY DEF ipv6_address_change_ip
<1>2. CollectedFor(l, "ipv6", s)
    BY <1>1, CollectedIp6
<1>3. Addr6 \in SUBSET Addr /\ "ipv6" \in Family
    BY DEF Addr, Family
<1>4. QED  BY <1>1, <1>2, <1>3, ChangeAddress_IInv

\* A subnet leaf that is modified belongs to an address that is in the running
\* datastore and in the edit.
LEMMA ModifiedSubnet ==
    ASSUME WellFormed(running), WellFormed(cand), NEW l \in Leaf,
           l.kind \in {"prefix-length", "netmask"}, Operation(l) = "MODIFIED"
    PROVE  /\ l.if \in Iface /\ l.key \in Addr
           /\ Exists(running, "ip", l.if, l.key) /\ Exists(cand, "ip", l.if, l.key)
<1>1. l.if \in Iface /\ l = LeafAt(l.kind, l.if, l.key)
    BY LeafKinds
<1>2. l.key \in Addr /\ (l.kind = "netmask" => l.key \in Addr4)
    BY LeafKinds DEF AddrKinds, Addr
<1>3. Exists(running, l.kind, l.if, l.key) /\ Exists(cand, l.kind, l.if, l.key)
    BY <1>1, Operations DEF Exists
<1>4. AddressesOK(running, l.if) /\ AddressesOK(cand, l.if)
    BY <1>1 DEF WellFormed
<1>5. QED  BY <1>1, <1>2, <1>3, <1>4 DEF AddressesOK, Addr

\* Changing the prefix length or the netmask of an address, also when only the
\* delete or neither request goes through.
LEMMA ReplaceAddress_IInv ==
    ASSUME IInv, NEW l, NEW kind \in {"prefix-length", "netmask"}, NEW keys,
           Handling(kind, keys, l), ReplaceAddress(l)
    PROVE  IInv'
<1> DEFINE i == l.if
           a == l.key
           old == PrefixOf(running, i, a)
           new == PrefixOf(cand, i, a)
           removed == DeleteAddr(kernel, i, a, old)
<1>2. /\ l \in Leaf /\ l.kind \in {"prefix-length", "netmask"}
      /\ kernel \in Kernel /\ scratch = NoScratch
    BY HandlerContext
<1>3. WellFormed(running) /\ WellFormed(cand)
    BY DEF IInv, TypeOK
<1>4. CASE LookupOnly(l)
    BY <1>4, LookupOutcome
<1>5. CASE /\ Operation(l) = "MODIFIED"
           /\ \/ Succeed(l, AddAddr(removed, i, a, new), scratch)
              \/ Refuse(removed) \/ Refuse(kernel)
              \/ Error(removed) \/ Error(kernel)
    <2>1. i \in Iface /\ a \in Addr /\ Exists(cand, "ip", i, a)
        BY <1>2, <1>3, <1>5, ModifiedSubnet
    <2>2. new \in Prefix
        BY <1>3, <2>1, PrefixOfType
    <2>3. removed \in Kernel
        BY <1>2, <2>1, AddrRequests
    <2>4. AddAddr(removed, i, a, new) \in Kernel
        BY <2>1, <2>2, <2>3, AddrRequests
    <2>5. QED  BY <1>2, <1>5, <2>3, <2>4, Outcome
<1>6. QED  BY <1>4, <1>5 DEF ReplaceAddress

\* Creating and deleting a neighbour.
LEMMA ChangeNeighbor_IInv ==
    ASSUME IInv, NEW l, NEW keys \in SUBSET Neigh, Handling("neighbor-ip", keys, l),
           NEW f \in Family, ChangeNeighbor(l, f)
    PROVE  IInv'
<1> DEFINE i == l.if
           n == l.key
           s == CollectLlAddr(scratch, f, LlAddrXpath(i, n))
<1>1. /\ i \in Iface /\ n \in Neigh
      /\ kernel \in Kernel /\ scratch = NoScratch /\ Config(cand)
    BY HandlerContext, LeafKinds DEF NeighKinds
<1>2. CASE Request(l, LinkAlive(i) /\ s[f].lladdr # NoValue,
                   CreateNeigh(kernel, i, n, s[f].lladdr), ResetLlAddr(s, f))
    <2>1. s[f].lladdr \in LlAddr \cup {NoValue}
        BY <1>1, CollectedLlAddrType
    <2>2. s[f].lladdr # NoValue => CreateNeigh(kernel, i, n, s[f].lladdr) \in Kernel
        BY <1>1, <2>1, NeighRequests
    <2>3. ResetLlAddr(s, f) = NoScratch
        BY <1>1, CollectedLlAddr
    <2>4. QED  BY <1>2, <2>2, <2>3, RequestOutcome
<1>3. CASE Request(l, LinkAlive(i) /\ HasNeigh(kernel, i, n),
                   DeleteNeigh(kernel, i, n), ResetLlAddr(scratch, f))
    <2>1. DeleteNeigh(kernel, i, n) \in Kernel
        BY <1>1, NeighRequests
    <2>2. ResetLlAddr(scratch, f) = NoScratch
        BY <1>1, ResetNothing
    <2>3. QED  BY <1>3, <2>1, <2>2, RequestOutcome
<1>4. QED  BY <1>2, <1>3 DEF ChangeNeighbor

\* Changing the link-layer address of a neighbour.
LEMMA ReplaceNeighbor_IInv ==
    ASSUME IInv, NEW l, NEW keys \in SUBSET Neigh, Handling("link-layer-address", keys, l),
           ReplaceNeighbor(l)
    PROVE  IInv'
<1>1. /\ l \in Leaf /\ l.kind = "link-layer-address"
      /\ l.if \in Iface /\ l.key \in Neigh
      /\ kernel \in Kernel /\ scratch = NoScratch /\ Config(cand)
    BY HandlerContext, LeafKinds DEF NeighKinds
<1>2. CASE LookupOnly(l)
    BY <1>2, LookupOutcome
<1>3. CASE /\ Operation(l) = "MODIFIED"
           /\ Request(l, LinkAlive(l.if) /\ HasNeigh(kernel, l.if, l.key),
                      ReplaceNeigh(kernel, l.if, l.key, cand[l]), scratch)
    <2>1. cand[l] \in LlAddr
        BY <1>1, <1>3, Operations, LeafValues
    <2>2. ReplaceNeigh(kernel, l.if, l.key, cand[l]) \in Kernel
        BY <1>1, <2>1, NeighRequests
    <2>3. QED  BY <1>1, <1>3, <2>2, RequestOutcome
<1>4. QED  BY <1>2, <1>3 DEF ReplaceNeighbor

-----------------------------------------------------------------------------
(* The steps of sysrepo, of the callback and of others                     *)

\* Every handler preserves the invariant.
LEMMA Handle_IInv ==
    ASSUME IInv, NEW l, Handle(l)
    PROVE  IInv'
<1>1. CASE \/ change_name(l) \/ change_description(l) \/ change_type(l) \/ change_enabled(l)
           \/ change_link_up_down_trap_enable(l)
           \/ ipv4_change_mtu(l) \/ ipv4_change_enabled(l)
    BY <1>1, change_name_IInv, change_ignored_IInv, change_type_IInv, change_enabled_IInv,
       ipv4_change_mtu_IInv, ipv4_change_enabled_IInv
<1>2. CASE ipv4_address_change_ip(l) \/ ipv6_address_change_ip(l)
    BY <1>2, ipv4_address_change_ip_IInv, ipv6_address_change_ip_IInv
<1>3. CASE \/ ipv4_address_change_prefix_length(l) \/ ipv4_address_change_netmask(l)
           \/ ipv6_address_change_prefix_length(l)
    BY <1>3, ReplaceAddress_IInv
    DEF ipv4_address_change_prefix_length, ipv4_address_change_netmask,
        ipv6_address_change_prefix_length
<1>4. CASE ipv4_neighbor_change_ip(l) \/ ipv6_neighbor_change_ip(l)
    BY <1>4, ChangeNeighbor_IInv
    DEF ipv4_neighbor_change_ip, ipv6_neighbor_change_ip, Neigh, Family
<1>5. CASE \/ ipv4_neighbor_change_link_layer_address(l)
           \/ ipv6_neighbor_change_link_layer_address(l)
    BY <1>5, ReplaceNeighbor_IInv
    DEF ipv4_neighbor_change_link_layer_address, ipv6_neighbor_change_link_layer_address, Neigh
<1>6. QED  BY <1>1, <1>2, <1>3, <1>4, <1>5 DEF Handle

\* So does entering and leaving a phase: init takes a snapshot or fails, free
\* drops it.
LEMMA Phase_IInv ==
    ASSUME IInv, StartPhase \/ FinishPhase \/ ReturnOK
    PROVE  IInv'
<1> USE DEF IInv
<1>1. UNCHANGED <<running, cand, kernel, instep, external>>
    BY DEF StartPhase, FinishPhase, ReturnOK
<1>2. Changed(Leaf)' = Changed(Leaf)
    BY <1>1, SameChanges
<1>3. WellFormed(running)' /\ WellFormed(cand)'
    <2>1. WellFormed(running) /\ WellFormed(cand)
        BY DEF TypeOK
    <2>2. QED  BY <1>1, <2>1
<1>4. CASE StartPhase
    <2>1. CASE /\ nl' = [open |-> TRUE, link |-> kernel.link,
                         anyAddr |-> OtherAddr \/ kernel.addr # {}]
               /\ todo' = Changed(PhaseLeaves(phase))
               /\ UNCHANGED <<event, scratch, refused>>
        <3>1. nl' \in Snapshot /\ nl'.open
            BY <2>1, KernelParts DEF TypeOK, Snapshot
        <3>2. todo' \subseteq Changed(Leaf) /\ Changed(Leaf) \subseteq Leaf
            BY <2>1 DEF Changed, PhaseLeaves
        <3>3. TypeOK'
            BY <1>1, <1>3, <1>4, <2>1, <3>1, <3>2 DEF TypeOK, StartPhase
        <3>4. ContextClean'
            BY <1>1, <1>2, <1>4, <2>1, <3>1, <3>2 DEF ContextClean, StartPhase
        <3>5. QED  BY <3>3, <3>4
    <2>2. CASE refused < MaxRefusal /\ refused' = refused + 1 /\ Fail
        <3>1. refused' \in 0..MaxRefusal
            BY <2>2, ChangeAssumption DEF TypeOK
        <3>2. TypeOK'
            BY <1>1, <1>3, <1>4, <2>2, <3>1, NoScratchType, NoSnapshotType
            DEF TypeOK, StartPhase, Fail
        <3>3. ContextClean'
            BY <1>1, <1>2, <2>2, NoSnapshotType DEF ContextClean, Fail
        <3>4. QED  BY <3>2, <3>3
    <2>3. QED  BY <1>4, <2>1, <2>2 DEF StartPhase
<1>5. CASE FinishPhase
    <2>1. phase' \in 1..(Len(Phases) + 1)
        BY <1>5, PhasesLength DEF FinishPhase, TypeOK, ContextClean
    <2>2. TypeOK'
        BY <1>1, <1>3, <1>5, <2>1, NoScratchType, NoSnapshotType DEF TypeOK, FinishPhase
    <2>3. ContextClean'
        BY <1>1, <1>2, <1>5, NoSnapshotType DEF ContextClean, FinishPhase
    <2>4. QED  BY <2>2, <2>3
<1>6. CASE ReturnOK
    <2>1. TypeOK'
        BY <1>1, <1>3, <1>6 DEF TypeOK, ReturnOK
    <2>2. ~nl.open
        BY <1>6, PhasesLength DEF ContextClean, ReturnOK, TypeOK
    <2>3. ContextClean'
        BY <1>1, <1>2, <1>6, <2>2 DEF ContextClean, ReturnOK
    <2>4. QED  BY <2>1, <2>3
<1>7. QED  BY <1>4, <1>5, <1>6

\* sysrepo starts and ends events only while the callback is not running, when
\* nothing is allocated and no leaf is waiting.
LEMMA Sysrepo_IInv ==
    ASSUME IInv, Sysrepo
    PROVE  IInv'
<1> USE DEF IInv
<1>1. event # "change" /\ UNCHANGED <<todo, nl, scratch, kernel>>
    BY DEF Sysrepo, ApplyChanges, DoneEvent, AbortEvent, DropEdit
<1>2. ~nl.open /\ nl = NoSnapshot /\ todo = {} /\ scratch = NoScratch
    BY <1>1 DEF ContextClean
<1>3. ContextClean'
    BY <1>1, <1>2 DEF ContextClean
<1>4. WellFormed(running') /\ WellFormed(cand')
    BY ChangeAssumption
    DEF TypeOK, Sysrepo, ApplyChanges, DoneEvent, AbortEvent, DropEdit
<1>5. instep' \in BOOLEAN
    BY DEF TypeOK, Sysrepo, ApplyChanges, DoneEvent, AbortEvent, DropEdit,
           InStep, Realizes
<1>6. /\ event' \in {"idle", "change", "applied", "failed", "aborted"}
      /\ phase' \in 1..(Len(Phases) + 1)
      /\ external' \in 0..MaxExternal /\ refused' \in 0..MaxRefusal
    BY ChangeAssumption, PhasesLength
    DEF TypeOK, Sysrepo, ApplyChanges, DoneEvent, AbortEvent, DropEdit
<1>7. TypeOK'
    BY <1>1, <1>4, <1>5, <1>6 DEF TypeOK
<1>8. QED  BY <1>3, <1>7

\* Others on the host only change the kernel.
LEMMA External_IInv ==
    ASSUME IInv, NEW k \in Kernel, External(k)
    PROVE  IInv'
<1> USE DEF IInv
<1>1. Changed(Leaf)' = Changed(Leaf)
    BY SameChanges DEF External
<1>2. WellFormed(running)' /\ WellFormed(cand)'
    <2>1. WellFormed(running) /\ WellFormed(cand)
        BY DEF TypeOK
    <2>2. QED  BY <2>1 DEF External
<1>3. external' \in 0..MaxExternal
    BY ChangeAssumption DEF TypeOK, External
<1>4. TypeOK'
    BY <1>2, <1>3 DEF TypeOK, External
<1>5. ContextClean'
    BY <1>1 DEF ContextClean, External
<1>6. QED  BY <1>4, <1>5

\* Links and addresses others change stay links and addresses.
LEMMA Others_IInv ==
    ASSUME IInv, Others
    PROVE  IInv'
<1>1. kernel \in Kernel
    BY DEF IInv, TypeOK
<1>2. ASSUME NEW i \in Iface, ExternalLink(i) PROVE IInv'
    BY <1>1, <1>2, LinkRequests, External_IInv DEF ExternalLink
<1>3. ASSUME NEW i \in Iface, NEW a \in Addr, NEW p \in PrefixLen, ExternalAddr(i, a, p)
      PROVE  IInv'
    <2>1. p \in Prefix
        BY PrefixAssumption DEF Prefix
    <2>2. QED  BY <1>1, <1>3, <2>1, AddrRequests, External_IInv DEF ExternalAddr
<1>4. QED  BY <1>2, <1>3 DEF Others

\* Every step preserves the invariant.
LEMMA NextIInv == IInv /\ [Next]_vars => IInv'
<1> SUFFICES ASSUME IInv, [Next]_vars PROVE IInv'
    OBVIOUS
<1>1. CASE Callback
    BY <1>1, Handle_IInv, Phase_IInv DEF Callback
<1>2. CASE Sysrepo
    BY <1>2, Sysrepo_IInv
<1>3. CASE Others
    BY <1>3, Others_IInv
<1>4. CASE UNCHANGED vars
    <2>1. WellFormed(running)' /\ WellFormed(cand)'
        <3>1. WellFormed(running) /\ WellFormed(cand)
            BY DEF IInv, TypeOK
        <3>2. QED  BY <1>4, <3>1 DEF vars
    <2>2. Changed(Leaf)' = Changed(Leaf)
        BY <1>4, SameChanges DEF vars
    <2>3. QED  BY <1>4, <2>1, <2>2 DEF IInv, TypeOK, ContextClean, vars
<1>5. QED  BY <1>1, <1>2, <1>3, <1>4 DEF Next

\* The inductive invariant holds in every state.
THEOREM Invariance == Spec => []IInv
    BY InitIInv, NextIInv, PTL DEF Spec

-----------------------------------------------------------------------------
(* What follows from it                                                    *)

\* Every variable keeps its type and both datastores the form the schema
\* prescribes, however the kernel changes and wherever a request fails.
THEOREM TypeCorrect == Spec => []TypeOK
<1>1. IInv => TypeOK
    BY DEF IInv
<1>2. QED  BY <1>1, Invariance, PTL

\* Every handler starts from a clean context and every exit path, the failing
\* ones too, leaves one.
THEOREM CleanContext == Spec => []ContextClean
<1>1. IInv => ContextClean
    BY DEF IInv
<1>2. QED  BY <1>1, Invariance, PTL

\* A neighbour that is being created has no link-layer address in the running
\* datastore.
LEMMA CreatedNeighbor ==
    ASSUME WellFormed(running), NEW i \in Iface, NEW n \in Neigh,
           Operation(LeafAt("neighbor-ip", i, n)) = "CREATED"
    PROVE  ~Exists(running, "link-layer-address", i, n)
<1>1. ~Exists(running, "neighbor-ip", i, n)
    BY Operations DEF Exists
<1>2. QED  BY <1>1 DEF WellFormed, NeighborsOK

\* A changed leaf that the running datastore does not have is created.
LEMMA ChangedCreated ==
    ASSUME NEW leaves, NEW m \in Changed(leaves), running[m] = NoValue
    PROVE  Operation(m) = "CREATED"
    BY Operations DEF Changed

\* The asserts of the nested getters never fire, whatever edit the schema
\* allows: a list entry is created together with its mandatory leaves.
THEOREM AssertionsHold == Spec => []GetterAssertions
<1>1. IInv => GetterAssertions
    <2> SUFFICES ASSUME IInv, NEW l \in todo, Operation(l) = "CREATED"
                 PROVE  /\ l.kind = "ip" =>
                              \A m \in Changed(PrefixLengthXpath(l.if, l.key)
                                     \cup NetmaskXpath(l.if, l.key)) : Operation(m) = "CREATED"
                        /\ l.kind = "neighbor-ip" =>
                              \A m \in Changed(LlAddrXpath(l.if, l.key)) :
                                  Operation(m) = "CREATED"
        BY DEF GetterAssertions
    <2>1. l \in Leaf /\ WellFormed(running) /\ WellFormed(cand)
        BY DEF IInv, TypeOK
    <2>2. l.if \in Iface /\ l = LeafAt(l.kind, l.if, l.key)
        BY <2>1, LeafKinds
    <2>3. ASSUME l.kind = "ip",
                 NEW m \in Changed(PrefixLengthXpath(l.if, l.key) \cup NetmaskXpath(l.if, l.key))
          PROVE  Operation(m) = "CREATED"
        <3>1. l.key \in Addr
            BY <2>1, <2>3, LeafKinds DEF AddrKinds
        <3>2. ~Exists(running, "prefix-length", l.if, l.key)
            BY <2>1, <2>2, <2>3, <3>1, CreatedAddress
        <3>3. l.key \in Addr4 => ~Exists(running, "netmask", l.if, l.key)
            BY <2>1, <2>2, <2>3, <3>1, CreatedAddress
        <3>4. m \in PrefixLengthXpath(l.if, l.key) \/ m \in NetmaskXpath(l.if, l.key)
            BY <2>3 DEF Changed
        <3>5. m \in NetmaskXpath(l.if, l.key) => l.key \in Addr4
            BY LeafKinds DEF NetmaskXpath, LeafAt
        <3>6. running[m] = NoValue
            BY <3>2, <3>3, <3>4, <3>5 DEF PrefixLengthXpath, NetmaskXpath, Exists
        <3>7. QED  BY <2>3, <3>6, ChangedCreated
    <2>4. ASSUME l.kind = "neighbor-ip", NEW m \in Changed(LlAddrXpath(l.if, l.key))
          PROVE  Operation(m) = "CREATED"
        <3>1. l.key \in Neigh
            BY <2>1, <2>4, LeafKinds DEF NeighKinds
        <3>2. ~Exists(running, "link-layer-address", l.if, l.key)
            BY <2>1, <2>2, <2>4, <3>1, CreatedNeighbor
        <3>3. running[m] = NoValue
            BY <2>4, <3>2 DEF Changed, LlAddrXpath, Exists
        <3>4. QED  BY <2>4, <3>3, ChangedCreated
    <2>5. QED  BY <2>3, <2>4
<1>2. QED  BY <1>1, Invariance, PTL

-----------------------------------------------------------------------------
(* Addresses                                                               *)

\* The requests that are not about addresses add none.
LEMMA NoAddressAdded ==
    ASSUME NEW k \in Kernel, NEW i \in Iface
    PROVE  /\ AddLink(k, i).addr = k.addr
           /\ DeleteLink(k, i).addr \subseteq k.addr
           /\ \A up : SetUp(k, i, up).addr \subseteq k.addr
           /\ \A m : SetMtu(k, i, m).addr = k.addr
           /\ \A n : DeleteNeigh(k, i, n).addr = k.addr
           /\ \A n, ll : /\ ReplaceNeigh(k, i, n, ll).addr = k.addr
                         /\ CreateNeigh(k, i, n, ll).addr = k.addr
<1>1. AddLink(k, i).addr = k.addr
    BY DEF AddLink, Kernel
<1>2. DeleteLink(k, i).addr \subseteq k.addr
    BY DEF DeleteLink, Kernel
<1>3. ASSUME NEW up PROVE SetUp(k, i, up).addr \subseteq k.addr
    BY DEF SetUp, Kernel
<1>4. ASSUME NEW m PROVE SetMtu(k, i, m).addr = k.addr
    BY DEF SetMtu, Kernel
<1>5. ASSUME NEW n PROVE DeleteNeigh(k, i, n).addr = k.addr
    BY DEF DeleteNeigh, Kernel
<1>6. ASSUME NEW n, NEW ll
      PROVE  ReplaceNeigh(k, i, n, ll).addr = k.addr /\ CreateNeigh(k, i, n, ll).addr = k.addr
    BY DEF ReplaceNeigh, CreateNeigh, Kernel
<1>7. QED  BY <1>1, <1>2, <1>3, <1>4, <1>5, <1>6

\* What the two address requests do to the addresses.
LEMMA AddressRequest ==
    ASSUME NEW k \in Kernel, NEW i \in Iface, NEW a \in Addr, NEW p
    PROVE  /\ AddAddr(k, i, a, p).addr = k.addr \cup {<<i, a, p>>}
           /\ DeleteAddr(k, i, a, p).addr \subseteq k.addr
    BY DEF AddAddr, DeleteAddr, Kernel

\* A handler leaves one of the kernels its outcomes name.
LEMMA HandlerKernel ==
    ASSUME NEW l, NEW possible, NEW k, NEW s, Request(l, possible, k, s)
    PROVE  kernel' = k \/ kernel' = kernel
    BY DEF Request, Succeed, Refuse, Error

\* The handlers of other leaves add no address.
LEMMA OtherHandlersAddNoAddress ==
    ASSUME IInv, NEW kind, NEW keys, NEW l, Handling(kind, keys, l),
           \/ change_name(l) \/ change_description(l) \/ change_type(l) \/ change_enabled(l)
           \/ change_link_up_down_trap_enable(l)
           \/ ipv4_change_mtu(l) \/ ipv4_change_enabled(l)
           \/ \E f \in Family : ChangeNeighbor(l, f)
           \/ ReplaceNeighbor(l)
    PROVE  kernel'.addr \subseteq kernel.addr
<1>1. kernel \in Kernel
    BY DEF IInv, TypeOK
<1>2. l \in todo
    BY DEF Handling
<1>3. l.if \in Iface
    BY <1>2, LeafKinds DEF IInv, TypeOK
<1>4. CASE change_name(l)
    <2>1. \/ kernel' = kernel \/ kernel' = DeleteLink(kernel, l.if)
          \/ kernel' = IF kernel.link[l.if] # Gone THEN kernel ELSE AddLink(kernel, l.if)
        BY <1>4, HandlerKernel DEF change_name, Succeed
    <2>2. /\ AddLink(kernel, l.if).addr \subseteq kernel.addr
          /\ DeleteLink(kernel, l.if).addr \subseteq kernel.addr
        BY <1>1, <1>3, NoAddressAdded
    <2>3. QED  BY <2>1, <2>2
<1>5. CASE change_description(l) \/ change_link_up_down_trap_enable(l)
    BY <1>5 DEF change_description, change_link_up_down_trap_enable, Succeed
<1>6. CASE change_type(l)
    BY <1>6, HandlerKernel DEF change_type, Succeed
<1>7. CASE change_enabled(l)
    <2>1. \/ kernel' = kernel \/ kernel' = SetUp(kernel, l.if, cand[l])
          \/ kernel' = SetUp(kernel, l.if, TRUE)
        BY <1>7, HandlerKernel DEF change_enabled, Succeed
    <2>2. /\ SetUp(kernel, l.if, cand[l]).addr \subseteq kernel.addr
          /\ SetUp(kernel, l.if, TRUE).addr \subseteq kernel.addr
        BY <1>1, <1>3, NoAddressAdded
    <2>3. QED  BY <2>1, <2>2
<1>8. CASE ipv4_change_mtu(l)
    BY <1>1, <1>3, <1>8, NoAddressAdded, HandlerKernel DEF ipv4_change_mtu
<1>9. CASE ipv4_change_enabled(l)
    BY <1>9 DEF ipv4_change_enabled, Succeed, Error
<1>10. ASSUME NEW f \in Family, ChangeNeighbor(l, f) PROVE kernel'.addr \subseteq kernel.addr
    BY <1>1, <1>3, <1>10, NoAddressAdded, HandlerKernel DEF ChangeNeighbor
<1>11. CASE ReplaceNeighbor(l)
    BY <1>1, <1>3, <1>11, NoAddressAdded, HandlerKernel
    DEF ReplaceNeighbor, LookupOnly, Succeed, Error
<1>12. QED  BY <1>4, <1>5, <1>6, <1>7, <1>8, <1>9, <1>10, <1>11

\* x is an address of the edit, with the prefix length the edit gives it.
AddressOfEdit(x) == Exists(cand, "ip", x[1], x[2]) /\ x[3] = PrefixOf(cand, x[1], x[2])

\* The ip handlers add the address they are called for, with the prefix length
\* their getters have collected for it.
LEMMA AddressCreated ==
    ASSUME IInv, NEW l, NEW keys \in SUBSET Addr, Handling("ip", keys, l),
           NEW f \in Family, NEW s, NEW ready, ChangeAddress(l, f, s, ready),
           CollectedFor(l, f, s), NEW x \in kernel'.addr \ kernel.addr
    PROVE  AddressOfEdit(x)
<1> DEFINE i == l.if
           a == l.key
           new == s[f].prefix_length
           old == PrefixOf(running, i, a)
<1>1. i \in Iface /\ a \in Addr /\ l = LeafAt("ip", i, a) /\ kernel \in Kernel
    BY HandlerContext, LeafKinds DEF AddrKinds
<1>2. WellFormed(running) /\ WellFormed(cand)
    BY DEF IInv, TypeOK
<1>3. DeleteAddr(kernel, i, a, old).addr \subseteq kernel.addr
    BY <1>1, AddressRequest
<1>4. Operation(l) = "CREATED" /\ kernel' = AddAddr(kernel, i, a, new)
    BY <1>3, HandlerKernel DEF ChangeAddress
<1>5. x = <<i, a, new>>
    BY <1>1, <1>4, AddressRequest
<1>6. new = PrefixOf(cand, i, a) /\ Exists(cand, "ip", i, a)
    BY <1>1, <1>2, <1>4, CreatedAddress DEF CollectedFor
<1>7. QED  BY <1>5, <1>6 DEF AddressOfEdit

\* The subnet handlers add the address again with its new prefix length.
LEMMA AddressReplaced ==
    ASSUME IInv, NEW l, NEW kind \in {"prefix-length", "netmask"}, NEW keys,
           Handling(kind, keys, l), ReplaceAddress(l), NEW x \in kernel'.addr \ kernel.addr
    PROVE  AddressOfEdit(x)
<1> DEFINE i == l.if
           a == l.key
           old == PrefixOf(running, i, a)
           new == PrefixOf(cand, i, a)
           removed == DeleteAddr(kernel, i, a, old)
<1>2. l \in Leaf /\ l.kind \in {"prefix-length", "netmask"} /\ kernel \in Kernel
    BY HandlerContext
<1>3. WellFormed(running) /\ WellFormed(cand)
    BY DEF IInv, TypeOK
<1>4. i \in Iface /\ a \in Addr
    BY <1>2, LeafKinds DEF AddrKinds, Addr
<1>5. removed \in Kernel /\ removed.addr \subseteq kernel.addr
    BY <1>2, <1>4, AddrRequests, AddressRequest
<1>6. Operation(l) = "MODIFIED" /\ kernel' = AddAddr(removed, i, a, new)
    BY <1>5 DEF ReplaceAddress, LookupOnly, Succeed, Refuse, Error
<1>7. x = <<i, a, new>>
    BY <1>4, <1>5, <1>6, AddressRequest
<1>8. Exists(cand, "ip", i, a)
    BY <1>2, <1>3, <1>6, ModifiedSubnet
<1>9. QED  BY <1>7, <1>8 DEF AddressOfEdit

\* Every address a handler adds is an address of the edit.
LEMMA HandlerAddsAddressOfEdit ==
    ASSUME IInv, NEW l, Handle(l), NEW x \in kernel'.addr \ kernel.addr
    PROVE  AddressOfEdit(x)
<1>1. CASE ipv4_address_change_ip(l)
    BY <1>1, CollectedIp4, AddressCreated DEF ipv4_address_change_ip, Addr, Family
<1>2. CASE ipv6_address_change_ip(l)
    BY <1>2, CollectedIp6, AddressCreated DEF ipv6_address_change_ip, Addr, Family
<1>3. CASE \/ ipv4_address_change_prefix_length(l) \/ ipv4_address_change_netmask(l)
           \/ ipv6_address_change_prefix_length(l)
    BY <1>3, AddressReplaced
    DEF ipv4_address_change_prefix_length, ipv4_address_change_netmask,
        ipv6_address_change_prefix_length
<1>4. CASE \/ change_name(l) \/ change_description(l) \/ change_type(l) \/ change_enabled(l)
           \/ change_link_up_down_trap_enable(l)
           \/ ipv4_change_mtu(l) \/ ipv4_change_enabled(l)
    BY <1>4, OtherHandlersAddNoAddress
    DEF change_name, change_description, change_type, change_enabled,
        change_link_up_down_trap_enable, ipv4_change_mtu, ipv4_change_enabled
<1>5. CASE \/ ipv4_neighbor_change_ip(l) \/ ipv4_neighbor_change_link_layer_address(l)
           \/ ipv6_neighbor_change_ip(l) \/ ipv6_neighbor_change_link_layer_address(l)
    BY <1>5, OtherHandlersAddNoAddress
    DEF ipv4_neighbor_change_ip, ipv4_neighbor_change_link_layer_address,
        ipv6_neighbor_change_ip, ipv6_neighbor_change_link_layer_address, Family
<1>6. QED  BY <1>1, <1>2, <1>3, <1>4, <1>5 DEF Handle

\* No handler ever gives an address a prefix length that belongs to another
\* list entry or another edit, also after phases and edits that failed.
THEOREM AddressesAreConfigured == Spec => AddedAddressesAreConfigured
<1>1. ASSUME IInv, [Next]_vars, NEW x \in kernel'.addr \ kernel.addr, external' = external
      PROVE  AddressOfEdit(x)
    <2>1. CASE \E l \in todo : Handle(l)
        BY <1>1, <2>1, HandlerAddsAddressOfEdit
    <2>2. CASE StartPhase \/ FinishPhase \/ ReturnOK \/ Sysrepo \/ UNCHANGED vars
        BY <1>1, <2>2 DEF StartPhase, FinishPhase, ReturnOK, Sysrepo, ApplyChanges,
                          DoneEvent, AbortEvent, DropEdit, vars
    <2>3. CASE Others
        <3>1. external \in Nat
            BY <1>1, ChangeAssumption DEF IInv, TypeOK
        <3>2. external' = external + 1
            BY <2>3 DEF Others, ExternalLink, ExternalAddr, External
        <3>3. QED  BY <1>1, <3>1, <3>2
    <2>4. QED  BY <1>1, <2>1, <2>2, <2>3 DEF Next, Callback
<1>2. IInv /\ [Next]_vars =>
        [\A x \in kernel'.addr \ kernel.addr :
            external' = external => /\ Exists(cand, "ip", x[1], x[2])
                                    /\ x[3] = PrefixOf(cand, x[1], x[2])]_vars
    BY <1>1 DEF AddressOfEdit
<1>3. QED  BY <1>2, Invariance, PTL DEF Spec, AddedAddressesAreConfigured
=============================================================================
