------------------------- MODULE InterfaceLoad_proofs -------------------------
(***************************************************************************)
(* Proofs about InterfaceLoad, for any interfaces, kernels after a boot,   *)
(* configurations of clients and bounds.                                   *)
(***************************************************************************)
EXTENDS InterfaceLoad, InterfaceConfig_proofs, WellFoundedInduction

-----------------------------------------------------------------------------
(* The kernel                                                              *)

\* The three tables of a kernel, or of a hash.
LEMMA KernelFields ==
    ASSUME NEW k \in Kernel
    PROVE  /\ k.link \subseteq Link /\ k.addr \subseteq AddrEntry /\ k.neigh \subseteq NeighEntry
           /\ k = [link |-> k.link, addr |-> k.addr, neigh |-> k.neigh]
    BY DEF Kernel

\* An address and a neighbour, by their parts.
LEMMA EntryFields ==
    /\ \A x \in AddrEntry : /\ x[1] \in Ifindex /\ x[2] \in Addr /\ x[3] \in PrefixLen
                            /\ x = <<x[1], x[2], x[3]>>
    /\ \A x \in NeighEntry : /\ x[1] \in Ifindex /\ x[2] \in Neigh /\ x[3] \in LlAddr \cup {NoLlAddr}
                             /\ x = <<x[1], x[2], x[3]>>
    BY DEF AddrEntry, NeighEntry

\* The empty hash has the type of a hash.
LEMMA NothingType ==
    /\ Nothing \in Kernel /\ Nothing.link = {} /\ Nothing.addr = {} /\ Nothing.neigh = {}
    BY DEF Nothing, Kernel

\* A set of numbers has a greatest one if it is bounded.
LEMMA GreatestNumber ==
    ASSUME NEW n \in Nat, NEW T, T \subseteq 1..n, T # {}
    PROVE  \E x \in T : \A y \in T : y <= x
<1> DEFINE C == {t..n : t \in T}
           R == StrictSubsetOrdering(Nat)
<1>1. C \subseteq FiniteSubsetsOf(Nat) /\ C # {}
    <2> SUFFICES ASSUME NEW t \in T PROVE t..n \in FiniteSubsetsOf(Nat)
        OBVIOUS
    <2>1. t \in Nat /\ IsFiniteSet(t..n) /\ t..n \subseteq Nat
        BY FS_Interval
    <2>2. QED  BY <2>1 DEF FiniteSubsetsOf
<1>2. IsWellFoundedOn(R, FiniteSubsetsOf(Nat))
    BY FS_StrictSubsetOrderingWellFounded
<1> HIDE DEF R
<1>3. \E a \in C : \A b \in C : <<b, a>> \notin R
    <2> HIDE DEF C
    <2>1. QED  BY <1>1, <1>2, WFMin
<1>4. PICK x \in T : \A y \in T : <<y..n, x..n>> \notin R
    BY <1>3
<1>5. ASSUME NEW y \in T, y > x PROVE FALSE
    <2>1. y..n \subseteq x..n /\ y..n # x..n
        <3>1. x \in x..n /\ x \notin y..n
            BY <1>5
        <3>2. QED  BY <1>5, <3>1
    <2>2. y..n \subseteq Nat /\ x..n \subseteq Nat
        BY <1>5
    <2>3. <<y..n, x..n>> \in R
        BY <2>1, <2>2 DEF R, StrictSubsetOrdering
    <2>4. QED  BY <1>4, <1>5, <2>3
<1>6. QED  BY <1>5

\* The highest ifindex of a kernel is one of its links'.
LEMMA HighestIndexIs ==
    ASSUME NEW k, KernelOK(k)
    PROVE  HighestIndex(k) \in Ifindex /\ \A l \in k.link : l.index <= HighestIndex(k)
<1> DEFINE T == {l.index : l \in k.link}
<1>1. k.link \subseteq Link /\ k.link # {}
    BY KernelFields, LoadAssumption DEF KernelOK
<1>2. T \subseteq 1..MaxIfindex /\ T # {} /\ MaxIfindex \in Nat
    BY <1>1, LoadAssumption DEF Link, Ifindex
<1>3. \E x \in T : \A y \in T : y <= x
    <2> HIDE DEF T
    <2>1. QED  BY <1>2, GreatestNumber
<1>4. HighestIndex(k) \in T /\ \A l \in k.link : l.index <= HighestIndex(k)
    BY <1>3 DEF HighestIndex
<1>5. QED  BY <1>2, <1>4 DEF Ifindex

-----------------------------------------------------------------------------
(* The tree of a hash                                                      *)

\* Every kind that was let in has an identity.
KindsKnown(h) == \A l \in h.link : TypeNl2Ly(l.kind) # NoValue

\* The identity of a kind is an iana-if-type.
LEMMA KnownType ==
    ASSUME NEW kind, TypeNl2Ly(kind) # NoValue
    PROVE  TypeNl2Ly(kind) \in IfType
    BY LoadAssumption DEF TypeNl2Ly

\* A tree has nothing for an interface that the hash does not have.
LEMMA TreeOfNoLink ==
    ASSUME NEW h, NEW tree \in LyTrees(h), NEW leaf \in Leaf, ~\E m \in h.link : m.name = leaf.if
    PROVE  tree[leaf] = NoValue
    BY DEF LyTrees, LyLeaf

\* A tree is made leaf by leaf, from one choice among doubled addresses.
LEMMA TreeIs ==
    ASSUME NEW h, NEW tree \in LyTrees(h)
    PROVE  \E pick \in Picks(h) : tree = [leaf \in Leaf |-> LyLeaf(h, pick, leaf)]
    BY DEF LyTrees

\* The link-layer addresses a hash has for a neighbour.
LinkLayer(h, at) == {x[3] : x \in {y \in h.neigh : <<y[1], y[2]>> = at}}

\* The arms of hash_to_ly, one by one.
LEMMA LinkArms ==
    ASSUME NEW h, NEW pick, NEW leaf, \E m \in h.link : m.name = leaf.if,
           NEW l, l = LinkNamed(h, leaf.if)
    PROVE  /\ leaf.kind = "name" => LyLeaf(h, pick, leaf) = l.name
           /\ leaf.kind = "type" => LyLeaf(h, pick, leaf) = TypeNl2Ly(l.kind)
           /\ leaf.kind = "enabled" => LyLeaf(h, pick, leaf) = EnabledOf(l)
           /\ leaf.kind = "ipv4-enabled" => LyLeaf(h, pick, leaf) = TRUE
           /\ leaf.kind = "mtu" => LyLeaf(h, pick, leaf) = IF MtuOf(l) # 0 THEN MtuOf(l) ELSE NoValue
           /\ leaf.kind \in IgnoredKinds \cup {"netmask"} => LyLeaf(h, pick, leaf) = NoValue
<1>1. ASSUME leaf.kind = "name" PROVE LyLeaf(h, pick, leaf) = l.name
    BY <1>1 DEF LyLeaf
<1>2. ASSUME leaf.kind = "type" PROVE LyLeaf(h, pick, leaf) = TypeNl2Ly(l.kind)
    BY <1>2 DEF LyLeaf
<1>3. ASSUME leaf.kind = "enabled" PROVE LyLeaf(h, pick, leaf) = EnabledOf(l)
    BY <1>3 DEF LyLeaf
<1>4. ASSUME leaf.kind = "ipv4-enabled" PROVE LyLeaf(h, pick, leaf) = TRUE
    BY <1>4 DEF LyLeaf
<1>5. ASSUME leaf.kind = "mtu"
      PROVE  LyLeaf(h, pick, leaf) = IF MtuOf(l) # 0 THEN MtuOf(l) ELSE NoValue
    BY <1>5 DEF LyLeaf
<1>6. ASSUME leaf.kind = "description" PROVE LyLeaf(h, pick, leaf) = NoValue
    BY <1>6 DEF LyLeaf
<1>7. ASSUME leaf.kind = "link-up-down-trap-enable" PROVE LyLeaf(h, pick, leaf) = NoValue
    BY <1>7 DEF LyLeaf
<1>8. ASSUME leaf.kind = "netmask" PROVE LyLeaf(h, pick, leaf) = NoValue
    BY <1>8 DEF LyLeaf
<1>9. QED  BY <1>1, <1>2, <1>3, <1>4, <1>5, <1>6, <1>7, <1>8 DEF IgnoredKinds

\* The same for the leaves of the address and neighbour lists.
LEMMA ListArms ==
    ASSUME NEW h, NEW pick, NEW leaf, \E m \in h.link : m.name = leaf.if,
           NEW at, at = <<LinkNamed(h, leaf.if).index, leaf.key>>,
           NEW lls, lls = LinkLayer(h, at)
    PROVE  /\ leaf.kind = "ip" =>
                 LyLeaf(h, pick, leaf) = IF at \in DOMAIN pick THEN leaf.key ELSE NoValue
           /\ leaf.kind = "prefix-length" =>
                 LyLeaf(h, pick, leaf) = IF at \in DOMAIN pick THEN pick[at] ELSE NoValue
           /\ leaf.kind = "neighbor-ip" =>
                 LyLeaf(h, pick, leaf) = IF lls # {} THEN leaf.key ELSE NoValue
           /\ leaf.kind = "link-layer-address" =>
                 LyLeaf(h, pick, leaf) = IF lls # {} THEN CHOOSE x \in lls : TRUE ELSE NoValue
<1>1. ASSUME leaf.kind = "ip"
      PROVE  LyLeaf(h, pick, leaf) = IF at \in DOMAIN pick THEN leaf.key ELSE NoValue
    BY <1>1 DEF LyLeaf
<1>2. ASSUME leaf.kind = "prefix-length"
      PROVE  LyLeaf(h, pick, leaf) = IF at \in DOMAIN pick THEN pick[at] ELSE NoValue
    BY <1>2 DEF LyLeaf
<1>3. ASSUME leaf.kind = "neighbor-ip"
      PROVE  LyLeaf(h, pick, leaf) = IF lls # {} THEN leaf.key ELSE NoValue
    BY <1>3 DEF LyLeaf, LinkLayer
<1>4. ASSUME leaf.kind = "link-layer-address"
      PROVE  LyLeaf(h, pick, leaf) = IF lls # {} THEN CHOOSE x \in lls : TRUE ELSE NoValue
    BY <1>4 DEF LyLeaf, LinkLayer
<1>5. QED  BY <1>1, <1>2, <1>3, <1>4

\* The leaves of a link.
LEMMA TreeOfLink ==
    ASSUME NEW h \in Kernel, NEW pick \in Picks(h), NEW i \in Iface, \E m \in h.link : m.name = i,
           NEW l, l = LinkNamed(h, i)
    PROVE  /\ l \in h.link /\ l.name = i
           /\ LyLeaf(h, pick, LeafAt("name", i, NoKey)) = i
           /\ LyLeaf(h, pick, LeafAt("type", i, NoKey)) = TypeNl2Ly(l.kind)
           /\ LyLeaf(h, pick, LeafAt("enabled", i, NoKey)) = EnabledOf(l)
           /\ LyLeaf(h, pick, LeafAt("ipv4-enabled", i, NoKey)) \in BOOLEAN
           /\ LyLeaf(h, pick, LeafAt("mtu", i, NoKey)) = IF MtuOf(l) # 0 THEN MtuOf(l) ELSE NoValue
           /\ \A k \in IgnoredKinds : LyLeaf(h, pick, LeafAt(k, i, NoKey)) = NoValue
<1>1. l \in h.link /\ l.name = i
    BY DEF LinkNamed
<1>2. \A k : LeafAt(k, i, NoKey).kind = k /\ LeafAt(k, i, NoKey).if = i
    BY DEF LeafAt
<1>3. ASSUME NEW leaf, leaf.if = i
      PROVE  /\ leaf.kind = "name" => LyLeaf(h, pick, leaf) = l.name
             /\ leaf.kind = "type" => LyLeaf(h, pick, leaf) = TypeNl2Ly(l.kind)
             /\ leaf.kind = "enabled" => LyLeaf(h, pick, leaf) = EnabledOf(l)
             /\ leaf.kind = "ipv4-enabled" => LyLeaf(h, pick, leaf) \in BOOLEAN
             /\ leaf.kind = "mtu" => LyLeaf(h, pick, leaf) = IF MtuOf(l) # 0 THEN MtuOf(l) ELSE NoValue
             /\ leaf.kind \in IgnoredKinds => LyLeaf(h, pick, leaf) = NoValue
    <2>1. (\E m \in h.link : m.name = leaf.if) /\ l = LinkNamed(h, leaf.if)
        BY <1>3
    <2>2. /\ leaf.kind = "name" => LyLeaf(h, pick, leaf) = l.name
          /\ leaf.kind = "type" => LyLeaf(h, pick, leaf) = TypeNl2Ly(l.kind)
          /\ leaf.kind = "enabled" => LyLeaf(h, pick, leaf) = EnabledOf(l)
          /\ leaf.kind = "ipv4-enabled" => LyLeaf(h, pick, leaf) = TRUE
          /\ leaf.kind = "mtu" => LyLeaf(h, pick, leaf) = IF MtuOf(l) # 0 THEN MtuOf(l) ELSE NoValue
          /\ leaf.kind \in IgnoredKinds \cup {"netmask"} => LyLeaf(h, pick, leaf) = NoValue
        BY <2>1, LinkArms, Zenon
    <2>3. QED  BY <1>1, <2>2
<1>4. ASSUME NEW k \in IgnoredKinds PROVE LyLeaf(h, pick, LeafAt(k, i, NoKey)) = NoValue
    BY <1>2, <1>3
<1>5. QED  BY <1>1, <1>2, <1>3, <1>4

\* Its addresses.
LEMMA TreeOfAddr ==
    ASSUME NEW h \in Kernel, NEW pick \in Picks(h), NEW i \in Iface, \E m \in h.link : m.name = i,
           NEW a \in Addr, NEW at, at = <<LinkNamed(h, i).index, a>>
    PROVE  /\ LyLeaf(h, pick, LeafAt("ip", i, a)) =
                 IF at \in AddrKeys(h) THEN a ELSE NoValue
           /\ LyLeaf(h, pick, LeafAt("prefix-length", i, a)) =
                 IF at \in AddrKeys(h) THEN pick[at] ELSE NoValue
           /\ LyLeaf(h, pick, LeafAt("netmask", i, a)) = NoValue
           /\ at \in AddrKeys(h) => pick[at] \in PrefixLen /\ <<at[1], at[2], pick[at]>> \in h.addr
<1>1. DOMAIN pick = AddrKeys(h) /\ \A k \in AddrKeys(h) : /\ pick[k] \in PrefixLen
                                                          /\ <<k[1], k[2], pick[k]>> \in h.addr
    BY DEF Picks
<1>2. \A k : /\ LeafAt(k, i, a).kind = k /\ LeafAt(k, i, a).if = i
             /\ LeafAt(k, i, a).key = a
    BY DEF LeafAt
<1>3. LyLeaf(h, pick, LeafAt("ip", i, a)) = IF at \in AddrKeys(h) THEN a ELSE NoValue
    BY <1>1, <1>2, ListArms
<1>4. LyLeaf(h, pick, LeafAt("prefix-length", i, a)) = IF at \in AddrKeys(h) THEN pick[at] ELSE NoValue
    BY <1>1, <1>2, ListArms
<1>5. LyLeaf(h, pick, LeafAt("netmask", i, a)) = NoValue
    BY <1>2, LinkArms
<1>6. QED  BY <1>1, <1>3, <1>4, <1>5

\* What a tree has for one neighbour.
LEMMA TreeOfNeigh ==
    ASSUME NEW h \in Kernel, NEW pick, NEW i \in Iface, \E m \in h.link : m.name = i,
           NEW n \in Neigh, NEW lls, lls = LinkLayer(h, <<LinkNamed(h, i).index, n>>)
    PROVE  /\ LyLeaf(h, pick, LeafAt("neighbor-ip", i, n)) = IF lls # {} THEN n ELSE NoValue
           /\ LyLeaf(h, pick, LeafAt("link-layer-address", i, n)) =
                 IF lls # {} THEN CHOOSE x \in lls : TRUE ELSE NoValue
<1>1. \A k : /\ LeafAt(k, i, n).kind = k /\ LeafAt(k, i, n).if = i
             /\ LeafAt(k, i, n).key = n
    BY DEF LeafAt
<1>2. LyLeaf(h, pick, LeafAt("neighbor-ip", i, n)) = IF lls # {} THEN n ELSE NoValue
    BY <1>1, ListArms
<1>3. LyLeaf(h, pick, LeafAt("link-layer-address", i, n)) =
         IF lls # {} THEN CHOOSE x \in lls : TRUE ELSE NoValue
    BY <1>1, ListArms
<1>4. QED  BY <1>2, <1>3

\* What every tree is like: an interface of the hash with all the leaves the
\* schema asks for, or nothing about the interface.
InterfaceTree(tree, i) ==
    /\ tree[LeafAt("name", i, NoKey)] = i
    /\ tree[LeafAt("type", i, NoKey)] \in IfType
    /\ tree[LeafAt("enabled", i, NoKey)] \in BOOLEAN
    /\ tree[LeafAt("ipv4-enabled", i, NoKey)] \in BOOLEAN
    /\ tree[LeafAt("mtu", i, NoKey)] \in Mtu \cup {NoValue}
    /\ \A k \in IgnoredKinds : tree[LeafAt(k, i, NoKey)] = NoValue

ListTree(tree, i) ==
    /\ \A a \in Addr :
          \/ /\ tree[LeafAt("ip", i, a)] = NoValue
             /\ tree[LeafAt("prefix-length", i, a)] = NoValue
          \/ /\ tree[LeafAt("ip", i, a)] = a
             /\ tree[LeafAt("prefix-length", i, a)] \in PrefixLen
    /\ \A a \in Addr4 : tree[LeafAt("netmask", i, a)] = NoValue
    /\ \A n \in Neigh :
          \/ /\ tree[LeafAt("neighbor-ip", i, n)] = NoValue
             /\ tree[LeafAt("link-layer-address", i, n)] = NoValue
          \/ /\ tree[LeafAt("neighbor-ip", i, n)] = n
             /\ tree[LeafAt("link-layer-address", i, n)] \in LlAddr

TreeShape(tree) ==
    \A i \in Iface : \/ InterfaceTree(tree, i) /\ ListTree(tree, i)
                     \/ \A l \in Leaf : l.if = i => tree[l] = NoValue

\* The tree of a hash that hash_to_ly can convert has the shape.
LEMMA TreeHasShape ==
    ASSUME NEW h \in Kernel, KindsKnown(h), LyConvertible(h), NEW tree \in LyTrees(h)
    PROVE  TreeShape(tree)
<1>1. PICK pick \in Picks(h) : tree = [leaf \in Leaf |-> LyLeaf(h, pick, leaf)]
    BY TreeIs
<1>2. ASSUME NEW leaf \in Leaf PROVE tree[leaf] = LyLeaf(h, pick, leaf)
    BY <1>1
<1>3. SUFFICES ASSUME NEW i \in Iface, \E m \in h.link : m.name = i
               PROVE  InterfaceTree(tree, i) /\ ListTree(tree, i)
    BY TreeOfNoLink DEF TreeShape
<1>0. PICK l : l = LinkNamed(h, i)
    OBVIOUS
<1>4. l \in h.link /\ l.mtu \in NlMtu /\ MtuOK(l) /\ TypeNl2Ly(l.kind) # NoValue
    BY <1>0, <1>1, <1>3, TreeOfLink, KernelFields DEF Link, LyConvertible, KindsKnown
<1>5. MtuOf(l) # 0 => MtuOf(l) \in Mtu
    BY <1>4, LoadAssumption DEF MtuOf, MtuOK
<1>6. TypeNl2Ly(l.kind) \in IfType
    BY <1>4, KnownType
<1>7. EnabledOf(l) \in BOOLEAN
    BY DEF EnabledOf
<1>8. InterfaceTree(tree, i)
    <2>1. /\ LyLeaf(h, pick, LeafAt("name", i, NoKey)) = i
          /\ LyLeaf(h, pick, LeafAt("type", i, NoKey)) = TypeNl2Ly(l.kind)
          /\ LyLeaf(h, pick, LeafAt("enabled", i, NoKey)) = EnabledOf(l)
          /\ LyLeaf(h, pick, LeafAt("ipv4-enabled", i, NoKey)) \in BOOLEAN
          /\ LyLeaf(h, pick, LeafAt("mtu", i, NoKey)) = IF MtuOf(l) # 0 THEN MtuOf(l) ELSE NoValue
          /\ \A k \in IgnoredKinds : LyLeaf(h, pick, LeafAt(k, i, NoKey)) = NoValue
        BY <1>0, <1>1, <1>3, TreeOfLink
    <2>2. \A k \in IfKinds : LeafAt(k, i, NoKey) \in Leaf
        BY LeafMembers
    <2>3. \A k \in IfKinds : tree[LeafAt(k, i, NoKey)] = LyLeaf(h, pick, LeafAt(k, i, NoKey))
        BY <1>2, <2>2
    <2>4. QED  BY <1>5, <1>6, <1>7, <2>1, <2>3 DEF InterfaceTree, IfKinds
<1>9. ASSUME NEW a \in Addr
      PROVE  \/ /\ tree[LeafAt("ip", i, a)] = NoValue
                /\ tree[LeafAt("prefix-length", i, a)] = NoValue
             \/ /\ tree[LeafAt("ip", i, a)] = a
                /\ tree[LeafAt("prefix-length", i, a)] \in PrefixLen
    <2> DEFINE at == <<LinkNamed(h, i).index, a>>
    <2>1. /\ LyLeaf(h, pick, LeafAt("ip", i, a)) = IF at \in AddrKeys(h) THEN a ELSE NoValue
          /\ LyLeaf(h, pick, LeafAt("prefix-length", i, a)) =
                IF at \in AddrKeys(h) THEN pick[at] ELSE NoValue
          /\ at \in AddrKeys(h) => pick[at] \in PrefixLen
        BY <1>1, <1>3, TreeOfAddr
    <2> HIDE DEF at
    <2>2. QED  BY <1>2, <2>1, LeafMembers
<1>10. ASSUME NEW a \in Addr4 PROVE tree[LeafAt("netmask", i, a)] = NoValue
    <2>1. LyLeaf(h, pick, LeafAt("netmask", i, a)) = NoValue
        BY <1>1, <1>3, TreeOfAddr DEF Addr
    <2>2. QED  BY <1>2, <2>1, LeafMembers
<1>11. ASSUME NEW n \in Neigh
       PROVE  \/ /\ tree[LeafAt("neighbor-ip", i, n)] = NoValue
                 /\ tree[LeafAt("link-layer-address", i, n)] = NoValue
              \/ /\ tree[LeafAt("neighbor-ip", i, n)] = n
                 /\ tree[LeafAt("link-layer-address", i, n)] \in LlAddr
    <2> DEFINE lls == LinkLayer(h, <<l.index, n>>)
    <2>1. /\ LyLeaf(h, pick, LeafAt("neighbor-ip", i, n)) = IF lls # {} THEN n ELSE NoValue
          /\ LyLeaf(h, pick, LeafAt("link-layer-address", i, n)) =
                 IF lls # {} THEN CHOOSE x \in lls : TRUE ELSE NoValue
        BY <1>0, <1>1, <1>3, TreeOfNeigh
    <2>2. lls \subseteq LlAddr
        <3> SUFFICES ASSUME NEW y \in h.neigh PROVE y[3] \in LlAddr
            BY DEF LinkLayer
        <3>1. QED  BY KernelFields, EntryFields DEF LyConvertible
    <2> HIDE DEF lls
    <2>3. lls # {} => (CHOOSE x \in lls : TRUE) \in lls
        OBVIOUS
    <2>4. QED  BY <1>2, <2>1, <2>2, <2>3, LeafMembers
<1>12. QED  BY <1>8, <1>9, <1>10, <1>11 DEF ListTree

\* What is in a merged datastore.
LEMMA MergeAt ==
    ASSUME NEW c, NEW tree, NEW l \in Leaf
    PROVE  /\ tree[l] # NoValue => Merge(c, tree)[l] = tree[l]
           /\ tree[l] = NoValue /\ l.kind # "netmask" => Merge(c, tree)[l] = c[l]
           /\ tree[l] = NoValue /\ l.kind = "netmask" =>
                Merge(c, tree)[l] = IF tree[LeafAt("prefix-length", l.if, l.key)] # NoValue
                                    THEN NoValue ELSE c[l]
    BY DEF Merge

\* The values of a tree are values of the leaves.
LEMMA TreeValues ==
    ASSUME NEW tree, TreeShape(tree), NEW l \in Leaf, tree[l] # NoValue
    PROVE  tree[l] \in LeafValue(l)
<1> DEFINE i == l.if
<1>1. i \in Iface /\ l = LeafAt(l.kind, i, l.key)
    BY LeafKinds
<1>2. InterfaceTree(tree, i) /\ ListTree(tree, i)
    BY <1>1 DEF TreeShape
<1>3. CASE l.kind \in IfKinds
    <2>1. l.key = NoKey
        BY <1>3, LeafKinds
    <2>2. CASE l.kind = "name"
        BY <1>1, <1>2, <2>1, <2>2 DEF InterfaceTree, LeafValue
    <2>3. CASE l.kind = "type"
        BY <1>1, <1>2, <2>1, <2>3 DEF InterfaceTree, LeafValue
    <2>4. CASE l.kind = "enabled"
        BY <1>1, <1>2, <2>1, <2>4 DEF InterfaceTree, LeafValue
    <2>5. CASE l.kind = "ipv4-enabled"
        BY <1>1, <1>2, <2>1, <2>5 DEF InterfaceTree, LeafValue, IgnoredKinds
    <2>6. CASE l.kind = "mtu"
        BY <1>1, <1>2, <2>1, <2>6 DEF InterfaceTree, LeafValue, IgnoredKinds
    <2>7. CASE l.kind \in IgnoredKinds
        BY <1>1, <1>2, <2>1, <2>7 DEF InterfaceTree
    <2>8. QED  BY <1>3, <2>2, <2>3, <2>4, <2>5, <2>6, <2>7 DEF IfKinds
<1>4. CASE l.kind = "ip" /\ l.key \in Addr
    BY <1>1, <1>2, <1>4 DEF ListTree, LeafValue, IgnoredKinds
<1>5. CASE l.kind = "prefix-length" /\ l.key \in Addr
    BY <1>1, <1>2, <1>5 DEF ListTree, LeafValue, IgnoredKinds
<1>6. CASE l.kind = "netmask" /\ l.key \in Addr4
    BY <1>1, <1>2, <1>6 DEF ListTree
<1>7. CASE l.kind = "neighbor-ip" /\ l.key \in Neigh
    BY <1>1, <1>2, <1>7 DEF ListTree, LeafValue, IgnoredKinds
<1>8. CASE l.kind = "link-layer-address" /\ l.key \in Neigh
    BY <1>1, <1>2, <1>8 DEF ListTree, LeafValue, IgnoredKinds
<1>9. QED
    BY <1>3, <1>4, <1>5, <1>6, <1>7, <1>8, LeafCases DEF AddrKinds, NeighKinds

\* A tree merged into valid data gives valid data.
LEMMA MergeWellFormed ==
    ASSUME NEW c, WellFormed(c), NEW tree, TreeShape(tree)
    PROVE  WellFormed(Merge(c, tree))
<1> DEFINE m == Merge(c, tree)
<1>1. Config(m)
    <2>1. m = [l \in Leaf |-> m[l]]
        BY DEF Merge
    <2>2. ASSUME NEW l \in Leaf PROVE m[l] \in LeafValue(l) \cup {NoValue}
        <3>1. c[l] \in LeafValue(l) \cup {NoValue}
            BY DEF WellFormed, Config
        <3>2. CASE tree[l] # NoValue
            BY <3>2, MergeAt, TreeValues
        <3>3. CASE tree[l] = NoValue
            BY <3>1, <3>3, MergeAt
        <3>4. QED  BY <3>2, <3>3
    <2> HIDE DEF m
    <2>3. QED  BY <2>1, <2>2 DEF Config
<1>2. ASSUME NEW i \in Iface
      PROVE  InterfaceOK(m, i) /\ AddressesOK(m, i) /\ NeighborsOK(m, i)
    <2>1. InterfaceOK(c, i) /\ AddressesOK(c, i) /\ NeighborsOK(c, i)
        BY DEF WellFormed
    <2>2. /\ \A k \in IfKinds : LeafAt(k, i, NoKey) \in Leaf
          /\ \A a \in Addr : /\ LeafAt("ip", i, a) \in Leaf
                             /\ LeafAt("prefix-length", i, a) \in Leaf
          /\ \A a \in Addr4 : LeafAt("netmask", i, a) \in Leaf
          /\ \A n \in Neigh : /\ LeafAt("neighbor-ip", i, n) \in Leaf
                              /\ LeafAt("link-layer-address", i, n) \in Leaf
        BY LeafMembers
    <2>3. \A k, key : /\ LeafAt(k, i, key).kind = k /\ LeafAt(k, i, key).if = i
                      /\ LeafAt(k, i, key).key = key
        BY DEF LeafAt
    <2>4. CASE \A l \in Leaf : l.if = i => tree[l] = NoValue
        <3>1. ASSUME NEW l \in Leaf, l.if = i PROVE m[l] = c[l]
            <4>1. tree[l] = NoValue
                BY <2>4, <3>1
            <4>2. CASE l.kind # "netmask"
                BY <4>1, <4>2, MergeAt
            <4>3. CASE l.kind = "netmask"
                <5>1. l.key \in Addr
                    BY <4>3, LeafKinds DEF Addr
                <5>2. tree[LeafAt("prefix-length", i, l.key)] = NoValue
                    BY <2>2, <2>3, <2>4, <5>1
                <5>3. QED  BY <3>1, <4>1, <4>3, <5>2, MergeAt
            <4>4. QED  BY <4>2, <4>3
        <3> HIDE DEF m
        <3>2. InterfaceOK(m, i)
            <4>1. \A k \in IfKinds : Exists(m, k, i, NoKey) <=> Exists(c, k, i, NoKey)
                BY <2>2, <2>3, <3>1 DEF Exists
            <4>2. QED  BY <2>1, <3>1, <4>1 DEF InterfaceOK, IfKinds
        <3>3. AddressesOK(m, i)
            <4>1. \A a \in Addr : /\ Exists(m, "ip", i, a) <=> Exists(c, "ip", i, a)
                                  /\ Exists(m, "prefix-length", i, a) <=> Exists(c, "prefix-length", i, a)
                BY <2>2, <2>3, <3>1 DEF Exists
            <4>2. \A a \in Addr4 : Exists(m, "netmask", i, a) <=> Exists(c, "netmask", i, a)
                BY <2>2, <2>3, <3>1 DEF Exists
            <4>3. Exists(m, "ipv4-enabled", i, NoKey) <=> Exists(c, "ipv4-enabled", i, NoKey)
                BY <2>2, <2>3, <3>1 DEF Exists, IfKinds
            <4>4. QED  BY <2>1, <4>1, <4>2, <4>3 DEF AddressesOK, Addr
        <3>4. NeighborsOK(m, i)
            <4>1. \A n \in Neigh :
                     /\ Exists(m, "neighbor-ip", i, n) <=> Exists(c, "neighbor-ip", i, n)
                     /\ Exists(m, "link-layer-address", i, n) <=> Exists(c, "link-layer-address", i, n)
                BY <2>2, <2>3, <3>1 DEF Exists
            <4>2. Exists(m, "ipv4-enabled", i, NoKey) <=> Exists(c, "ipv4-enabled", i, NoKey)
                BY <2>2, <2>3, <3>1 DEF Exists, IfKinds
            <4>3. QED  BY <2>1, <4>1, <4>2 DEF NeighborsOK, Neigh
        <3>5. QED  BY <3>2, <3>3, <3>4
    <2>5. CASE InterfaceTree(tree, i) /\ ListTree(tree, i)
        <3>1. /\ Exists(m, "name", i, NoKey) /\ Exists(m, "type", i, NoKey)
              /\ Exists(m, "enabled", i, NoKey) /\ Exists(m, "ipv4-enabled", i, NoKey)
            <4>1. /\ tree[LeafAt("name", i, NoKey)] # NoValue
                  /\ tree[LeafAt("type", i, NoKey)] # NoValue
                  /\ tree[LeafAt("enabled", i, NoKey)] # NoValue
                  /\ tree[LeafAt("ipv4-enabled", i, NoKey)] # NoValue
                BY <2>5, NoValueAssumption DEF InterfaceTree
            <4>2. /\ LeafAt("name", i, NoKey) \in Leaf /\ LeafAt("type", i, NoKey) \in Leaf
                  /\ LeafAt("enabled", i, NoKey) \in Leaf /\ LeafAt("ipv4-enabled", i, NoKey) \in Leaf
                BY <2>2 DEF IfKinds
            <4>3. QED  BY <4>1, <4>2, MergeAt DEF Exists
        <3> HIDE DEF m
        <3>2. InterfaceOK(m, i)
            BY <3>1 DEF InterfaceOK
        <3>3. ASSUME NEW a \in Addr
              PROVE  /\ Exists(m, "ip", i, a) <=>
                           (Exists(tree, "ip", i, a) \/ Exists(c, "ip", i, a))
                     /\ Exists(m, "prefix-length", i, a) <=>
                           (Exists(tree, "ip", i, a) \/ Exists(c, "prefix-length", i, a))
                     /\ a \in Addr4 =>
                          (Exists(m, "netmask", i, a) <=>
                             ~Exists(tree, "ip", i, a) /\ Exists(c, "netmask", i, a))
            <4>1. /\ Exists(tree, "ip", i, a) <=> Exists(tree, "prefix-length", i, a)
                  /\ a \in Addr4 => ~Exists(tree, "netmask", i, a)
                BY <2>5, NoValueAssumption DEF ListTree, Exists
            <4>2. /\ LeafAt("ip", i, a) \in Leaf /\ LeafAt("prefix-length", i, a) \in Leaf
                  /\ a \in Addr4 => LeafAt("netmask", i, a) \in Leaf
                BY <2>2
            <4>3. Exists(m, "ip", i, a) <=> (Exists(tree, "ip", i, a) \/ Exists(c, "ip", i, a))
                BY <2>3, <4>2, MergeAt DEF Exists, m
            <4>4. Exists(m, "prefix-length", i, a) <=>
                     (Exists(tree, "prefix-length", i, a) \/ Exists(c, "prefix-length", i, a))
                BY <2>3, <4>2, MergeAt DEF Exists, m
            <4>5. a \in Addr4 =>
                    (Exists(m, "netmask", i, a) <=>
                       ~Exists(tree, "prefix-length", i, a) /\ Exists(c, "netmask", i, a))
                BY <2>3, <4>1, <4>2, MergeAt DEF Exists, m
            <4>6. QED  BY <4>1, <4>3, <4>4, <4>5
        <3>4. AddressesOK(m, i)
            BY <2>1, <3>1, <3>3 DEF AddressesOK, Addr
        <3>5. ASSUME NEW n \in Neigh
              PROVE  /\ Exists(m, "neighbor-ip", i, n) <=>
                           (Exists(tree, "neighbor-ip", i, n) \/ Exists(c, "neighbor-ip", i, n))
                     /\ Exists(m, "link-layer-address", i, n) <=>
                           (Exists(tree, "neighbor-ip", i, n) \/ Exists(c, "link-layer-address", i, n))
            <4>1. Exists(tree, "neighbor-ip", i, n) <=> Exists(tree, "link-layer-address", i, n)
                BY <2>5, NoValueAssumption DEF ListTree, Exists
            <4>2. LeafAt("neighbor-ip", i, n) \in Leaf /\ LeafAt("link-layer-address", i, n) \in Leaf
                BY <2>2
            <4>3. Exists(m, "neighbor-ip", i, n) <=>
                     (Exists(tree, "neighbor-ip", i, n) \/ Exists(c, "neighbor-ip", i, n))
                BY <2>3, <4>2, MergeAt DEF Exists, m
            <4>4. Exists(m, "link-layer-address", i, n) <=>
                     (Exists(tree, "link-layer-address", i, n) \/ Exists(c, "link-layer-address", i, n))
                BY <2>3, <4>2, MergeAt DEF Exists, m
            <4>5. QED  BY <4>1, <4>3, <4>4
        <3>6. NeighborsOK(m, i)
            BY <2>1, <3>1, <3>5 DEF NeighborsOK, Neigh
        <3>7. QED  BY <3>2, <3>4, <3>6
    <2>6. QED  BY <2>4, <2>5 DEF TreeShape
<1> HIDE DEF m
<1>3. WellFormed(m)
    BY <1>1, <1>2 DEF WellFormed
<1>4. QED  BY <1>3 DEF m

\* A merge takes no leaf away, but for a netmask that gives way to a prefix.
LEMMA MergeKeeps ==
    ASSUME NEW c, NEW tree, NEW l \in Leaf, c[l] # NoValue, l.kind # "netmask"
    PROVE  Merge(c, tree)[l] # NoValue
    BY MergeAt

-----------------------------------------------------------------------------
(* What the steps of the environment and of the load do                    *)

\* No link has an index the kernel has not given out, so a new link gets one
\* of its own.
IndexInv == \A l \in kernel.link : l.index <= lastIndex

\* The loop over the link cache: nothing is collected outside it, and the link
\* whose lists are loaded is one of the cache with an element in the hash.
LoopInv ==
    /\ step # "load" => todo = {} /\ cur = NoLink /\ loaded = Nothing
    /\ cur # NoLink => cur \in todo /\ cur \in loaded.link
    /\ cur = NoLink => part = 1

TypeInv == TypeOK /\ IndexInv /\ LoopInv /\ KindsKnown(loaded)

\* A link, by its parts.
LEMMA LinkFields ==
    /\ \A l \in Link : /\ l.index \in Ifindex /\ l.name \in Iface /\ l.kind \in Kind
                       /\ l.oper \in OperState /\ l.mtu \in NlMtu
    /\ \A i \in Ifindex, n \in Iface, k \in Kind, o \in OperState, m \in NlMtu :
          [index |-> i, name |-> n, kind |-> k, oper |-> o, mtu |-> m] \in Link
    /\ \A l \in Link, o \in OperState :
          /\ [l EXCEPT !.oper = o] \in Link
          /\ [l EXCEPT !.oper = o].name = l.name
          /\ [l EXCEPT !.oper = o].index = l.index
    BY DEF Link

\* The steps of others that change the kernel leave one that can be.
KernelStep == LinkCreated \/ LinkDeleted \/ OperChanged \/ AddressChanged \/ NeighbourChanged

\* A new link leaves the kernel one that may be, with an index of its own.
LEMMA LinkCreatedKernel ==
    ASSUME TypeInv, LinkCreated
    PROVE  \E k : /\ KernelOK(k) /\ KernelBecomes(k) /\ external' \in 0..MaxExternal
                  /\ lastIndex' \in Ifindex /\ \A l \in k.link : l.index <= lastIndex'
<1>1. PICK name \in Iface \ {l.name : l \in kernel.link}, kind \in Kind, oper \in OperState,
           mtu \in NlMtu :
         KernelChanges([kernel EXCEPT !.link = @ \cup
            {[index |-> lastIndex + 1, name |-> name, kind |-> kind,
              oper |-> oper, mtu |-> mtu]}])
    BY DEF LinkCreated
<1> DEFINE m == [index |-> lastIndex + 1, name |-> name, kind |-> kind, oper |-> oper, mtu |-> mtu]
           k == [kernel EXCEPT !.link = @ \cup {m}]
<1>2. KernelOK(kernel) /\ lastIndex \in Ifindex /\ external \in 0..MaxExternal
    BY DEF TypeInv, TypeOK
<1>3. lastIndex + 1 \in Ifindex /\ lastIndex' = lastIndex + 1
    BY <1>2, LoadAssumption DEF LinkCreated, Ifindex
<1>4. m \in Link /\ m.index = lastIndex + 1 /\ m.name = name
    BY <1>1, <1>3, LinkFields
<1>5. /\ k.link = kernel.link \cup {m} /\ k.addr = kernel.addr /\ k.neigh = kernel.neigh
      /\ kernel \in Kernel /\ k \in Kernel
    BY <1>2, <1>4, KernelFields DEF KernelOK, Kernel
<1>6. \A l \in kernel.link : l.index # m.index /\ l.name # m.name /\ l.index \in Ifindex
    <2>1. \A l \in kernel.link : l.index <= lastIndex
        BY DEF TypeInv, IndexInv
    <2>2. \A l \in kernel.link : l.index \in Ifindex
        BY <1>5, KernelFields, LinkFields
    <2>3. QED  BY <1>1, <1>2, <1>4, <2>1, <2>2 DEF Ifindex
<1> HIDE DEF m, k
<1>7. KernelOK(k)
    <2>1. Permanent \subseteq {l.name : l \in k.link}
        BY <1>2, <1>5 DEF KernelOK
    <2>2. \A l, n \in k.link : l.name = n.name \/ l.index = n.index => l = n
        BY <1>2, <1>5, <1>6 DEF KernelOK
    <2>3. \A x \in k.addr \cup k.neigh : x[1] \in {l.index : l \in k.link}
        BY <1>2, <1>5 DEF KernelOK
    <2>4. \A x, y \in k.neigh : x[1] = y[1] /\ x[2] = y[2] => x = y
        BY <1>2, <1>5 DEF KernelOK
    <2>5. QED  BY <1>5, <2>1, <2>2, <2>3, <2>4 DEF KernelOK
<1>8. KernelBecomes(k) /\ external' \in 0..MaxExternal
    BY <1>1, <1>2, LoadAssumption DEF KernelChanges, k, m
<1>9. \A l \in k.link : l.index <= lastIndex'
    <2>1. \A l \in kernel.link : l.index <= lastIndex /\ l.index \in Ifindex
        BY <1>6 DEF TypeInv, IndexInv
    <2>2. QED  BY <1>2, <1>3, <1>4, <1>5, <2>1 DEF Ifindex
<1>10. QED  BY <1>3, <1>7, <1>8, <1>9

\* So does a link that goes, with all that was on it,
LEMMA LinkDeletedKernel ==
    ASSUME TypeInv, LinkDeleted
    PROVE  \E k : /\ KernelOK(k) /\ KernelBecomes(k) /\ external' \in 0..MaxExternal
                  /\ lastIndex' \in Ifindex /\ \A l \in k.link : l.index <= lastIndex'
<1>1. PICK l \in kernel.link :
         /\ l.name \notin Permanent
         /\ KernelBecomes([link  |-> kernel.link \ {l},
                           addr  |-> {x \in kernel.addr : x[1] # l.index},
                           neigh |-> {x \in kernel.neigh : x[1] # l.index}])
         /\ UNCHANGED <<lastIndex, external>>
    BY DEF LinkDeleted
<1> DEFINE k == [link  |-> kernel.link \ {l},
                 addr  |-> {x \in kernel.addr : x[1] # l.index},
                 neigh |-> {x \in kernel.neigh : x[1] # l.index}]
<1>2. KernelOK(kernel) /\ lastIndex \in Ifindex /\ external \in 0..MaxExternal
    BY DEF TypeInv, TypeOK
<1>3. /\ k.link = kernel.link \ {l} /\ k.addr = {x \in kernel.addr : x[1] # l.index}
      /\ k.neigh = {x \in kernel.neigh : x[1] # l.index}
      /\ k \in Kernel
    BY <1>2, KernelFields DEF KernelOK, Kernel
<1>4. KernelBecomes(k)
    BY <1>1
<1> HIDE DEF k
<1>5. KernelOK(k)
    <2>1. Permanent \subseteq {m.name : m \in k.link}
        BY <1>1, <1>2, <1>3 DEF KernelOK
    <2>2. \A m, n \in k.link : m.name = n.name \/ m.index = n.index => m = n
        BY <1>2, <1>3 DEF KernelOK
    <2>3. \A x \in k.addr \cup k.neigh : x[1] \in {m.index : m \in k.link}
        <3>1. SUFFICES ASSUME NEW x \in k.addr \cup k.neigh
                       PROVE  \E m \in k.link : m.index = x[1]
            OBVIOUS
        <3>2. x \in kernel.addr \cup kernel.neigh /\ x[1] # l.index
            BY <1>3
        <3>3. \E m \in kernel.link : m.index = x[1]
            BY <1>2, <3>2 DEF KernelOK
        <3>4. QED  BY <1>3, <3>2, <3>3
    <2>4. \A x, y \in k.neigh : x[1] = y[1] /\ x[2] = y[2] => x = y
        BY <1>2, <1>3 DEF KernelOK
    <2>5. QED  BY <1>3, <2>1, <2>2, <2>3, <2>4 DEF KernelOK
<1>6. \A m \in k.link : m.index <= lastIndex'
    BY <1>1, <1>3 DEF TypeInv, IndexInv
<1>7. QED  BY <1>1, <1>2, <1>4, <1>5, <1>6

\* a link whose state changes,
LEMMA OperChangedKernel ==
    ASSUME TypeInv, OperChanged
    PROVE  \E k : /\ KernelOK(k) /\ KernelBecomes(k) /\ external' \in 0..MaxExternal
                  /\ lastIndex' \in Ifindex /\ \A l \in k.link : l.index <= lastIndex'
<1>1. PICK l \in kernel.link, o \in OperState :
         /\ KernelChanges([kernel EXCEPT !.link = (@ \ {l}) \cup {[l EXCEPT !.oper = o]}])
         /\ UNCHANGED lastIndex
    BY DEF OperChanged
<1> DEFINE m == [l EXCEPT !.oper = o]
           k == [kernel EXCEPT !.link = (@ \ {l}) \cup {m}]
<1>2. KernelOK(kernel) /\ lastIndex \in Ifindex /\ external \in 0..MaxExternal
    BY DEF TypeInv, TypeOK
<1>3. l \in Link
    BY <1>2, KernelFields DEF KernelOK
<1>4. m \in Link /\ m.index = l.index /\ m.name = l.name
    BY <1>3, LinkFields
<1>5. /\ k.link = (kernel.link \ {l}) \cup {m} /\ k.addr = kernel.addr /\ k.neigh = kernel.neigh
      /\ k \in Kernel
    BY <1>2, <1>4, KernelFields DEF KernelOK, Kernel
<1>6. KernelBecomes(k) /\ external' \in 0..MaxExternal
    BY <1>1, <1>2, LoadAssumption DEF KernelChanges
<1> HIDE DEF m, k
<1>7. KernelOK(k)
    <2>1. Permanent \subseteq {n.name : n \in k.link}
        <3>1. SUFFICES ASSUME NEW p \in Permanent PROVE \E n \in k.link : n.name = p
            OBVIOUS
        <3>2. \E n \in kernel.link : n.name = p
            BY <1>2 DEF KernelOK
        <3>3. QED  BY <1>4, <1>5, <3>2
    <2>2. \A n, r \in k.link : n.name = r.name \/ n.index = r.index => n = r
        BY <1>2, <1>4, <1>5 DEF KernelOK
    <2>3. \A x \in k.addr \cup k.neigh : x[1] \in {n.index : n \in k.link}
        <3>1. SUFFICES ASSUME NEW x \in k.addr \cup k.neigh
                       PROVE  \E n \in k.link : n.index = x[1]
            OBVIOUS
        <3>2. \E n \in kernel.link : n.index = x[1]
            BY <1>2, <1>5 DEF KernelOK
        <3>3. QED  BY <1>4, <1>5, <3>2
    <2>4. \A x, y \in k.neigh : x[1] = y[1] /\ x[2] = y[2] => x = y
        BY <1>2, <1>5 DEF KernelOK
    <2>5. QED  BY <1>5, <2>1, <2>2, <2>3, <2>4 DEF KernelOK
<1>8. \A n \in k.link : n.index <= lastIndex'
    BY <1>1, <1>4, <1>5 DEF TypeInv, IndexInv
<1>9. QED  BY <1>1, <1>2, <1>6, <1>7, <1>8

\* an address that comes or goes,
LEMMA AddressChangedKernel ==
    ASSUME TypeInv, AddressChanged
    PROVE  \E k : /\ KernelOK(k) /\ KernelBecomes(k) /\ external' \in 0..MaxExternal
                  /\ lastIndex' \in Ifindex /\ \A l \in k.link : l.index <= lastIndex'
<1>1. KernelOK(kernel) /\ lastIndex \in Ifindex /\ external \in 0..MaxExternal
    BY DEF TypeInv, TypeOK
<1>2. PICK x \in AddrEntry, A \in SUBSET AddrEntry :
         /\ \/ A = kernel.addr \cup {x} /\ x[1] \in {l.index : l \in kernel.link}
            \/ A = kernel.addr \ {x}
         /\ KernelChanges([kernel EXCEPT !.addr = A])
    <2>1. PICK x \in AddrEntry :
             \/ /\ x[1] \in {l.index : l \in kernel.link}
                /\ KernelChanges([kernel EXCEPT !.addr = kernel.addr \cup {x}])
             \/ KernelChanges([kernel EXCEPT !.addr = kernel.addr \ {x}])
        BY DEF AddressChanged
    <2>2. kernel.addr \cup {x} \in SUBSET AddrEntry /\ kernel.addr \ {x} \in SUBSET AddrEntry
        BY <1>1, KernelFields DEF KernelOK
    <2>3. QED  BY <2>1, <2>2
<1> DEFINE k == [kernel EXCEPT !.addr = A]
<1>3. k.link = kernel.link /\ k.addr = A /\ k.neigh = kernel.neigh /\ k \in Kernel
    BY <1>1, <1>2, KernelFields DEF KernelOK, Kernel
<1>4. KernelBecomes(k) /\ external' \in 0..MaxExternal /\ lastIndex' = lastIndex
    BY <1>1, <1>2, LoadAssumption DEF KernelChanges, AddressChanged
<1> HIDE DEF k
<1>5. KernelOK(k)
    <2>1. \A y \in k.addr \cup k.neigh : y[1] \in {l.index : l \in k.link}
        BY <1>1, <1>2, <1>3 DEF KernelOK
    <2>2. QED  BY <1>1, <1>3, <2>1 DEF KernelOK
<1>6. \A l \in k.link : l.index <= lastIndex'
    BY <1>3, <1>4 DEF TypeInv, IndexInv
<1>7. QED  BY <1>1, <1>4, <1>5, <1>6

\* and a neighbour that comes or goes.
LEMMA NeighbourChangedKernel ==
    ASSUME TypeInv, NeighbourChanged
    PROVE  \E k : /\ KernelOK(k) /\ KernelBecomes(k) /\ external' \in 0..MaxExternal
                  /\ lastIndex' \in Ifindex /\ \A l \in k.link : l.index <= lastIndex'
<1>1. KernelOK(kernel) /\ lastIndex \in Ifindex /\ external \in 0..MaxExternal
    BY DEF TypeInv, TypeOK
<1>2. PICK x \in NeighEntry, N \in SUBSET NeighEntry :
         /\ \/ /\ N = {y \in kernel.neigh : y[1] # x[1] \/ y[2] # x[2]} \cup {x}
               /\ x[1] \in {l.index : l \in kernel.link}
            \/ N = {y \in kernel.neigh : y[1] # x[1] \/ y[2] # x[2]}
         /\ KernelChanges([kernel EXCEPT !.neigh = N])
    <2> DEFINE Others(x) == {y \in kernel.neigh : y[1] # x[1] \/ y[2] # x[2]}
    <2>1. PICK x \in NeighEntry :
             \/ /\ x[1] \in {l.index : l \in kernel.link}
                /\ KernelChanges([kernel EXCEPT !.neigh = Others(x) \cup {x}])
             \/ KernelChanges([kernel EXCEPT !.neigh = Others(x)])
        BY DEF NeighbourChanged
    <2>2. Others(x) \in SUBSET NeighEntry
        BY <1>1, KernelFields DEF KernelOK
    <2>3. QED  BY <2>1, <2>2
<1> DEFINE k == [kernel EXCEPT !.neigh = N]
<1>3. k.link = kernel.link /\ k.addr = kernel.addr /\ k.neigh = N /\ k \in Kernel
    BY <1>1, <1>2, KernelFields DEF KernelOK, Kernel
<1>4. KernelBecomes(k) /\ external' \in 0..MaxExternal /\ lastIndex' = lastIndex
    BY <1>1, <1>2, LoadAssumption DEF KernelChanges, NeighbourChanged
<1> HIDE DEF k
<1>5. KernelOK(k)
    <2>1. \A y \in k.addr \cup k.neigh : y[1] \in {l.index : l \in k.link}
        BY <1>1, <1>2, <1>3 DEF KernelOK
    <2>2. \A y, z \in k.neigh : y[1] = z[1] /\ y[2] = z[2] => y = z
        BY <1>1, <1>2, <1>3 DEF KernelOK
    <2>3. QED  BY <1>1, <1>3, <2>1, <2>2 DEF KernelOK
<1>6. \A l \in k.link : l.index <= lastIndex'
    BY <1>3, <1>4 DEF TypeInv, IndexInv
<1>7. QED  BY <1>1, <1>4, <1>5, <1>6

\* All five together.
LEMMA KernelStays ==
    ASSUME TypeInv, KernelStep
    PROVE  \E k : /\ KernelOK(k) /\ KernelBecomes(k) /\ external' \in 0..MaxExternal
                  /\ lastIndex' \in Ifindex /\ \A l \in k.link : l.index <= lastIndex'
    BY LinkCreatedKernel, LinkDeletedKernel, OperChangedKernel, AddressChangedKernel,
       NeighbourChangedKernel DEF KernelStep

\* What goes to a list of the current link is in the dump.
LEMMA EntriesIn ==
    ASSUME KernelOK(kernel), NEW keys
    PROVE  /\ EntriesOf(kernel.addr, keys) = {x \in kernel.addr : x[1] = cur.index /\ x[2] \in keys}
           /\ EntriesOf(kernel.neigh, keys) = {x \in kernel.neigh : x[1] = cur.index /\ x[2] \in keys}
<1>1. /\ \A x \in kernel.addr : x = <<x[1], x[2], x[3]>>
      /\ \A x \in kernel.neigh : x = <<x[1], x[2], x[3]>>
    BY KernelFields, EntryFields DEF KernelOK
<1>2. EntriesOf(kernel.addr, keys) = {x \in kernel.addr : x[1] = cur.index /\ x[2] \in keys}
    BY <1>1 DEF EntriesOf
<1>3. EntriesOf(kernel.neigh, keys) = {x \in kernel.neigh : x[1] = cur.index /\ x[2] \in keys}
    BY <1>1 DEF EntriesOf
<1>4. QED  BY <1>2, <1>3

\* The four list loaders: entries of the current link are added to one list.
ListStep == LoadAddress4 \/ LoadNeighbor4 \/ LoadAddress6 \/ LoadNeighbor6

\* A list loader adds entries of the current link and moves on.
LEMMA ListStepDoes ==
    ASSUME TypeInv, ListStep
    PROVE  /\ step = "load" /\ cur # NoLink
           /\ UNCHANGED <<running, step, kernel, lastIndex, seen, historyVars>>
           /\ \/ part \in 1..3 /\ part' = part + 1 /\ UNCHANGED <<todo, cur>>
              \/ part = 4 /\ part' = 1 /\ cur' = NoLink /\ todo' = todo \ {cur}
           /\ \E A \in SUBSET {x \in kernel.addr : x[1] = cur.index},
                 N \in SUBSET {x \in kernel.neigh : x[1] = cur.index} :
                 loaded' = [link |-> loaded.link, addr |-> loaded.addr \cup A,
                            neigh |-> loaded.neigh \cup N]
<1>1. KernelOK(kernel) /\ loaded = [link |-> loaded.link, addr |-> loaded.addr, neigh |-> loaded.neigh]
    BY KernelFields DEF TypeInv, TypeOK
<1>2. \A A : /\ [loaded EXCEPT !.addr = @ \cup A] = [link |-> loaded.link, addr |-> loaded.addr \cup A,
                                                    neigh |-> loaded.neigh]
             /\ [loaded EXCEPT !.neigh = @ \cup A] = [link |-> loaded.link, addr |-> loaded.addr,
                                                     neigh |-> loaded.neigh \cup A]
    BY <1>1
<1>3. \A keys : /\ EntriesOf(kernel.addr, keys) \in SUBSET {x \in kernel.addr : x[1] = cur.index}
                /\ EntriesOf(kernel.neigh, keys) \in SUBSET {x \in kernel.neigh : x[1] = cur.index}
    BY <1>1, EntriesIn
<1>4. CASE LoadAddress4
    <2>1. loaded' = [link |-> loaded.link, addr |-> loaded.addr \cup EntriesOf(kernel.addr, Addr4),
                     neigh |-> loaded.neigh \cup {}]
        BY <1>2, <1>4 DEF LoadAddress4
    <2>2. part \in 1..3 /\ part' = part + 1 /\ UNCHANGED <<todo, cur>>
        BY <1>4 DEF LoadAddress4, LoadList, NextList
    <2>3. QED  BY <1>3, <1>4, <2>1, <2>2 DEF LoadAddress4, LoadList
<1>5. CASE LoadNeighbor4
    <2>1. loaded' = [link |-> loaded.link, addr |-> loaded.addr \cup {},
                     neigh |-> loaded.neigh \cup EntriesOf(kernel.neigh, Neigh4)]
        BY <1>2, <1>5 DEF LoadNeighbor4
    <2>2. part \in 1..3 /\ part' = part + 1 /\ UNCHANGED <<todo, cur>>
        BY <1>5 DEF LoadNeighbor4, LoadList, NextList
    <2>3. QED  BY <1>3, <1>5, <2>1, <2>2 DEF LoadNeighbor4, LoadList
<1>6. CASE LoadAddress6
    <2>1. loaded' = [link |-> loaded.link, addr |-> loaded.addr \cup EntriesOf(kernel.addr, Addr6),
                     neigh |-> loaded.neigh \cup {}]
        BY <1>2, <1>6 DEF LoadAddress6
    <2>2. part \in 1..3 /\ part' = part + 1 /\ UNCHANGED <<todo, cur>>
        BY <1>6 DEF LoadAddress6, LoadList, NextList
    <2>3. QED  BY <1>3, <1>6, <2>1, <2>2 DEF LoadAddress6, LoadList
<1>7. CASE LoadNeighbor6
    <2>1. loaded' = [link |-> loaded.link, addr |-> loaded.addr \cup {},
                     neigh |-> loaded.neigh \cup EntriesOf(kernel.neigh, Neigh6)]
        BY <1>2, <1>7 DEF LoadNeighbor6
    <2>2. QED  BY <1>3, <1>7, <2>1 DEF LoadNeighbor6, LoadList
<1>8. QED  BY <1>4, <1>5, <1>6, <1>7 DEF ListStep

\* The steps that give up: a call refused, or a reason in what was found.
FailStep == /\ step \in {"links", "load", "subscribe"} /\ Fail
            /\ refused' \in {refused, refused + 1} /\ refused' <= MaxRefusal

\* Every step, by what it does to the variables.
LEMMA StepKinds ==
    ASSUME TypeInv, Next
    PROVE  \/ FailStep \/ ListStep \/ KernelStep
           \/ InitStart \/ PluginEnd \/ Reboot \/ ClientStores
           \/ /\ step = "links" /\ step' = "load" /\ todo' = kernel.link /\ seen' = kernel
              /\ UNCHANGED <<running, cur, part, loaded, kernel, lastIndex, historyVars>>
           \/ \E l \in todo : /\ step = "load" /\ cur = NoLink /\ TypeNl2Ly(l.kind) # NoValue
                              /\ cur' = l /\ part' = 1
                              /\ loaded' = [loaded EXCEPT !.link = @ \cup {l}]
                              /\ UNCHANGED <<running, step, todo, kernel, lastIndex, seen,
                                             historyVars>>
           \/ /\ step = "load" /\ cur = NoLink /\ todo = {} /\ LyConvertible(loaded)
              /\ \E tree \in LyTrees(loaded) : running' = Merge(running, tree)
              /\ step' = "subscribe" /\ loaded' = Nothing
              /\ UNCHANGED <<todo, cur, part, envVars, historyVars>>
           \/ /\ step = "subscribe" /\ step' = "up"
              /\ UNCHANGED <<running, todo, cur, part, loaded, envVars, historyVars>>
<1>1. refused \in 0..MaxRefusal /\ MaxRefusal \in Nat
    BY LoadAssumption DEF TypeInv, TypeOK
<1>2. CASE LoadLinks
    BY <1>1, <1>2 DEF LoadLinks, FailStep, Refuse
<1>3. CASE LoadLink
    BY <1>1, <1>3 DEF LoadLink, FailStep
<1>4. CASE LoadListFails
    BY <1>1, <1>4 DEF LoadListFails, FailStep, Refuse
<1>5. CASE StoreRunning
    BY <1>1, <1>5 DEF StoreRunning, FailStep, Refuse
<1>6. CASE Subscribe
    BY <1>1, <1>6 DEF Subscribe, FailStep, Refuse
<1>7. QED
    BY <1>2, <1>3, <1>4, <1>5, <1>6 DEF Next, InitStep, Environment, ListStep, KernelStep

-----------------------------------------------------------------------------
(* Type correctness                                                        *)

\* TypeInv holds at the start.
LEMMA TypeInit == Init => TypeInv
<1> SUFFICES ASSUME Init PROVE TypeInv
    OBVIOUS
<1>1. KernelOK(kernel) /\ lastIndex \in Ifindex /\ IndexInv
    BY HighestIndexIs, LoadAssumption DEF Init, IndexInv
<1>2. TypeOK
    BY <1>1, NothingType, EmptyWellFormed, LoadAssumption DEF Init, TypeOK
<1>3. QED  BY <1>1, <1>2, NothingType DEF Init, TypeInv, LoopInv, KindsKnown

\* Every step preserves TypeInv.
LEMMA TypeStep ==
    ASSUME TypeInv, [Next]_vars
    PROVE  TypeInv'
<1>0. /\ WellFormed(running) /\ WellFormed(found)
      /\ step \in {"off", "links", "load", "subscribe", "up", "failed"}
      /\ KernelOK(kernel) /\ kernel \in Kernel /\ lastIndex \in Ifindex
      /\ todo \subseteq Link /\ cur \in Link \cup {NoLink} /\ part \in 1..4
      /\ loaded \in Kernel /\ seen \in Kernel
      /\ still \in BOOLEAN /\ external \in 0..MaxExternal /\ refused \in 0..MaxRefusal
      /\ IndexInv /\ LoopInv /\ KindsKnown(loaded)
      /\ MaxExternal \in Nat /\ MaxRefusal \in Nat
    BY LoadAssumption DEF TypeInv, TypeOK, KernelOK
<1>a. /\ loaded.link \subseteq Link /\ loaded.addr \subseteq AddrEntry /\ loaded.neigh \subseteq NeighEntry
      /\ kernel.link \subseteq Link /\ kernel.addr \subseteq AddrEntry /\ kernel.neigh \subseteq NeighEntry
      /\ seen.link \subseteq Link /\ seen.addr \subseteq AddrEntry /\ seen.neigh \subseteq NeighEntry
    BY <1>0, KernelFields
<1>1. CASE FailStep
    <2>1. TypeOK'
        BY <1>0, <1>1, NothingType DEF FailStep, Fail, TypeOK
    <2>2. QED  BY <1>0, <1>1, <2>1, NothingType DEF FailStep, Fail, TypeInv, IndexInv, LoopInv, KindsKnown
<1>2. CASE ListStep
    <2>1. /\ step = "load" /\ cur # NoLink
          /\ UNCHANGED <<running, step, kernel, lastIndex, seen, historyVars>>
          /\ \/ part \in 1..3 /\ part' = part + 1 /\ UNCHANGED <<todo, cur>>
             \/ part = 4 /\ part' = 1 /\ cur' = NoLink /\ todo' = todo \ {cur}
        BY <1>2, ListStepDoes
    <2>2. PICK A \in SUBSET {x \in kernel.addr : x[1] = cur.index},
               N \in SUBSET {x \in kernel.neigh : x[1] = cur.index} :
             loaded' = [link |-> loaded.link, addr |-> loaded.addr \cup A,
                        neigh |-> loaded.neigh \cup N]
        BY <1>2, ListStepDoes
    <2>3. loaded' \in Kernel /\ loaded'.link = loaded.link
        BY <1>a, <2>2 DEF Kernel
    <2>4. todo' \subseteq Link /\ cur' \in Link \cup {NoLink} /\ part' \in 1..4
        BY <1>0, <2>1
    <2>5. TypeOK'
        BY <1>0, <2>1, <2>3, <2>4 DEF historyVars, TypeOK
    <2>6. IndexInv' /\ LoopInv' /\ KindsKnown(loaded)'
        BY <1>0, <2>1, <2>3 DEF historyVars, IndexInv, LoopInv, KindsKnown
    <2>7. QED  BY <2>5, <2>6 DEF TypeInv
<1>3. CASE KernelStep
    <2>1. PICK k : /\ KernelOK(k) /\ KernelBecomes(k) /\ external' \in 0..MaxExternal
                   /\ lastIndex' \in Ifindex /\ \A l \in k.link : l.index <= lastIndex'
        BY <1>3, KernelStays
    <2>2. k \in Kernel /\ k.link \subseteq Link /\ k.addr \subseteq AddrEntry /\ k.neigh \subseteq NeighEntry
        BY <2>1, KernelFields DEF KernelOK
    <2>3. seen' \in Kernel
        <3>1. seen = [link |-> seen.link, addr |-> seen.addr, neigh |-> seen.neigh]
            BY <1>0, KernelFields
        <3>2. seen' = [link |-> seen.link \cup k.link, addr |-> seen.addr \cup k.addr,
                       neigh |-> seen.neigh \cup k.neigh]
            BY <2>1, <3>1 DEF KernelBecomes
        <3>3. QED  BY <1>a, <2>2, <3>2 DEF Kernel
    <2>4. TypeOK'
        BY <1>0, <2>1, <2>3 DEF KernelBecomes, pluginVars, TypeOK
    <2>5. QED
        BY <1>0, <2>1, <2>4 DEF KernelBecomes, pluginVars, TypeInv, IndexInv, LoopInv, KindsKnown
<1>4. CASE InitStart
    <2>1. TypeOK'
        BY <1>0, <1>4, NothingType DEF InitStart, TypeOK
    <2>2. QED  BY <1>0, <1>4, <2>1 DEF InitStart, TypeInv, IndexInv, LoopInv, KindsKnown
<1>5. CASE PluginEnd
    <2>1. TypeOK'
        BY <1>0, <1>5, NothingType, EmptyWellFormed DEF PluginEnd, TypeOK
    <2>2. QED  BY <1>0, <1>5, <2>1 DEF PluginEnd, TypeInv, IndexInv, LoopInv, KindsKnown
<1>6. CASE Reboot
    <2>1. KernelOK(kernel)' /\ lastIndex' \in Ifindex /\ IndexInv'
        <3>1. KernelOK(kernel') /\ lastIndex' = HighestIndex(kernel')
            BY <1>6, LoadAssumption DEF Reboot
        <3>2. HighestIndex(kernel') \in Ifindex /\ \A l \in kernel'.link : l.index <= HighestIndex(kernel')
            BY <3>1, HighestIndexIs
        <3>3. QED  BY <3>1, <3>2 DEF IndexInv
    <2>2. TypeOK'
        BY <1>0, <1>6, <2>1, NothingType, EmptyWellFormed DEF Reboot, TypeOK
    <2>3. QED  BY <1>6, <2>1, <2>2, NothingType DEF Reboot, TypeInv, LoopInv, KindsKnown
<1>7. CASE ClientStores
    <2>1. WellFormed(running)' /\ external' \in 0..MaxExternal
        BY <1>0, <1>7, LoadAssumption DEF ClientStores
    <2>2. TypeOK'
        BY <1>0, <1>7, <2>1 DEF ClientStores, pluginVars, envVars, TypeOK
    <2>3. QED
        BY <1>0, <1>7, <2>2 DEF ClientStores, pluginVars, envVars, TypeInv, IndexInv, LoopInv, KindsKnown
<1>8. CASE /\ step = "links" /\ step' = "load" /\ todo' = kernel.link /\ seen' = kernel
           /\ UNCHANGED <<running, cur, part, loaded, kernel, lastIndex, historyVars>>
    <2>1. TypeOK'
        BY <1>0, <1>a, <1>8 DEF historyVars, TypeOK
    <2>2. QED  BY <1>0, <1>8, <2>1 DEF historyVars, TypeInv, IndexInv, LoopInv, KindsKnown
<1>9. ASSUME NEW l \in todo, step = "load", cur = NoLink, TypeNl2Ly(l.kind) # NoValue,
             cur' = l, part' = 1, loaded' = [loaded EXCEPT !.link = @ \cup {l}],
             UNCHANGED <<running, step, todo, kernel, lastIndex, seen, historyVars>>
      PROVE  TypeInv'
    <2>1. loaded' \in Kernel /\ loaded'.link = loaded.link \cup {l}
        BY <1>0, <1>a, <1>9 DEF Kernel
    <2>2. TypeOK'
        BY <1>0, <1>9, <2>1 DEF historyVars, TypeOK
    <2>3. QED  BY <1>0, <1>9, <2>1, <2>2 DEF historyVars, TypeInv, IndexInv, LoopInv, KindsKnown
<1>10. CASE /\ step = "load" /\ cur = NoLink /\ todo = {} /\ LyConvertible(loaded)
            /\ \E tree \in LyTrees(loaded) : running' = Merge(running, tree)
            /\ step' = "subscribe" /\ loaded' = Nothing
            /\ UNCHANGED <<todo, cur, part, envVars, historyVars>>
    <2>1. WellFormed(running')
        <3>1. PICK tree \in LyTrees(loaded) : running' = Merge(running, tree)
            BY <1>10
        <3>2. TreeShape(tree)
            BY <1>0, <1>10, <3>1, TreeHasShape
        <3>3. QED  BY <1>0, <3>1, <3>2, MergeWellFormed
    <2>2. TypeOK'
        BY <1>0, <1>10, <2>1, NothingType DEF envVars, historyVars, TypeOK
    <2>3. QED
        BY <1>0, <1>10, <2>2, NothingType DEF envVars, historyVars, TypeInv, IndexInv, LoopInv, KindsKnown
<1>11. CASE /\ step = "subscribe" /\ step' = "up"
            /\ UNCHANGED <<running, todo, cur, part, loaded, envVars, historyVars>>
    <2>1. TypeOK'
        BY <1>0, <1>11 DEF envVars, historyVars, TypeOK
    <2>2. QED  BY <1>0, <1>11, <2>1 DEF envVars, historyVars, TypeInv, IndexInv, LoopInv, KindsKnown
<1>12. CASE UNCHANGED vars
    <2>1. TypeOK'
        BY <1>0, <1>12 DEF vars, pluginVars, envVars, historyVars, TypeOK
    <2>2. QED
        BY <1>0, <1>12, <2>1 DEF vars, pluginVars, envVars, historyVars, TypeInv, IndexInv, LoopInv, KindsKnown
<1>13. QED
    BY <1>1, <1>2, <1>3, <1>4, <1>5, <1>6, <1>7, <1>8, <1>9, <1>10, <1>11, <1>12, StepKinds

\* Whatever the kernel holds when it is dumped, and whatever a client has
\* stored, the datastore stays valid YANG data: the casts, identities and
\* choices of interfaces_interface_hash_to_ly make no leaf the schema refuses,
\* and the hash never holds what no kernel may hold.
THEOREM TypeCorrect == Spec => []TypeOK
<1>1. TypeInv => TypeOK
    BY DEF TypeInv
<1>2. QED  BY <1>1, TypeInit, TypeStep, PTL DEF Spec

-----------------------------------------------------------------------------
(* What was stored is kept                                                 *)

\* Between the check for emptiness and the merge nobody but a client has
\* stored anything, and content that was found is still there.
FoundInv ==
    /\ found # EmptyConfig => running = found
    /\ step \in {"links", "load"} => found = EmptyConfig
    /\ step \in {"links", "load"} /\ still => running = EmptyConfig

\* FoundInv holds at the start.
LEMMA FoundInit == Init => FoundInv
    BY DEF Init, FoundInv

\* Every step preserves FoundInv.
LEMMA FoundStep ==
    ASSUME TypeInv, FoundInv, [Next]_vars
    PROVE  FoundInv'
<1>1. CASE FailStep
    BY <1>1 DEF FailStep, Fail, FoundInv
<1>2. CASE ListStep
    <2>1. step = "load" /\ UNCHANGED <<running, step, found, still>>
        BY <1>2, ListStepDoes DEF historyVars
    <2>2. QED  BY <2>1 DEF FoundInv
<1>3. CASE KernelStep
    <2>1. \E k : KernelBecomes(k)
        BY <1>3, KernelStays
    <2>2. QED  BY <2>1 DEF KernelBecomes, pluginVars, FoundInv
<1>4. CASE InitStart
    BY <1>4 DEF InitStart, FoundInv
<1>5. CASE PluginEnd
    BY <1>5 DEF PluginEnd, FoundInv
<1>6. CASE Reboot
    BY <1>6 DEF Reboot, FoundInv
<1>7. CASE ClientStores
    BY <1>7 DEF ClientStores, pluginVars, envVars, FoundInv
<1>8. CASE /\ step = "links" /\ step' = "load" /\ todo' = kernel.link /\ seen' = kernel
           /\ UNCHANGED <<running, cur, part, loaded, kernel, lastIndex, historyVars>>
    BY <1>8 DEF historyVars, FoundInv
<1>9. CASE step = "load" /\ UNCHANGED <<running, step, todo, kernel, lastIndex, seen, historyVars>>
    BY <1>9 DEF historyVars, FoundInv
<1>10. CASE /\ step = "load" /\ step' = "subscribe" /\ loaded' = Nothing
            /\ UNCHANGED <<todo, cur, part, envVars, historyVars>>
    BY <1>10 DEF historyVars, FoundInv
<1>11. CASE /\ step = "subscribe" /\ step' = "up"
            /\ UNCHANGED <<running, todo, cur, part, loaded, envVars, historyVars>>
    BY <1>11 DEF historyVars, FoundInv
<1>12. CASE UNCHANGED vars
    BY <1>12 DEF vars, pluginVars, historyVars, FoundInv
<1>13. QED
    BY <1>1, <1>2, <1>3, <1>4, <1>5, <1>6, <1>7, <1>8, <1>9, <1>10, <1>11, <1>12, StepKinds

\* Content that was in the datastore when the plugin was started stays as it
\* is, and what a client stores while the load is under way survives the merge
\* of the tree: no leaf but a netmask goes, whatever the kernel held.
THEOREM StoredDataIsKept == Spec => StoredDataKept
<1> DEFINE Kept == step # "off" /\ step' # "off" =>
                      /\ found # EmptyConfig => running' = running
                      /\ \A l \in Leaf : running[l] # NoValue /\ l.kind # "netmask"
                                         => running'[l] # NoValue
<1>1. ASSUME TypeInv, FoundInv, [Next]_vars
      PROVE  [Kept]_running
    <2> SUFFICES ASSUME running' # running, step' # "off" PROVE Kept
        OBVIOUS
    <2>1. CASE ClientStores
        <3>1. running = EmptyConfig /\ found = EmptyConfig
            BY <1>1, <2>1 DEF ClientStores, FoundInv
        <3>2. QED  BY <3>1 DEF EmptyConfig
    <2>2. CASE /\ step = "load" /\ cur = NoLink /\ todo = {} /\ LyConvertible(loaded)
               /\ \E tree \in LyTrees(loaded) : running' = Merge(running, tree)
               /\ step' = "subscribe" /\ loaded' = Nothing
               /\ UNCHANGED <<todo, cur, part, envVars, historyVars>>
        <3>1. found = EmptyConfig
            BY <1>1, <2>2 DEF FoundInv
        <3>2. QED  BY <2>2, <3>1, MergeKeeps
    <2>3. ~FailStep /\ ~InitStart /\ ~PluginEnd /\ ~Reboot
        BY DEF FailStep, Fail, InitStart, PluginEnd, Reboot
    <2>4. ~ListStep
        BY <1>1, ListStepDoes
    <2>5. ~KernelStep
        BY <1>1, KernelStays DEF KernelBecomes
    <2>6. ~UNCHANGED vars
        BY DEF vars
    <2>7. QED
        BY <1>1, <2>1, <2>2, <2>3, <2>4, <2>5, <2>6, StepKinds
<1>2. QED
    BY <1>1, TypeInit, TypeStep, FoundInit, FoundStep, PTL DEF Spec, StoredDataKept

-----------------------------------------------------------------------------
(* The hash and the kernel                                                 *)

\* seen is what the kernel held at some time of the load: all the plugin is to
\* load, and all there is if nobody has changed anything.
SeenInv ==
    step = "load" =>
        /\ todo \subseteq seen.link
        /\ kernel.link \subseteq seen.link /\ kernel.addr \subseteq seen.addr
        /\ kernel.neigh \subseteq seen.neigh
        /\ still => seen = kernel

\* Every step preserves SeenInv.
LEMMA SeenStep ==
    ASSUME TypeInv, SeenInv, [Next]_vars
    PROVE  SeenInv'
<1>1. CASE FailStep
    BY <1>1 DEF FailStep, Fail, SeenInv
<1>2. CASE ListStep
    <2>1. UNCHANGED <<step, kernel, seen, still>> /\ todo' \subseteq todo
        BY <1>2, ListStepDoes DEF historyVars
    <2>2. QED  BY <2>1 DEF SeenInv
<1>3. CASE KernelStep
    <2>1. PICK k : KernelBecomes(k)
        BY <1>3, KernelStays
    <2>2. /\ kernel' = k /\ still' = FALSE /\ UNCHANGED <<step, todo>> /\ step = "load"
          /\ seen' = [f \in DOMAIN seen |-> seen[f] \cup k[f]]
        BY <2>1 DEF KernelBecomes, pluginVars
    <2>3. seen = [link |-> seen.link, addr |-> seen.addr, neigh |-> seen.neigh]
        BY KernelFields DEF TypeInv, TypeOK
    <2>4. /\ seen'.link = seen.link \cup k.link /\ seen'.addr = seen.addr \cup k.addr
          /\ seen'.neigh = seen.neigh \cup k.neigh
        BY <2>2, <2>3
    <2>5. QED  BY <2>2, <2>4 DEF SeenInv
<1>4. CASE InitStart
    BY <1>4 DEF InitStart, SeenInv
<1>5. CASE PluginEnd
    BY <1>5 DEF PluginEnd, SeenInv
<1>6. CASE Reboot
    BY <1>6 DEF Reboot, SeenInv
<1>7. CASE ClientStores
    BY <1>7 DEF ClientStores, pluginVars, envVars, SeenInv
<1>8. CASE /\ step = "links" /\ step' = "load" /\ todo' = kernel.link /\ seen' = kernel
           /\ UNCHANGED <<running, cur, part, loaded, kernel, lastIndex, historyVars>>
    BY <1>8 DEF historyVars, SeenInv
<1>9. CASE step = "load" /\ UNCHANGED <<running, step, todo, kernel, lastIndex, seen, historyVars>>
    BY <1>9 DEF historyVars, SeenInv
<1>10. CASE step' \in {"subscribe", "up"}
    BY <1>10 DEF SeenInv
<1>11. CASE UNCHANGED vars
    BY <1>11 DEF vars, pluginVars, envVars, historyVars, SeenInv
<1>12. QED
    BY <1>1, <1>2, <1>3, <1>4, <1>5, <1>6, <1>7, <1>8, <1>9, <1>10, <1>11, StepKinds

\* Every step preserves that the loaded entries existed.
LEMMA EntriesStep ==
    ASSUME TypeInv, SeenInv, LoadedEntriesExisted, [Next]_vars
    PROVE  LoadedEntriesExisted'
<1>0. LoopInv
    BY DEF TypeInv
<1>a. CASE loaded' = Nothing
    <2>1. loaded'.link = {} /\ loaded'.addr = {} /\ loaded'.neigh = {}
        BY <1>a, NothingType
    <2>2. QED  BY <2>1 DEF LoadedEntriesExisted
<1>b. CASE loaded' = loaded /\ seen' = seen
    BY <1>b DEF LoadedEntriesExisted
<1>1. CASE FailStep
    BY <1>a, <1>1 DEF FailStep, Fail
<1>2. CASE ListStep
    <2>1. seen' = seen /\ cur \in loaded.link /\ step = "load"
        BY <1>0, <1>2, ListStepDoes DEF LoopInv
    <2>2. PICK A \in SUBSET {x \in kernel.addr : x[1] = cur.index},
               N \in SUBSET {x \in kernel.neigh : x[1] = cur.index} :
             loaded' = [link |-> loaded.link, addr |-> loaded.addr \cup A,
                        neigh |-> loaded.neigh \cup N]
        BY <1>2, ListStepDoes
    <2>3. /\ loaded'.link = loaded.link /\ loaded'.addr = loaded.addr \cup A
          /\ loaded'.neigh = loaded.neigh \cup N
        BY <2>2
    <2>4. loaded'.addr \subseteq seen.addr /\ loaded'.neigh \subseteq seen.neigh
        BY <2>1, <2>2, <2>3 DEF SeenInv, LoadedEntriesExisted
    <2>5. \A x \in A \cup N : x[1] = cur.index
        BY <2>2
    <2>6. \A x \in loaded'.addr \cup loaded'.neigh : \E l \in loaded'.link : l.index = x[1]
        BY <2>1, <2>3, <2>5 DEF LoadedEntriesExisted
    <2>7. QED  BY <2>1, <2>3, <2>4, <2>6 DEF LoadedEntriesExisted
<1>3. CASE KernelStep
    <2>1. PICK k : KernelBecomes(k)
        BY <1>3, KernelStays
    <2>2. loaded' = loaded /\ seen' = [f \in DOMAIN seen |-> seen[f] \cup k[f]]
        BY <2>1 DEF KernelBecomes, pluginVars
    <2>3. seen = [link |-> seen.link, addr |-> seen.addr, neigh |-> seen.neigh]
        BY KernelFields DEF TypeInv, TypeOK
    <2>4. /\ seen'.link = seen.link \cup k.link /\ seen'.addr = seen.addr \cup k.addr
          /\ seen'.neigh = seen.neigh \cup k.neigh
        BY <2>2, <2>3
    <2>5. QED  BY <2>2, <2>4 DEF LoadedEntriesExisted
<1>4. CASE InitStart
    BY <1>0, <1>a, <1>4 DEF InitStart, LoopInv
<1>5. CASE PluginEnd
    BY <1>0, <1>a, <1>5 DEF PluginEnd, LoopInv
<1>6. CASE Reboot
    BY <1>a, <1>6 DEF Reboot
<1>7. CASE ClientStores
    BY <1>b, <1>7 DEF ClientStores, pluginVars, envVars
<1>8. CASE /\ step = "links" /\ step' = "load" /\ todo' = kernel.link /\ seen' = kernel
           /\ UNCHANGED <<running, cur, part, loaded, kernel, lastIndex, historyVars>>
    BY <1>0, <1>a, <1>8 DEF LoopInv
<1>9. ASSUME NEW l \in todo, step = "load", loaded' = [loaded EXCEPT !.link = @ \cup {l}],
             UNCHANGED <<running, step, todo, kernel, lastIndex, seen, historyVars>>
      PROVE  LoadedEntriesExisted'
    <2>1. loaded = [link |-> loaded.link, addr |-> loaded.addr, neigh |-> loaded.neigh]
        BY KernelFields DEF TypeInv, TypeOK
    <2>2. /\ loaded'.link = loaded.link \cup {l} /\ loaded'.addr = loaded.addr
          /\ loaded'.neigh = loaded.neigh
        BY <1>9, <2>1
    <2>3. QED  BY <1>9, <2>2 DEF SeenInv, LoadedEntriesExisted
<1>10. CASE step' = "subscribe" /\ loaded' = Nothing
    BY <1>a, <1>10
<1>11. CASE UNCHANGED <<running, todo, cur, part, loaded, envVars, historyVars>>
    BY <1>b, <1>11 DEF envVars
<1>12. CASE UNCHANGED vars
    BY <1>b, <1>12 DEF vars, pluginVars, envVars
<1>13. QED
    BY <1>1, <1>2, <1>3, <1>4, <1>5, <1>6, <1>7, <1>8, <1>9, <1>10, <1>11, <1>12, StepKinds

\* SeenInv and LoadedEntriesExisted hold at the start.
LEMMA HashInit == Init => SeenInv /\ LoadedEntriesExisted
    BY NothingType DEF Init, SeenInv, LoadedEntriesExisted

\* The dumps of a load, each of another moment, never make up an address
\* or neighbour nor move it to another interface.
THEOREM EntriesExisted == Spec => []LoadedEntriesExisted
    BY TypeInit, TypeStep, HashInit, SeenStep, EntriesStep, PTL DEF Spec

-----------------------------------------------------------------------------
(* A load that fails                                                       *)

\* The identities are known for the kinds Loadable names, and for no other.
LEMMA UnknownKind ==
    ASSUME NEW kind, TypeNl2Ly(kind) = NoValue
    PROVE  kind \notin {"NULL", "veth", "vcan", "vlan", "dummy", "bridge"}
    BY LoadAssumption, NoValueAssumption DEF TypeNl2Ly

\* Why a step gives up, if no call was refused.
LEMMA FailReason ==
    ASSUME TypeInv, SeenInv, LoadedEntriesExisted, Next, FailStep, refused' = 0, still
    PROVE  ~Loadable(kernel)
<1>1. refused = 0 /\ refused' # refused + 1
    BY LoadAssumption DEF TypeInv, TypeOK, FailStep
<1>2. step \in {"links", "load", "subscribe"} /\ step' = "failed"
    BY DEF FailStep, Fail
<1>3. kernel \in Kernel /\ kernel.link \subseteq Link /\ loaded.link \subseteq Link
    BY KernelFields DEF TypeInv, TypeOK, KernelOK
<1>4. step = "load" =>
        /\ todo \subseteq kernel.link /\ loaded.link \subseteq kernel.link
        /\ loaded.neigh \subseteq kernel.neigh
    BY DEF SeenInv, LoadedEntriesExisted
<1>5. CASE LoadLinks
    BY <1>1, <1>2, <1>5 DEF LoadLinks, Refuse
<1>6. CASE LoadLink
    <2>1. PICK l \in todo : step = "load" /\ TypeNl2Ly(l.kind) = NoValue
        BY <1>2, <1>6 DEF LoadLink
    <2>2. QED  BY <1>4, <2>1, UnknownKind DEF Loadable
<1>7. CASE LoadListFails
    <2>1. kernel.addr = {} \/ kernel.neigh = {}
        BY <1>1, <1>7 DEF LoadListFails, Refuse
    <2>2. QED  BY <2>1 DEF Loadable
<1>8. CASE StoreRunning
    <2>1. step = "load" /\ ~LyConvertible(loaded)
        BY <1>1, <1>2, <1>8 DEF StoreRunning, Refuse
    <2>2. CASE \E l \in loaded.link : ~MtuOK(l)
        <3>1. PICK l \in loaded.link : ~MtuOK(l)
            BY <2>2
        <3>2. l.mtu \in Nat
            BY <1>3, <3>1, LinkFields, LoadAssumption
        <3>3. l.mtu % 65536 \in 1..1279
            BY <3>1, <3>2, SMTT(20) DEF MtuOK, MtuOf
        <3>4. QED  BY <1>4, <2>1, <3>1, <3>3, SMTT(20) DEF Loadable
    <2>3. CASE \E x \in loaded.neigh : x[3] = NoLlAddr
        BY <1>4, <2>1, <2>3 DEF Loadable
    <2>4. QED  BY <2>1, <2>2, <2>3 DEF LyConvertible
<1>9. CASE Subscribe
    BY <1>1, <1>2, <1>9 DEF Subscribe, Refuse
<1>10. ~ListStep
    BY <1>2, ListStepDoes
<1>11. ~KernelStep
    BY <1>2, KernelStays DEF KernelBecomes, pluginVars
<1>12. ~InitStart /\ ~PluginEnd /\ ~Reboot /\ ~ClientStores
    BY <1>2 DEF InitStart, PluginEnd, Reboot, ClientStores, pluginVars
<1>13. QED
    BY <1>5, <1>6, <1>7, <1>8, <1>9, <1>10, <1>11, <1>12
       DEF Next, InitStep, Environment, ListStep, KernelStep

\* Every step preserves that failures are explained.
LEMMA FailureStep ==
    ASSUME TypeInv, SeenInv, LoadedEntriesExisted, FailureExplained, [Next]_vars
    PROVE  FailureExplained'
<1> SUFFICES ASSUME step' = "failed", still', refused' = 0 PROVE ~Loadable(kernel')
    BY DEF FailureExplained
<1>1. CASE FailStep
    <2>1. kernel' = kernel /\ still' = still /\ step' # step
        BY <1>1 DEF FailStep, Fail
    <2>2. Next
        BY <2>1 DEF vars, pluginVars
    <2>3. QED  BY <1>1, <2>1, <2>2, FailReason
<1>2. CASE ListStep
    <2>1. step = "load" /\ step' = step
        BY <1>2, ListStepDoes
    <2>2. QED  BY <2>1
<1>3. CASE KernelStep
    BY <1>3, KernelStays DEF KernelBecomes
<1>4. CASE InitStart \/ PluginEnd \/ Reboot
    BY <1>4 DEF InitStart, PluginEnd, Reboot
<1>5. CASE ClientStores
    BY <1>5 DEF ClientStores
<1>6. CASE UNCHANGED vars
    BY <1>6 DEF vars, pluginVars, envVars, historyVars, FailureExplained
<1>7. QED  BY <1>1, <1>2, <1>3, <1>4, <1>5, <1>6, StepKinds

\* Init gives up only for a reason: a kernel that stands still and that it can
\* load is loaded, unless a call is refused.
THEOREM FailureIsExplained == Spec => []FailureExplained
<1>1. Init => FailureExplained
    BY DEF Init, FailureExplained
<1>2. QED
    BY <1>1, TypeInit, TypeStep, HashInit, SeenStep, EntriesStep, FailureStep, PTL DEF Spec

-----------------------------------------------------------------------------
(* A load that succeeds                                                    *)

\* The loop is through with list k of link l.
Through(l, k) == l \notin todo \/ (l = cur /\ part > k)

\* While nobody changes the kernel, a link is in the hash or still to come, and
\* every list that is through is complete.
LinksComplete == kernel.link \subseteq loaded.link \cup todo
AddrComplete(x, l, k) == x[1] = l.index /\ Through(l, k) => x \in loaded.addr
NeighComplete(x, l, k) == x[1] = l.index /\ Through(l, k) => x \in loaded.neigh
CompleteInv ==
    step = "load" /\ still =>
        /\ LinksComplete
        /\ \A x \in kernel.addr, l \in kernel.link :
              /\ x[2] \in Addr4 => AddrComplete(x, l, 1)
              /\ x[2] \in Addr6 => AddrComplete(x, l, 3)
        /\ \A x \in kernel.neigh, l \in kernel.link :
              /\ x[2] \in Neigh4 => NeighComplete(x, l, 2)
              /\ x[2] \in Neigh6 => NeighComplete(x, l, 4)

\* What a list loader adds to the list is what is missing in it.
LEMMA ListAdds ==
    ASSUME TypeInv, ListStep
    PROVE  \/ /\ part = 1 /\ part' = 2 /\ UNCHANGED <<todo, cur>> /\ loaded'.neigh = loaded.neigh
              /\ loaded'.addr = loaded.addr \cup
                    {x \in kernel.addr : x[1] = cur.index /\ x[2] \in Addr4}
           \/ /\ part = 2 /\ part' = 3 /\ UNCHANGED <<todo, cur>> /\ loaded'.addr = loaded.addr
              /\ loaded'.neigh = loaded.neigh \cup
                    {x \in kernel.neigh : x[1] = cur.index /\ x[2] \in Neigh4}
           \/ /\ part = 3 /\ part' = 4 /\ UNCHANGED <<todo, cur>> /\ loaded'.neigh = loaded.neigh
              /\ loaded'.addr = loaded.addr \cup
                    {x \in kernel.addr : x[1] = cur.index /\ x[2] \in Addr6}
           \/ /\ part = 4 /\ part' = 1 /\ cur' = NoLink /\ todo' = todo \ {cur}
              /\ loaded'.addr = loaded.addr
              /\ loaded'.neigh = loaded.neigh \cup
                    {x \in kernel.neigh : x[1] = cur.index /\ x[2] \in Neigh6}
<1>1. KernelOK(kernel) /\ loaded = [link |-> loaded.link, addr |-> loaded.addr, neigh |-> loaded.neigh]
    BY KernelFields DEF TypeInv, TypeOK
<1>2. \A A : /\ [loaded EXCEPT !.addr = @ \cup A].addr = loaded.addr \cup A
             /\ [loaded EXCEPT !.addr = @ \cup A].neigh = loaded.neigh
             /\ [loaded EXCEPT !.neigh = @ \cup A].addr = loaded.addr
             /\ [loaded EXCEPT !.neigh = @ \cup A].neigh = loaded.neigh \cup A
    BY <1>1
<1>3. \A keys :
         /\ EntriesOf(kernel.addr, keys) = {x \in kernel.addr : x[1] = cur.index /\ x[2] \in keys}
         /\ EntriesOf(kernel.neigh, keys) = {x \in kernel.neigh : x[1] = cur.index /\ x[2] \in keys}
    BY <1>1, EntriesIn
<1>4. CASE LoadAddress4
    <2>1. part = 1 /\ part' = 2 /\ UNCHANGED <<todo, cur>>
          /\ loaded' = [loaded EXCEPT !.addr = @ \cup EntriesOf(kernel.addr, Addr4)]
        BY <1>4 DEF LoadAddress4, LoadList, NextList
    <2>2. QED  BY <1>2, <1>3, <2>1
<1>5. CASE LoadNeighbor4
    <2>1. part = 2 /\ part' = 3 /\ UNCHANGED <<todo, cur>>
          /\ loaded' = [loaded EXCEPT !.neigh = @ \cup EntriesOf(kernel.neigh, Neigh4)]
        BY <1>5 DEF LoadNeighbor4, LoadList, NextList
    <2>2. QED  BY <1>2, <1>3, <2>1
<1>6. CASE LoadAddress6
    <2>1. part = 3 /\ part' = 4 /\ UNCHANGED <<todo, cur>>
          /\ loaded' = [loaded EXCEPT !.addr = @ \cup EntriesOf(kernel.addr, Addr6)]
        BY <1>6 DEF LoadAddress6, LoadList, NextList
    <2>2. QED  BY <1>2, <1>3, <2>1
<1>7. CASE LoadNeighbor6
    <2>1. /\ part = 4 /\ part' = 1 /\ cur' = NoLink /\ todo' = todo \ {cur}
          /\ loaded' = [loaded EXCEPT !.neigh = @ \cup EntriesOf(kernel.neigh, Neigh6)]
        BY <1>7 DEF LoadNeighbor6, LoadList
    <2>2. QED  BY <1>2, <1>3, <2>1
<1>8. QED  BY <1>4, <1>5, <1>6, <1>7 DEF ListStep

\* A list loader completes the list it is for.
LEMMA CompleteList ==
    ASSUME TypeInv, SeenInv, LoadedEntriesExisted, CompleteInv, ListStep
    PROVE  CompleteInv'
<1>1. /\ step = "load" /\ cur # NoLink /\ UNCHANGED <<step, kernel, still>>
      /\ loaded'.link = loaded.link
    BY ListStepDoes DEF historyVars
<1>2. cur \in todo /\ cur \in loaded.link /\ KernelOK(kernel) /\ part \in 1..4
    BY <1>1 DEF TypeInv, TypeOK, LoopInv
<1>3. SUFFICES ASSUME still
               PROVE  /\ LinksComplete'
                      /\ \A x \in kernel.addr, l \in kernel.link :
                            /\ x[2] \in Addr4 => AddrComplete(x, l, 1)'
                            /\ x[2] \in Addr6 => AddrComplete(x, l, 3)'
                      /\ \A x \in kernel.neigh, l \in kernel.link :
                            /\ x[2] \in Neigh4 => NeighComplete(x, l, 2)'
                            /\ x[2] \in Neigh6 => NeighComplete(x, l, 4)'
    BY <1>1 DEF CompleteInv
<1>4. /\ LinksComplete
      /\ \A x \in kernel.addr, l \in kernel.link :
            /\ x[2] \in Addr4 => AddrComplete(x, l, 1)
            /\ x[2] \in Addr6 => AddrComplete(x, l, 3)
      /\ \A x \in kernel.neigh, l \in kernel.link :
            /\ x[2] \in Neigh4 => NeighComplete(x, l, 2)
            /\ x[2] \in Neigh6 => NeighComplete(x, l, 4)
    BY <1>1, <1>3 DEF CompleteInv
<1>5. LinksComplete'
    <2>1. todo \subseteq todo' \cup {cur}
        BY ListStepDoes
    <2>2. QED  BY <1>1, <1>2, <1>4, <2>1 DEF LinksComplete
\* A list that gets through is the one that was just loaded.
<1>6. ASSUME NEW l \in kernel.link, NEW k \in 1..4, Through(l, k)'
      PROVE  Through(l, k) \/ (l = cur /\ k = part)
    BY <1>2, <1>6, ListStepDoes DEF Through
<1>7. ASSUME NEW x \in kernel.addr, NEW l \in kernel.link, x[1] = l.index, NEW k \in {1, 3},
             k = 1 => x[2] \in Addr4, k = 3 => x[2] \in Addr6, Through(l, k)'
      PROVE  x \in loaded'.addr
    <2>1. loaded.addr \subseteq loaded'.addr
        BY ListAdds
    <2>2. CASE Through(l, k)
        BY <1>4, <1>7, <2>1, <2>2 DEF AddrComplete
    <2>3. CASE l = cur /\ k = part
        BY <1>7, <2>3, ListAdds
    <2>4. QED  BY <1>6, <1>7, <2>2, <2>3
<1>8. ASSUME NEW x \in kernel.neigh, NEW l \in kernel.link, x[1] = l.index, NEW k \in {2, 4},
             k = 2 => x[2] \in Neigh4, k = 4 => x[2] \in Neigh6, Through(l, k)'
      PROVE  x \in loaded'.neigh
    <2>1. loaded.neigh \subseteq loaded'.neigh
        BY ListAdds
    <2>2. CASE Through(l, k)
        BY <1>4, <1>8, <2>1, <2>2 DEF NeighComplete
    <2>3. CASE l = cur /\ k = part
        BY <1>8, <2>3, ListAdds
    <2>4. QED  BY <1>6, <1>8, <2>2, <2>3
<1>9. \A x \in kernel.addr, l \in kernel.link :
         /\ x[2] \in Addr4 => AddrComplete(x, l, 1)'
         /\ x[2] \in Addr6 => AddrComplete(x, l, 3)'
    BY <1>7 DEF AddrComplete
<1>10. \A x \in kernel.neigh, l \in kernel.link :
          /\ x[2] \in Neigh4 => NeighComplete(x, l, 2)'
          /\ x[2] \in Neigh6 => NeighComplete(x, l, 4)'
    BY <1>8 DEF NeighComplete
<1>11. QED  BY <1>5, <1>9, <1>10

\* Every step preserves CompleteInv.
LEMMA CompleteStep ==
    ASSUME TypeInv, SeenInv, LoadedEntriesExisted, CompleteInv, [Next]_vars
    PROVE  CompleteInv'
<1>0. LoopInv
    BY DEF TypeInv
<1>1. CASE FailStep
    BY <1>1 DEF FailStep, Fail, CompleteInv
<1>2. CASE ListStep
    BY <1>2, CompleteList
<1>3. CASE KernelStep
    BY <1>3, KernelStays DEF KernelBecomes, CompleteInv
<1>4. CASE InitStart
    BY <1>4 DEF InitStart, CompleteInv
<1>5. CASE PluginEnd \/ Reboot
    BY <1>5 DEF PluginEnd, Reboot, CompleteInv
<1>6. CASE ClientStores
    BY <1>6 DEF ClientStores, CompleteInv
<1>7. CASE /\ step = "links" /\ step' = "load" /\ todo' = kernel.link /\ seen' = kernel
           /\ UNCHANGED <<running, cur, part, loaded, kernel, lastIndex, historyVars>>
    <2>1. cur = NoLink /\ part = 1 /\ cur' = cur /\ part' = part /\ kernel' = kernel
        BY <1>0, <1>7 DEF LoopInv
    <2>2. LinksComplete'
        BY <1>7 DEF LinksComplete
    <2>3. \A l \in kernel.link, k \in 1..4 : ~Through(l, k)'
        BY <1>7, <2>1 DEF Through
    <2>4. QED  BY <2>1, <2>2, <2>3 DEF CompleteInv, AddrComplete, NeighComplete
<1>8. ASSUME NEW l \in todo, step = "load", cur = NoLink, cur' = l, part' = 1,
             loaded' = [loaded EXCEPT !.link = @ \cup {l}],
             UNCHANGED <<running, step, todo, kernel, lastIndex, seen, historyVars>>
      PROVE  CompleteInv'
    <2>1. loaded = [link |-> loaded.link, addr |-> loaded.addr, neigh |-> loaded.neigh]
        BY KernelFields DEF TypeInv, TypeOK
    <2>2. /\ loaded'.link = loaded.link \cup {l} /\ loaded'.addr = loaded.addr
          /\ loaded'.neigh = loaded.neigh /\ kernel' = kernel /\ todo' = todo
          /\ step' = step /\ still' = still
        BY <1>8, <2>1 DEF historyVars
    <2>3. ASSUME NEW m, NEW k \in {1, 2, 3, 4}, Through(m, k)' PROVE Through(m, k)
        BY <1>8, <2>3 DEF Through
    <2>4. LinksComplete => LinksComplete'
        BY <2>2 DEF LinksComplete
    <2>5. ASSUME NEW x, NEW m, NEW k \in {1, 2, 3, 4}
          PROVE  /\ AddrComplete(x, m, k) => AddrComplete(x, m, k)'
                 /\ NeighComplete(x, m, k) => NeighComplete(x, m, k)'
        BY <2>2, <2>3 DEF AddrComplete, NeighComplete
    <2>6. QED  BY <2>2, <2>4, <2>5 DEF CompleteInv
<1>9. CASE step' \in {"subscribe", "up"}
    BY <1>9 DEF CompleteInv
<1>10. CASE UNCHANGED vars
    BY <1>10 DEF vars, pluginVars, envVars, historyVars, CompleteInv, LinksComplete,
                 AddrComplete, NeighComplete, Through
<1>11. QED
    BY <1>1, <1>2, <1>3, <1>4, <1>5, <1>6, <1>7, <1>8, <1>9, <1>10, StepKinds

\* With no link left to load, the hash is the kernel.
LEMMA AllLoaded ==
    ASSUME TypeInv, SeenInv, LoadedEntriesExisted, CompleteInv, step = "load", still, todo = {}
    PROVE  loaded = kernel
<1>1. KernelOK(kernel) /\ kernel \in Kernel /\ loaded \in Kernel
    BY DEF TypeInv, TypeOK, KernelOK
<1>2. /\ loaded.link \subseteq kernel.link /\ loaded.addr \subseteq kernel.addr
      /\ loaded.neigh \subseteq kernel.neigh
    BY DEF SeenInv, LoadedEntriesExisted
<1>3. kernel.link \subseteq loaded.link
    BY DEF CompleteInv, LinksComplete
<1>4. ASSUME NEW x \in kernel.addr PROVE x \in loaded.addr
    <2>1. PICK l \in kernel.link : x[1] = l.index
        BY <1>1 DEF KernelOK
    <2>2. x[2] \in Addr4 \cup Addr6
        BY <1>1, KernelFields, EntryFields DEF Addr
    <2>3. QED  BY <2>1, <2>2 DEF CompleteInv, AddrComplete, Through
<1>5. ASSUME NEW x \in kernel.neigh PROVE x \in loaded.neigh
    <2>1. PICK l \in kernel.link : x[1] = l.index
        BY <1>1 DEF KernelOK
    <2>2. x[2] \in Neigh4 \cup Neigh6
        BY <1>1, KernelFields, EntryFields DEF Neigh
    <2>3. QED  BY <2>1, <2>2 DEF CompleteInv, NeighComplete, Through
<1>6. loaded.link = kernel.link /\ loaded.addr = kernel.addr /\ loaded.neigh = kernel.neigh
    BY <1>2, <1>3, <1>4, <1>5
<1>7. QED  BY <1>1, <1>6, KernelFields

\* The tree of a kernel, merged into nothing, describes the kernel.
LEMMA TreeDescribes ==
    ASSUME NEW k, KernelOK(k), NEW tree \in LyTrees(k)
    PROVE  Describes(Merge(EmptyConfig, tree), k)
<1> DEFINE m == Merge(EmptyConfig, tree)
<1>1. PICK pick \in Picks(k) : tree = [leaf \in Leaf |-> LyLeaf(k, pick, leaf)]
    BY TreeIs
<1>2. ASSUME NEW leaf \in Leaf PROVE tree[leaf] = LyLeaf(k, pick, leaf)
    BY <1>1
<1>3. k \in Kernel /\ k.link \subseteq Link /\ k.addr \subseteq AddrEntry /\ k.neigh \subseteq NeighEntry
    BY KernelFields DEF KernelOK
<1>4. ASSUME NEW leaf \in Leaf, leaf.kind # "netmask" PROVE m[leaf] = tree[leaf]
    <2>1. EmptyConfig[leaf] = NoValue
        BY DEF EmptyConfig
    <2>2. QED  BY <1>4, <2>1, MergeAt
<1> HIDE DEF m
<1>5. ASSUME NEW l \in k.link
      PROVE  l.name \in Iface /\ LinkNamed(k, l.name) = l
    <2>1. l.name \in Iface
        BY <1>3, LinkFields
    <2>2. \E n \in k.link : n.name = l.name
        OBVIOUS
    <2>3. LinkNamed(k, l.name) \in k.link /\ LinkNamed(k, l.name).name = l.name
        BY <2>2 DEF LinkNamed
    <2>4. QED  BY <2>1, <2>3 DEF KernelOK
<1>6. {i \in Iface : Exists(m, "name", i, NoKey)} = {l.name : l \in k.link}
    <2>1. ASSUME NEW i \in Iface
          PROVE  m[LeafAt("name", i, NoKey)] = tree[LeafAt("name", i, NoKey)]
        <3>1. LeafAt("name", i, NoKey) \in Leaf /\ LeafAt("name", i, NoKey).kind # "netmask"
            BY LeafMembers DEF IfKinds, LeafAt
        <3>2. QED  BY <1>4, <3>1
    <2>2. ASSUME NEW i \in Iface, ~\E l \in k.link : l.name = i
          PROVE  ~Exists(m, "name", i, NoKey)
        <3>1. LeafAt("name", i, NoKey) \in Leaf /\ LeafAt("name", i, NoKey).if = i
            BY LeafMembers DEF IfKinds, LeafAt
        <3>2. QED  BY <2>1, <2>2, <3>1, TreeOfNoLink DEF Exists
    <2>3. ASSUME NEW l \in k.link
          PROVE  l.name \in Iface /\ Exists(m, "name", l.name, NoKey)
        <3>1. LeafAt("name", l.name, NoKey) \in Leaf
            BY <1>5, LeafMembers DEF IfKinds
        <3>2. LyLeaf(k, pick, LeafAt("name", l.name, NoKey)) = l.name
            BY <1>1, <1>3, <1>5, TreeOfLink
        <3>3. QED  BY <1>2, <1>5, <2>1, <3>1, <3>2, NoValueAssumption DEF Exists
    <2>4. QED  BY <2>2, <2>3
<1>7. ASSUME NEW l \in k.link, NEW a \in Addr
      PROVE  IF \E x \in k.addr : x[1] = l.index /\ x[2] = a
             THEN <<l.index, a, m[LeafAt("prefix-length", l.name, a)]>> \in k.addr
             ELSE ~Exists(m, "ip", l.name, a)
    <2> DEFINE at == <<LinkNamed(k, l.name).index, a>>
    <2>1. /\ LyLeaf(k, pick, LeafAt("ip", l.name, a)) = IF at \in AddrKeys(k) THEN a ELSE NoValue
          /\ LyLeaf(k, pick, LeafAt("prefix-length", l.name, a)) =
                IF at \in AddrKeys(k) THEN pick[at] ELSE NoValue
          /\ at \in AddrKeys(k) => pick[at] \in PrefixLen /\ <<at[1], at[2], pick[at]>> \in k.addr
        BY <1>1, <1>3, <1>5, TreeOfAddr
    <2>2. at[1] = l.index /\ at[2] = a
        BY <1>5
    <2>3. at \in AddrKeys(k) <=> \E x \in k.addr : x[1] = l.index /\ x[2] = a
        BY <1>5 DEF AddrKeys
    <2>4. /\ m[LeafAt("ip", l.name, a)] = LyLeaf(k, pick, LeafAt("ip", l.name, a))
          /\ m[LeafAt("prefix-length", l.name, a)] = LyLeaf(k, pick, LeafAt("prefix-length", l.name, a))
        <3>1. /\ LeafAt("ip", l.name, a) \in Leaf /\ LeafAt("ip", l.name, a).kind # "netmask"
              /\ LeafAt("prefix-length", l.name, a) \in Leaf
              /\ LeafAt("prefix-length", l.name, a).kind # "netmask"
            BY <1>5, LeafMembers DEF LeafAt
        <3>2. QED  BY <1>2, <1>4, <3>1
    <2> HIDE DEF at
    <2>5. QED  BY <2>1, <2>2, <2>3, <2>4 DEF Exists
<1>8. ASSUME NEW l \in k.link, NEW n \in Neigh, NEW v \in LlAddr
      PROVE  m[LeafAt("link-layer-address", l.name, n)] = v <=> <<l.index, n, v>> \in k.neigh
    <2> DEFINE leaf == LeafAt("link-layer-address", l.name, n)
               lls == LinkLayer(k, <<l.index, n>>)
    <2>1. m[leaf] = IF lls # {} THEN CHOOSE x \in lls : TRUE ELSE NoValue
        <3>1. leaf \in Leaf /\ leaf.kind # "netmask"
            BY <1>5, LeafMembers DEF LeafAt
        <3>2. m[leaf] = LyLeaf(k, pick, leaf)
            BY <1>2, <1>4, <3>1
        <3>3. PICK i \in Iface : i = l.name /\ l = LinkNamed(k, i)
            BY <1>5
        <3>4. \E q \in k.link : q.name = i
            BY <3>3
        <3>5. /\ LyLeaf(k, pick, LeafAt("neighbor-ip", i, n)) = IF lls # {} THEN n ELSE NoValue
              /\ LyLeaf(k, pick, LeafAt("link-layer-address", i, n)) =
                    IF lls # {} THEN CHOOSE x \in lls : TRUE ELSE NoValue
            <4> HIDE DEF leaf
            <4>1. PICK at : at = <<LinkNamed(k, i).index, n>>
                OBVIOUS
            <4>2. lls = LinkLayer(k, at)
                BY <3>3, <4>1
            <4> HIDE DEF lls
            <4>3. k \in Kernel /\ pick \in Picks(k)
                BY <1>1, <1>3
            <4>4. QED  BY <3>4, <4>1, <4>2, <4>3, TreeOfNeigh
        <3>6. QED  BY <3>2, <3>3, <3>5
    <2>2. \A w : w \in lls <=> \E x \in k.neigh : x[1] = l.index /\ x[2] = n /\ x[3] = w
        BY DEF LinkLayer
    <2>3. \A w : w \in lls <=> <<l.index, n, w>> \in k.neigh
        BY <1>3, <2>2, EntryFields
    <2>4. ASSUME NEW w \in lls, NEW z \in lls PROVE w = z
        <3> DEFINE x == <<l.index, n, w>>
                   y == <<l.index, n, z>>
        <3>1. x \in k.neigh /\ y \in k.neigh /\ x[1] = y[1] /\ x[2] = y[2]
            BY <2>3
        <3>2. x = y
            <4> HIDE DEF x, y
            <4>1. QED  BY <3>1 DEF KernelOK
        <3>3. QED  BY <3>2
    <2> HIDE DEF lls, leaf
    <2>5. v # NoValue
        BY NoValueAssumption
    <2>6. m[leaf] = v <=> v \in lls
        BY <2>1, <2>4, <2>5
    <2>7. QED  BY <2>3, <2>6 DEF leaf
<1>9. Describes(m, k)
    BY <1>6, <1>7, <1>8 DEF Describes
<1>10. QED  BY <1>9 DEF m

\* Every step preserves that a load is faithful.
LEMMA FaithfulStep ==
    ASSUME TypeInv, FoundInv, SeenInv, LoadedEntriesExisted, CompleteInv, LoadFaithful, [Next]_vars
    PROVE  LoadFaithful'
<1> SUFFICES ASSUME step' \in {"subscribe", "up"}, found' = EmptyConfig, still'
             PROVE  Describes(running', kernel')
    BY DEF LoadFaithful
<1>1. CASE FailStep \/ PluginEnd \/ Reboot
    BY <1>1 DEF FailStep, Fail, PluginEnd, Reboot
<1>2. CASE ListStep
    <2>1. step' = "load"
        BY <1>2, ListStepDoes
    <2>2. QED  BY <2>1
<1>3. CASE KernelStep
    BY <1>3, KernelStays DEF KernelBecomes
<1>4. CASE InitStart
    BY <1>4 DEF InitStart
<1>5. CASE ClientStores
    BY <1>5 DEF ClientStores
<1>6. CASE /\ step = "load" /\ cur = NoLink /\ todo = {} /\ LyConvertible(loaded)
           /\ \E tree \in LyTrees(loaded) : running' = Merge(running, tree)
           /\ step' = "subscribe" /\ loaded' = Nothing
           /\ UNCHANGED <<todo, cur, part, envVars, historyVars>>
    <2>1. still /\ kernel' = kernel
        BY <1>6 DEF envVars, historyVars
    <2>2. running = EmptyConfig
        BY <1>6, <2>1 DEF FoundInv
    <2>3. loaded = kernel /\ KernelOK(kernel)
        BY <1>6, <2>1, AllLoaded DEF TypeInv, TypeOK
    <2>4. QED  BY <1>6, <2>1, <2>2, <2>3, TreeDescribes
<1>7. CASE /\ step = "subscribe" /\ step' = "up"
           /\ UNCHANGED <<running, todo, cur, part, loaded, envVars, historyVars>>
    BY <1>7 DEF envVars, historyVars, LoadFaithful
<1>8. CASE UNCHANGED vars
    BY <1>8 DEF vars, pluginVars, envVars, historyVars, LoadFaithful
<1>9. QED  BY <1>1, <1>2, <1>3, <1>4, <1>5, <1>6, <1>7, <1>8, StepKinds

\* After a load nobody has disturbed, the datastore has exactly the interfaces,
\* addresses and neighbours of the kernel, each below its interface.
THEOREM LoadIsFaithful == Spec => []LoadFaithful
<1>1. Init => CompleteInv /\ LoadFaithful
    BY DEF Init, CompleteInv, LoadFaithful
<1>2. QED
    BY <1>1, TypeInit, TypeStep, FoundInit, FoundStep, HashInit, SeenStep, EntriesStep,
       CompleteStep, FaithfulStep, PTL DEF Spec
=============================================================================
