------------------------ MODULE InterfaceConfig_proofs ------------------------
(***************************************************************************)
(* Facts about the configuration data that the proofs about                *)
(* InterfaceChange and InterfaceLoad share.                                *)
(***************************************************************************)
EXTENDS InterfaceConfig, FiniteSetTheorems, TLAPS

-----------------------------------------------------------------------------
(* Leaves and their values                                                 *)

\* The leaves the definitions mention are leaves of the schema.
LEMMA LeafMembers ==
    ASSUME NEW i \in Iface
    PROVE  /\ \A k \in IfKinds : LeafAt(k, i, NoKey) \in Leaf
           /\ \A a \in Addr : /\ LeafAt("ip", i, a) \in Leaf
                              /\ LeafAt("prefix-length", i, a) \in Leaf
           /\ \A a \in Addr4 : LeafAt("netmask", i, a) \in Leaf
           /\ \A n \in Neigh : /\ LeafAt("neighbor-ip", i, n) \in Leaf
                               /\ LeafAt("link-layer-address", i, n) \in Leaf
    BY DEF Leaf, LeafAt, AddrKinds, NeighKinds

\* A leaf of an address exists only for an address, and so on.
LEMMA LeafKinds ==
    ASSUME NEW l \in Leaf
    PROVE  /\ l.if \in Iface
           /\ l.kind \in IfKinds => l.key = NoKey
           /\ l.kind \in AddrKinds => l.key \in Addr
           /\ l.kind = "netmask" => l.key \in Addr4
           /\ l.kind \in NeighKinds => l.key \in Neigh
           /\ l = LeafAt(l.kind, l.if, l.key)
    BY DEF Leaf, LeafAt, AddrKinds, NeighKinds, IfKinds, IgnoredKinds

\* The empty datastore has the form the schema prescribes.
LEMMA EmptyWellFormed == WellFormed(EmptyConfig)
<1>1. Config(EmptyConfig)
    BY DEF Config, EmptyConfig
<1>2. \A l \in Leaf : EmptyConfig[l] = NoValue
    BY DEF EmptyConfig
<1>3. ASSUME NEW i \in Iface
      PROVE  InterfaceOK(EmptyConfig, i) /\ AddressesOK(EmptyConfig, i)
             /\ NeighborsOK(EmptyConfig, i)
    <2>1. \A k \in IfKinds : ~Exists(EmptyConfig, k, i, NoKey)
        BY <1>2, LeafMembers DEF Exists
    <2>2. \A a \in Addr : ~Exists(EmptyConfig, "ip", i, a) /\ ~Exists(EmptyConfig, "prefix-length", i, a)
        BY <1>2, LeafMembers DEF Exists
    <2>3. \A a \in Addr4 : ~Exists(EmptyConfig, "netmask", i, a)
        BY <1>2, LeafMembers DEF Exists
    <2>4. \A n \in Neigh : /\ ~Exists(EmptyConfig, "neighbor-ip", i, n)
                           /\ ~Exists(EmptyConfig, "link-layer-address", i, n)
        BY <1>2, LeafMembers DEF Exists
    <2>5. InterfaceOK(EmptyConfig, i)
        BY <1>2, <2>1 DEF InterfaceOK, IfKinds
    <2>6. AddressesOK(EmptyConfig, i)
        BY <2>2, <2>3 DEF AddressesOK, Addr
    <2>7. NeighborsOK(EmptyConfig, i)
        BY <2>4 DEF NeighborsOK, Neigh
    <2>8. QED  BY <2>5, <2>6, <2>7
<1>4. QED  BY <1>1, <1>3 DEF WellFormed

\* netmask2prefix counts at most 32 bits.
LEMMA NetmaskPrefix ==
    ASSUME NEW m \in Netmask
    PROVE  Netmask2Prefix(m) \in 0..32
<1>1. m \in SUBSET (0..31)
    BY NetmaskAssumption
<1>2. IsFiniteSet(0..31) /\ Cardinality(0..31) = (IF 0 > 31 THEN 0 ELSE 31 - 0 + 1)
    BY FS_Interval, 0 \in Int, 31 \in Int, Zenon
<1>3. IsFiniteSet(m) /\ Cardinality(m) <= Cardinality(0..31)
    BY <1>1, <1>2, FS_Subset, Zenon
<1>4. Cardinality(m) \in Nat
    BY <1>3, FS_CardinalityType
<1>5. QED  BY <1>2, <1>3, <1>4 DEF Netmask2Prefix

\* The values a leaf may have when it exists.
LEMMA LeafValues ==
    ASSUME NEW c, Config(c), NEW l \in Leaf, c[l] # NoValue
    PROVE  /\ l.kind = "enabled" => c[l] \in BOOLEAN
           /\ l.kind = "mtu" => c[l] \in Mtu
           /\ l.kind = "prefix-length" => c[l] \in PrefixLen
           /\ l.kind = "netmask" => c[l] \in Netmask
           /\ l.kind = "link-layer-address" => c[l] \in LlAddr
<1>1. c[l] \in LeafValue(l)
    BY DEF Config
<1>2. QED  BY <1>1 DEF LeafValue, IgnoredKinds

\* Every leaf is one of an interface, an address or a neighbour.
LEMMA LeafCases ==
    ASSUME NEW l \in Leaf
    PROVE  \/ l.kind \in IfKinds /\ l.key = NoKey
           \/ l.kind \in AddrKinds /\ l.key \in Addr
           \/ l.kind = "netmask" /\ l.key \in Addr4
           \/ l.kind \in NeighKinds /\ l.key \in Neigh
    BY DEF Leaf
=============================================================================
