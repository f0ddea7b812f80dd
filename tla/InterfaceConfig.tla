--------------------------- MODULE InterfaceConfig ---------------------------
(***************************************************************************)
(* The configuration data of ietf-interfaces / ietf-ip that the interfaces *)
(* plugin reads from sysrepo, as a function from YANG leaves to values.    *)
(* Only the leaves a change handler of the plugin is called for are kept.  *)
(* sysrepo itself is outside src/: WellFormed states the part of the YANG  *)
(* schema (list keys, mandatory nodes, defaults, the subnet choice) that   *)
(* sysrepo has validated before the plugin sees a change.                  *)
(***************************************************************************)
EXTENDS Integers, FiniteSets

CONSTANTS
    Iface,          \* interface names
    Addr4, Addr6,   \* IPv4 and IPv6 addresses (keys of the address lists)
    Neigh4, Neigh6, \* IPv4 and IPv6 neighbours (keys of the neighbor lists)
    IfType,         \* iana-if-type identities a client may ask for
    Note,           \* values of the leaves the plugin accepts and ignores
    Mtu,            \* values of ipv4/mtu
    PrefixLen,      \* values of prefix-length
    Netmask,        \* values of netmask, each the set of its one bits
    LlAddr,         \* values of link-layer-address
    NoValue,        \* the value of a leaf that does not exist
    NoKey           \* the key of a leaf outside the address/neighbor lists

Addr  == Addr4 \cup Addr6
Neigh == Neigh4 \cup Neigh6

\* Keys of different lists are told apart.
ASSUME KeyAssumption ==
    /\ Addr4 \cap Addr6 = {}
    /\ Neigh4 \cap Neigh6 = {}
    /\ NoKey \notin Addr \cup Neigh

\* The ranges of the YANG types: uint16 with 68..max, uint8, dotted-quad.
ASSUME MtuAssumption == Mtu \subseteq 68..65535
ASSUME PrefixAssumption == PrefixLen \subseteq 0..128
ASSUME NetmaskAssumption == Netmask \subseteq SUBSET (0..31)

\* A leaf that does not exist has none of the values.
ASSUME NoValueAssumption ==
    /\ NoValue \notin Iface /\ NoValue \notin Addr /\ NoValue \notin Neigh
    /\ NoValue \notin IfType /\ NoValue \notin Note /\ NoValue \notin Mtu
    /\ NoValue \notin PrefixLen /\ NoValue \notin Netmask
    /\ NoValue \notin LlAddr /\ NoValue \notin BOOLEAN

IgnoredKinds == {"description", "link-up-down-trap-enable"}
IfKinds   == {"name", "type", "enabled", "mtu", "ipv4-enabled"} \cup IgnoredKinds
AddrKinds == {"ip", "prefix-length"}
NeighKinds == {"neighbor-ip", "link-layer-address"}

LeafAt(kind, i, key) == [kind |-> kind, if |-> i, key |-> key]

Leaf == [kind : IfKinds,     if : Iface, key : {NoKey}] \cup
        [kind : AddrKinds,   if : Iface, key : Addr]    \cup
        [kind : {"netmask"}, if : Iface, key : Addr4]   \cup
        [kind : NeighKinds,  if : Iface, key : Neigh]

LeafValue(l) ==
    CASE l.kind = "name"               -> {l.if}
      [] l.kind = "type"               -> IfType
      [] l.kind = "enabled"            -> BOOLEAN
      [] l.kind \in IgnoredKinds       -> Note
      [] l.kind = "mtu"                -> Mtu
      [] l.kind = "ipv4-enabled"       -> BOOLEAN
      [] l.kind = "ip"                 -> {l.key}
      [] l.kind = "prefix-length"      -> PrefixLen
      [] l.kind = "netmask"            -> Netmask
      [] l.kind = "neighbor-ip"        -> {l.key}
      [] l.kind = "link-layer-address" -> LlAddr

Config(c) == /\ c = [l \in Leaf |-> c[l]]
             /\ \A l \in Leaf : c[l] \in LeafValue(l) \cup {NoValue}

EmptyConfig == [l \in Leaf |-> NoValue]

Exists(c, kind, i, key) == c[LeafAt(kind, i, key)] # NoValue

(***************************************************************************)
(* What the schema guarantees: type is mandatory and enabled has a default *)
(* in every interface; ipv4 has the default leaf enabled; an IPv4 address  *)
(* has exactly one of prefix-length and netmask, an IPv6 address has a     *)
(* prefix-length and a neighbour a link-layer-address.                     *)
(***************************************************************************)
InterfaceOK(c, i) ==
    /\ Exists(c, "name", i, NoKey) <=> Exists(c, "type", i, NoKey)
    /\ Exists(c, "name", i, NoKey) <=> Exists(c, "enabled", i, NoKey)
    /\ \A l \in Leaf : l.if = i /\ c[l] # NoValue => Exists(c, "name", i, NoKey)
    /\ Exists(c, "mtu", i, NoKey) => Exists(c, "ipv4-enabled", i, NoKey)

AddressesOK(c, i) ==
    /\ \A a \in Addr4 :
          /\ Exists(c, "ip", i, a) => Exists(c, "ipv4-enabled", i, NoKey)
          /\ Exists(c, "ip", i, a) <=>
                (Exists(c, "prefix-length", i, a) \/ Exists(c, "netmask", i, a))
          /\ ~(Exists(c, "prefix-length", i, a) /\ Exists(c, "netmask", i, a))
    /\ \A a \in Addr6 : Exists(c, "ip", i, a) <=> Exists(c, "prefix-length", i, a)

NeighborsOK(c, i) ==
    /\ \A n \in Neigh4 : Exists(c, "neighbor-ip", i, n)
                            => Exists(c, "ipv4-enabled", i, NoKey)
    /\ \A n \in Neigh : Exists(c, "neighbor-ip", i, n)
                            <=> Exists(c, "link-layer-address", i, n)

WellFormed(c) ==
    /\ Config(c)
    /\ \A i \in Iface : InterfaceOK(c, i) /\ AddressesOK(c, i) /\ NeighborsOK(c, i)

-----------------------------------------------------------------------------
\* interfaces_interface_ipv4_address_netmask2prefix: the number of one bits,
\* wherever they are; a netmask is not required to be contiguous.
Netmask2Prefix(mask) == Cardinality(mask)

\* The prefix length the address a of i has in c.
PrefixOf(c, i, a) ==
    IF Exists(c, "prefix-length", i, a)
    THEN c[LeafAt("prefix-length", i, a)]
    ELSE Netmask2Prefix(c[LeafAt("netmask", i, a)])
=============================================================================
