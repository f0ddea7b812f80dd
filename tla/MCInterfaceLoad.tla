--------------------------- MODULE MCInterfaceLoad ---------------------------
(* An instance of InterfaceLoad for TLC: what the kernel holds after a boot, *)
(* with each thing init cannot load, and what a client stores.               *)
EXTENDS InterfaceLoad, TLC

CONSTANTS lo, eth, a1, a2, b1, n1, m1, ll1

L(index, name, kind, oper, mtu) ==
    [index |-> index, name |-> name, kind |-> kind, oper |-> oper, mtu |-> mtu]

\* lo has no kind, an unknown state and an mtu that the cast makes 0.
Lo == L(1, lo, "NULL", "unknown", 65536)

Usual == [link  |-> {Lo, L(2, eth, "veth", "down", 1500)},
          addr  |-> {<<1, a1, 8>>, <<2, a2, 24>>, <<2, a2, 8>>, <<2, b1, 24>>},
          neigh |-> {<<2, n1, ll1>>, <<2, m1, ll1>>}]

Kernels ==
    {Usual,
     [Usual EXCEPT !.neigh = {<<1, m1, ll1>>}],
     [Usual EXCEPT !.neigh = {}],
     [Usual EXCEPT !.addr = {}],
     [Usual EXCEPT !.neigh = @ \cup {<<1, n1, NoLlAddr>>}],
     [Usual EXCEPT !.link = {Lo, L(2, eth, "tun", "up", 1500)}],
     [Usual EXCEPT !.link = {Lo, L(2, eth, "dummy", "up", 1000)}]}

Stored == LET p == (LeafAt("name", eth, NoKey) :> eth)
                   @@ (LeafAt("type", eth, NoKey) :> "other")
                   @@ (LeafAt("enabled", eth, NoKey) :> TRUE)
                   @@ (LeafAt("ipv4-enabled", eth, NoKey) :> TRUE)
                   @@ (LeafAt("ip", eth, a1) :> a1)
                   @@ (LeafAt("prefix-length", eth, a1) :> 8)
                   @@ (LeafAt("ip", eth, a2) :> a2)
                   @@ (LeafAt("netmask", eth, a2) :> 0..7)
          IN {[l \in Leaf |-> IF l \in DOMAIN p THEN p[l] ELSE NoValue]}
Masks == {0..7}
=============================================================================
