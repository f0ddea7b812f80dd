-------------------------- MODULE MCInterfaceChange --------------------------
(* Instances of InterfaceChange for TLC: the sets of configurations between *)
(* which the clients of each run move.                                      *)
EXTENDS InterfaceChange, TLC

CONSTANTS e1, e2, other, bridge, note1, a1, a2, b1, n1, m1, ll1

\* A partial function on leaves, completed with NoValue.
Fill(p) == [l \in Leaf |-> IF l \in DOMAIN p THEN p[l] ELSE NoValue]

Base(i, type, on) == (LeafAt("name", i, NoKey) :> i) @@ (LeafAt("type", i, NoKey) :> type)
                     @@ (LeafAt("enabled", i, NoKey) :> on)
Ipv4(i, on) == LeafAt("ipv4-enabled", i, NoKey) :> on
WithMtu(i, m) == LeafAt("mtu", i, NoKey) :> m
WithPrefix(i, a, p) == (LeafAt("ip", i, a) :> a) @@ (LeafAt("prefix-length", i, a) :> p)
WithNetmask(i, a, m) == (LeafAt("ip", i, a) :> a) @@ (LeafAt("netmask", i, a) :> m)
WithNeigh(i, n, ll) == (LeafAt("neighbor-ip", i, n) :> n)
                       @@ (LeafAt("link-layer-address", i, n) :> ll)
None == <<>>

-----------------------------------------------------------------------------
\* Two interfaces that come, go, change type, state, note and mtu.
LinkChoices(i) ==
    {None, Base(i, other, TRUE), Base(i, other, FALSE), Base(i, bridge, TRUE),
     Base(i, other, TRUE) @@ (LeafAt("description", i, NoKey) :> note1)
                          @@ (LeafAt("link-up-down-trap-enable", i, NoKey) :> note1)}
    \cup {Base(i, other, TRUE) @@ Ipv4(i, TRUE) @@ WithMtu(i, m) : m \in Mtu}

LinkConfigs == {Fill(p @@ q) : p \in LinkChoices(e1),
                               q \in {None, Base(e2, other, TRUE), Base(e2, other, FALSE)}}

-----------------------------------------------------------------------------
\* One interface with one IPv4 address, in every form of its subnet: the
\* netmasks 255.0.0.0, 255.255.255.0 and one that is not contiguous and has
\* as many one bits as the second.
Mask8  == 0..7
Mask24 == 0..23
MaskHoles == (0..15) \cup (24..31)
Masks == {Mask8, Mask24}
HoleMasks == {Mask24, MaskHoles}

AddrChoices(i, a) == {None} \cup {WithPrefix(i, a, p) : p \in PrefixLen}
                            \cup {WithNetmask(i, x, m) : x \in {a} \cap Addr4, m \in Netmask}

AddrConfigs == {EmptyConfig} \cup
    {Fill(Base(e1, other, TRUE) @@ Ipv4(e1, TRUE) @@ p @@ q) :
        p \in {None, WithPrefix(e1, a1, 24), WithNetmask(e1, a1, MaskHoles)},
        q \in {None, WithPrefix(e1, a2, 8)}} \cup
    {Fill(Base(e1, other, TRUE) @@ Ipv4(e1, TRUE) @@ p) : p \in AddrChoices(e1, a1)} \cup
    {Fill(Base(e1, other, TRUE) @@ Ipv4(e1, FALSE) @@ p) :
        p \in {WithPrefix(e1, a1, 8)}}

-----------------------------------------------------------------------------
\* One interface, up or down, with an IPv6 address and neighbours of both
\* families.
NeighChoices(i, n) == {None} \cup {WithNeigh(i, n, ll) : ll \in LlAddr}

Ipv6Configs == {EmptyConfig, Fill(Base(e1, other, FALSE)),
                Fill(Base(e1, other, FALSE) @@ WithPrefix(e1, b1, 64) @@ WithNeigh(e1, m1, ll1))} \cup
    {Fill(Base(e1, other, TRUE) @@ p @@ q) :
        p \in AddrChoices(e1, b1), q \in {None, WithNeigh(e1, m1, ll1)}} \cup
    {Fill(Base(e1, other, TRUE) @@ p) : p \in NeighChoices(e1, m1)} \cup
    {Fill(Base(e1, other, TRUE) @@ Ipv4(e1, TRUE) @@ p) : p \in NeighChoices(e1, n1)}

-----------------------------------------------------------------------------
\* An interface with an address and a neighbour, for the questions that need
\* few configurations.
FewConfigs == {EmptyConfig, Fill(Base(e1, other, TRUE)),
               Fill(Base(e1, other, TRUE) @@ Ipv4(e1, TRUE) @@ WithPrefix(e1, a1, 24)),
               Fill(Base(e1, other, TRUE) @@ Ipv4(e1, FALSE) @@ WithPrefix(e1, a1, 24)),
               Fill(Base(e1, other, TRUE) @@ Ipv4(e1, TRUE) @@ WithNetmask(e1, a1, Mask8)),
               Fill(Base(e1, other, TRUE) @@ Ipv4(e1, TRUE) @@ WithNeigh(e1, n1, ll1))}
=============================================================================
