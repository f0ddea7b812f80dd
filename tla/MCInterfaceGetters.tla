------------------------- MODULE MCInterfaceGetters -------------------------
(* An instance of InterfaceGetters for TLC.                                 *)
EXTENDS InterfaceGetters, TLC

CONSTANTS c1, c2, eth, br, a4, n6

D(p, b, m, d) == [packets |-> p, broadcast |-> b, multicast |-> m, dropped |-> d]

\* Plain counters, and drops that do not fit a counter32 on a link that counts
\* more multicast than packets.
Plain == [rx |-> D(7, 1, 1, 3), tx |-> D(5, 0, 2, 0)]
Large == [rx |-> D(1, 0, 2, 6), tx |-> D(5, 1, 0, 4)]
SomeCounters == {Plain, Large}

L(n, i, m, s) == [name |-> n, index |-> i, master |-> m, lladdr |-> TRUE, stats |-> s]

\* A bridge over an interface, the two apart, and the bridge alone.
SomeLinks ==
    {{L(eth, 1, 2, Plain), L(br, 2, NoMaster, Plain)},
     {L(eth, 1, NoMaster, Large), L(br, 2, NoMaster, Large)},
     {L(br, 2, NoMaster, Large)}}

\* An address and a neighbour on the bridge; or the address on the interface with
\* another prefix length and the neighbour not resolved, which the kernel, with no
\* third link, only comes to have later.
A(i, p) == [index |-> i, ip |-> a4, plen |-> p]
N(i, b) == [index |-> i, ip |-> n6, resolved |-> b]
SomeEntries ==
    {[addrs |-> {A(2, 24)}, neighs |-> {N(2, TRUE)}],
     [addrs |-> {A(1, 16), A(3, 24)}, neighs |-> {N(2, FALSE)}]}

\* Clients are interchangeable.
Symmetry == Permutations(Client)

\* Both interfaces with entries the kernel has at times, or nothing.
Full == [interfaces |-> {eth, br}, addresses |-> {[name |-> br, ip |-> a4, plen |-> 24]},
         neighbors |-> {[name |-> br, ip |-> n6]}]
SomeConfigured == {NothingRunning, Full}
=============================================================================
