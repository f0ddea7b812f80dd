--------------------------- MODULE MCRoutingChange ---------------------------
(* Instances of RoutingChange for TLC.                                      *)
EXTENDS RoutingChange

CONSTANTS d1, d2, d6, g1, g2, e1, e2

\* A simple next hop, and a next-hop-list of two.
R(gw, description) == [hops |-> [p \in {Simple} |-> gw], description |-> description]
L(gw1, gw2) == [hops |-> [p \in {e1, e2} |-> IF p = e1 THEN gw1 ELSE gw2], description |-> FALSE]

\* The first destination meets a next hop and a description that come and go, and a
\* gateway that is modified; the second, of the same family, and the third, of the
\* other one, meet a list.
Config(r1, r2, r6) ==
    [d \in Dest |-> CASE d = d1 -> r1 [] d = d2 -> r2 [] d = d6 -> r6]

FewRoutes ==
    {Config(NoRoute, NoRoute, NoRoute),
     Config(R(g1, FALSE), NoRoute, R(g1, FALSE)), Config(R(NoGateway, FALSE), NoRoute, NoRoute),
     Config(R(g2, TRUE), R(g1, FALSE), L(g1, NoGateway)), Config(NoRoute, L(g1, g2), NoRoute)}

\* Nothing; an outgoing interface and a gateway. Routes others add make up
\* the rest.
FewHosts ==
    {[d \in Dest |-> {}],
     [d \in Dest |-> IF d = d1 THEN {NoGateway} ELSE IF d = d6 THEN {g1} ELSE {}]}
=============================================================================
