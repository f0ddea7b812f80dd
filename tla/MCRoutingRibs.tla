---------------------------- MODULE MCRoutingRibs ----------------------------
(* An instance of RoutingRibs for TLC.                                      *)
EXTENDS RoutingRibs

CONSTANTS d4, d6, main, local

Via(t, d, p, hops) ==
    [table |-> t, dest |-> d, preference |-> p, special |-> FALSE, hops |-> hops]

\* Two routes of the same preference and one of several next hops to one
\* destination; its like in the other family; a special route in a table of
\* its own, and a route through a link that is created later.
SomeRoutes ==
    {Via(main, d4, 0, {1}), Via(main, d4, 0, {2}), Via(main, d4, 5, {1, 2}),
     Via(main, d6, 5, {1}), Via(main, d6, 0, {3}),
     [Via(local, d4, 0, {}) EXCEPT !.special = TRUE]}
=============================================================================
