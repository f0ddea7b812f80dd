----------------------------- MODULE RibService -----------------------------
(***************************************************************************)
(* What the routing plugin promises to those who ask for its RIBs: a       *)
(* request is answered with the routes the kernel had at one moment, the   *)
(* one at which it began, all of them and each of them once, below its own *)
(* RIB and destination; or it ends without an answer.  It ends.            *)
(***************************************************************************)
EXTENDS Naturals

CONSTANTS
    RouteSet,       \* routes: records with a table, a destination, next hops
    Dest4           \* destinations of IPv4

VARIABLES
    fib,            \* the routes of the kernel
    status,         \* of the request: "idle", "running", "answered", "ended"
    snapshot,       \* the routes of the kernel when it began
    answer          \* the entries reported, each at a position of a list

vars == <<fib, status, snapshot, answer>>

Init == /\ fib \subseteq RouteSet /\ status = "idle"
        /\ snapshot = {} /\ answer = {}

Begin ==
    /\ status = "idle" /\ status' = "running"
    /\ snapshot' = fib /\ UNCHANGED <<fib, answer>>

\* The list a route belongs to.
ListOf(r) == [table |-> r.table, family |-> IF r.dest \in Dest4 THEN "ipv4" ELSE "ipv6",
              dest |-> r.dest]

\* Entries have the fields list, position, route and hops. The next hops of
\* a route may be incomplete, never wrong.
Answers(a, routes) ==
    /\ {e.route : e \in a} = routes
    /\ \A e, f \in a : e.route = f.route => e = f
    /\ \A e, f \in a : e.list = f.list /\ e.position = f.position => e = f
    /\ \A e \in a : e.list = ListOf(e.route) /\ e.hops \subseteq e.route.hops

Answer ==
    /\ status = "running" /\ status' = "answered"
    /\ Answers(answer', snapshot) /\ UNCHANGED <<fib, snapshot>>

\* An error, or the end of the plugin.
End ==
    /\ status = "running" /\ status' = "ended"
    /\ snapshot' = {} /\ answer' = {} /\ UNCHANGED fib

Close ==
    /\ status \in {"answered", "ended"} /\ status' = "idle"
    /\ snapshot' = {} /\ answer' = {} /\ UNCHANGED fib

\* Routes come and go, and not one of them enters an answer half-way.
KernelChanges ==
    /\ fib' \subseteq RouteSet /\ UNCHANGED <<status, snapshot, answer>>

Next == Begin \/ Answer \/ End \/ Close \/ KernelChanges

Spec == Init /\ [][Next]_vars

\* Every request is answered or ended.
Ends == status = "running" ~> status # "running"
=============================================================================
