------------------------------ MODULE Admission ------------------------------
(***************************************************************************)
(* What the concurrency gate of gateway-core promises its callers, with    *)
(* no semaphores, queues or timeouts: a set of requests past the gate that *)
(* never outgrows the process-wide ceiling nor the ceiling of a capped     *)
(* route.  Concurrency implements it.                                      *)
(***************************************************************************)
EXTENDS Naturals, FiniteSets

CONSTANTS Requests,   \* requests that may be in the gateway
          RouteOf,    \* the route each of them matched
          Global,     \* the name of the process-wide semaphore
          Capped,     \* routes with max_concurrent_requests
          Limit       \* capacity of Global and of each capped route

VARIABLE running      \* the requests past the gate

OnRoute(S, rt) == {r \in S : RouteOf[r] = rt}

\* A set of requests the configured ceilings allow past the gate together.
Admissible(S) ==
  /\ Cardinality(S) <= Limit[Global]
  /\ \A rt \in Capped : Cardinality(OnRoute(S, rt)) <= Limit[rt]

Init == running = {}

Admit(r) ==
  /\ r \notin running
  /\ Admissible(running \cup {r})
  /\ running' = running \cup {r}

Leave(r) ==
  /\ r \in running
  /\ running' = running \ {r}

Next == \E r \in Requests : Admit(r) \/ Leave(r)

Spec == Init /\ [][Next]_running
=============================================================================
