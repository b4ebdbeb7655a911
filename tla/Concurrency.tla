----------------------------- MODULE Concurrency -----------------------------
(***************************************************************************)
(* The layered concurrency gate: one process-wide semaphore and one per    *)
(* capped route, taken in the order global -> route with a timeout each,   *)
(* and given back by RAII when the request ends, is rejected or is         *)
(* cancelled (the client went away, so hyper drops the handler's future).  *)
(*                                                                         *)
(* The semaphores are tokio's: FIFO, and a permit given back while tasks   *)
(* wait is handed to the first of them, so that a fresh acquire cannot     *)
(* overtake a queued one.  A task that was handed a permit notices at its  *)
(* next poll, which is a step of its own.                                  *)
(***************************************************************************)
EXTENDS Naturals, Sequences, FiniteSets

CONSTANTS Requests,   \* requests that may be in the gateway at once
          Routes,     \* route ids
          RouteOf,    \* the route each request matches
          Global,     \* the name of the process-wide semaphore
          Capped,     \* routes with max_concurrent_requests
          Limit       \* capacity of Global and of each capped route

Semaphores == Capped \cup {Global}

ASSUME ConcurrencyAssumption ==
  /\ Capped \subseteq Routes
  /\ Global \notin Routes
  /\ RouteOf \in [Requests -> Routes]
  /\ Limit \in [Semaphores -> Nat]

VARIABLES avail,      \* permits in each semaphore
          held,       \* requests a permit of each semaphore is assigned to
          waiters,    \* queue of each semaphore
          pc          \* how far each request is

vars == <<avail, held, waiters, pc>>

\* "global", "route": queued for that permit.  "granted": the global permit was
\* free at the first poll.  "drop", "unwind", "abort": the second of two permits
\* is still to be given back, at the end of the request, after a route timeout
\* and after a cancellation.
Stages == {"idle", "global", "granted", "route", "running", "drop", "unwind",
           "abort", "rejected"}

HasRouteLimit(r) == RouteOf[r] \in Capped

-----------------------------------------------------------------------------
(* tokio::sync::Semaphore *)

\* First poll of acquire_owned: take a permit or join the queue.
Acquire(s, r) ==
  \/ /\ avail[s] > 0
     /\ avail' = [avail EXCEPT ![s] = @ - 1]
     /\ held' = [held EXCEPT ![s] = @ \cup {r}]
     /\ UNCHANGED waiters
  \/ /\ avail[s] = 0
     /\ waiters' = [waiters EXCEPT ![s] = Append(@, r)]
     /\ UNCHANGED <<avail, held>>

\* A permit is dropped: it goes to the first waiter, or back to the semaphore.
Release(s, r) ==
  \/ /\ waiters[s] # <<>>
     /\ held' = [held EXCEPT ![s] = (@ \ {r}) \cup {Head(waiters[s])}]
     /\ waiters' = [waiters EXCEPT ![s] = Tail(@)]
     /\ UNCHANGED avail
  \/ /\ waiters[s] = <<>>
     /\ held' = [held EXCEPT ![s] = @ \ {r}]
     /\ avail' = [avail EXCEPT ![s] = @ + 1]
     /\ UNCHANGED waiters

\* Queue q without its i-th element.
Without(q, i) == [j \in 1 .. Len(q) - 1 |-> IF j < i THEN q[j] ELSE q[j + 1]]

\* A pending acquire is dropped before it was handed a permit.
Dequeue(s, r) ==
  /\ r \notin held[s]
  /\ \E i \in 1 .. Len(waiters[s]) :
        /\ waiters[s][i] = r
        /\ waiters' = [waiters EXCEPT ![s] = Without(@, i)]
  /\ UNCHANGED <<avail, held>>

\* A pending acquire is dropped, possibly after it was handed a permit.
Abandon(s, r) ==
  \/ Dequeue(s, r)
  \/ r \in held[s] /\ Release(s, r)

Goto(r, stage) == pc' = [pc EXCEPT ![r] = stage]

-----------------------------------------------------------------------------
(* ConcurrencyLimiter *)

Init ==
  /\ avail = Limit
  /\ held = [s \in Semaphores |-> {}]
  /\ waiters = [s \in Semaphores |-> <<>>]
  /\ pc = [r \in Requests |-> "idle"]

\* Mutant: the request counts itself in without looking for a free permit.
ArriveUnchecked(r) ==
  /\ pc[r] = "idle"
  /\ avail' = [avail EXCEPT ![Global] = @ - 1]
  /\ held' = [held EXCEPT ![Global] = @ \cup {r}]
  /\ Goto(r, "global")
  /\ UNCHANGED waiters

\* The matched request enters acquire(): step 1, the global permit.
Arrive(r) ==
  /\ pc[r] = "idle"
  /\ Acquire(Global, r)
  /\ Goto(r, IF avail[Global] > 0 THEN "granted" ELSE "global")

\* It has the global permit, from its first poll or from a later one.
HasGlobal(r) == pc[r] \in {"global", "granted"} /\ r \in held[Global]

\* Step 2, only for a route with a limit.
AcquireRoute(r) ==
  /\ HasGlobal(r)
  /\ HasRouteLimit(r)
  /\ Acquire(RouteOf[r], r)
  /\ Goto(r, IF avail[RouteOf[r]] > 0 THEN "running" ELSE "route")

SkipRoute(r) ==
  /\ HasGlobal(r)
  /\ ~HasRouteLimit(r)
  /\ Goto(r, "running")
  /\ UNCHANGED <<avail, held, waiters>>

\* Mutant: the request goes on without waiting for the route's permit.
EnterUnchecked(r) ==
  /\ pc[r] = "route"
  /\ Goto(r, "running")
  /\ UNCHANGED <<avail, held, waiters>>

Enter(r) ==
  /\ pc[r] = "route" /\ r \in held[RouteOf[r]]
  /\ Goto(r, "running")
  /\ UNCHANGED <<avail, held, waiters>>

\* timeout() polls the acquire and then looks at the clock: it elapses for one
\* that is still queued, or that was handed its permit between the two.
TimeoutGlobal(r) ==
  /\ pc[r] = "global"
  /\ Abandon(Global, r)
  /\ Goto(r, "rejected")

\* Mutant: the second acquire has no timeout.
TimeoutRouteNever(r) ==
  /\ FALSE
  /\ Goto(r, pc[r])
  /\ UNCHANGED <<avail, held, waiters>>

TimeoutRoute(r) ==
  /\ pc[r] = "route"
  /\ Abandon(RouteOf[r], r)
  /\ Goto(r, "unwind")

CancelGlobal(r) ==
  /\ pc[r] = "global"
  /\ Abandon(Global, r)
  /\ Goto(r, "idle")

CancelRoute(r) ==
  /\ pc[r] = "route"
  /\ Abandon(RouteOf[r], r)
  /\ Goto(r, "abort")

\* The local holding the global permit goes out of scope.
Unwind(r) ==
  /\ pc[r] \in {"unwind", "abort"}
  /\ Release(Global, r)
  /\ Goto(r, IF pc[r] = "unwind" THEN "rejected" ELSE "idle")

\* Mutant: the permit is forgotten (permit.forget()) and not dropped.
FinishForgetsPermit(r) ==
  /\ pc[r] = "running"
  /\ held' = [held EXCEPT ![Global] = @ \ {r}]
  /\ Goto(r, IF HasRouteLimit(r) THEN "drop" ELSE "idle")
  /\ UNCHANGED <<avail, waiters>>

\* handle() returns or is dropped: ConcurrencyPermit's fields go in order.
Finish(r) ==
  /\ pc[r] = "running"
  /\ Release(Global, r)
  /\ Goto(r, IF HasRouteLimit(r) THEN "drop" ELSE "idle")

DropRoute(r) ==
  /\ pc[r] = "drop"
  /\ Release(RouteOf[r], r)
  /\ Goto(r, "idle")

\* The 503 has been written.
Answer503(r) ==
  /\ pc[r] = "rejected"
  /\ Goto(r, "idle")
  /\ UNCHANGED <<avail, held, waiters>>

Next ==
  \E r \in Requests :
    \/ Arrive(r) \/ AcquireRoute(r) \/ SkipRoute(r) \/ Enter(r)
    \/ TimeoutGlobal(r) \/ TimeoutRoute(r) \/ CancelGlobal(r) \/ CancelRoute(r)
    \/ Unwind(r) \/ Finish(r) \/ DropRoute(r) \/ Answer503(r)

Spec == Init /\ [][Next]_vars

\* What the runtime does by itself: it polls a task whose acquire is ready and
\* runs destructors to their end.
PollFairness ==
  \A r \in Requests :
    /\ WF_vars(AcquireRoute(r)) /\ WF_vars(SkipRoute(r)) /\ WF_vars(Enter(r))
    /\ WF_vars(Unwind(r)) /\ WF_vars(DropRoute(r))

\* The timers of the two timeout() calls fire.
TimerFairness ==
  \A r \in Requests : WF_vars(TimeoutGlobal(r)) /\ WF_vars(TimeoutRoute(r))

\* Admitted requests end.
WorkFairness == \A r \in Requests : WF_vars(Finish(r))

FairSpec == Spec /\ PollFairness

-----------------------------------------------------------------------------
(* Properties *)

Queued(s) == {waiters[s][i] : i \in 1 .. Len(waiters[s])}

\* Every variable has its type: in particular no semaphore ever counts below
\* zero, whatever acquires, timeouts and cancellations interleave.
TypeOK ==
  /\ avail \in [Semaphores -> Nat]
  /\ held \in [Semaphores -> SUBSET Requests]
  /\ waiters \in [Semaphores -> Seq(Requests)]
  /\ pc \in [Requests -> Stages]

\* Permits are neither lost nor made: in every interleaving of completions,
\* timeouts and cancellations (of acquires already handed a permit too), the
\* permits in a semaphore and those out of it add up to its capacity.
PermitConservation ==
  \A s \in Semaphores : avail[s] + Cardinality(held[s]) = Limit[s]

\* RAII: a request that is over (answered, rejected or cancelled at any await
\* of acquire) has no permit left and no entry in any queue.
NothingLeftBehind ==
  \A r \in Requests : pc[r] \in {"idle", "rejected"} =>
    \A s \in Semaphores : r \notin held[s] /\ r \notin Queued(s)

\* "Requests should not queue indefinitely inside the gateway": acquire()
\* ends by its timers, whatever the other requests do with their permits.
AcquireEnds ==
  TimerFairness => \A r \in Requests :
    pc[r] \in {"global", "granted", "route"}
      ~> pc[r] \notin {"global", "granted", "route"}

\* "Global permit first, then route permit" prevents deadlock and starvation:
\* if admitted requests end, every queued request gets its turn even when no
\* timeout ever fires.
QueuedGetsTurn ==
  WorkFairness => \A r \in Requests, s \in Semaphores : r \in Queued(s) ~> r \notin Queued(s)

\* The detailed gate implements the abstract one.
Gate == INSTANCE Admission WITH running <- {r \in Requests : pc[r] = "running"}

\* The requests past the gate stay within the global and the route ceilings,
\* and enter and leave one at a time.
ImplementsAdmission == Gate!Spec

-----------------------------------------------------------------------------
(* The inductive invariant behind the safety properties *)

\* Who a semaphore knows of: the requests it has served or queued.
Members(s) == held[s] \cup Queued(s)

\* One semaphore by itself is sound.
SemaphoreInv(s) ==
  /\ IsFiniteSet(held[s])
  /\ avail[s] + Cardinality(held[s]) = Limit[s]
  /\ avail[s] > 0 => waiters[s] = <<>>
  /\ held[s] \cap Queued(s) = {}
  /\ \A i, j \in 1 .. Len(waiters[s]) : waiters[s][i] = waiters[s][j] => i = j

\* Where each request stands determines which semaphores know of it.
PlacementInv ==
  \A r \in Requests :
    /\ r \in Members(Global)
         <=> pc[r] \in {"global", "granted", "route", "running", "unwind", "abort"}
    /\ pc[r] \in {"granted", "route", "running", "unwind", "abort"}
         => r \in held[Global]
    /\ \A s \in Capped : r \in Members(s)
         <=> RouteOf[r] = s /\ pc[r] \in {"route", "running", "drop"}
    /\ pc[r] \in {"running", "drop"} /\ HasRouteLimit(r) => r \in held[RouteOf[r]]
    /\ pc[r] \in {"route", "drop"} => HasRouteLimit(r)

GateInv ==
  /\ TypeOK
  /\ \A s \in Semaphores : SemaphoreInv(s)
  /\ PlacementInv
=============================================================================
