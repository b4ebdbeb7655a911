------------------------------ MODULE Shutdown ------------------------------
(***************************************************************************)
(* The life of the gateway process: startup, the accept loop, the          *)
(* connection tasks it spawns (each holding a DrainGuard), the requests    *)
(* they serve, the signal task that runs ShutdownCoordinator::shutdown(),  *)
(* and main(), which returns when the accept loop does, ending the tokio   *)
(* runtime and with it every task.                                         *)
(*                                                                         *)
(* An HTTP/1 connection runs the handler of its one request in its own     *)
(* task.  An HTTP/2 connection spawns a task for each of its requests, and *)
(* these outlive it until they are polled and find their stream gone.      *)
(***************************************************************************)
EXTENDS Startup, Exchange

CONSTANTS Connections,  \* TCP connections clients may have open at once
          DrainTicks    \* DRAIN_TIMEOUT in turns of the 50 ms poll loop

ASSUME ShutdownAssumption == DrainTicks \in Nat /\ IsFiniteSet(Connections)

VARIABLES elapsed,    \* turns shutdown() has waited
          counter,    \* DrainGuards alive
          gauge,      \* the active_connections metric
          conn,       \* each connection and its task
          connOf      \* the open connection a request is being served on, a singleton

connections == <<counter, gauge, conn>>
exchanges == <<req, registry, connOf>>
vars == <<startupVars, elapsed, connections, exchanges>>

\* Connections whose task is inside serve_connection, and which ended it but
\* have not reached connection_close().
Open == {"h1", "h2"}
Served == {c \in Connections : conn[c] \in Open \cup {"handshake"}}
Closing == {c \in Connections : conn[c] = "closing"}

\* A request that has ended, or whose connection has, belongs to none.
Release ==
  connOf' = [q \in Requests |-> {c \in connOf[q] : req'[q].at \in Awaits /\ conn'[c] \in Open}]

\* Someone waits for the answer to q.
Awaited(q) == InFlight(q) /\ connOf[q] # {}
Busy(c) == \E q \in Requests : InFlight(q) /\ connOf[q] = {c}

Init ==
  /\ StartupInit /\ ExchangeInit
  /\ elapsed = 0 /\ counter = 0 /\ gauge = 0
  /\ conn = [c \in Connections |-> "none"]
  /\ connOf = [q \in Requests |-> {}]

\* The process is gone, with its tasks and its registry: requests that were being
\* handled are cut off.  Nothing is kept of those that had ended.
Perish ==
  /\ conn' = [c \in Connections |-> "killed"]
  /\ req' = [q \in Requests |-> IF Awaited(q) THEN Dropped(Unsent, "cut")
                                              ELSE Unsent]
  /\ connOf' = [q \in Requests |-> {}]
  /\ registry' = NewRegistry
  /\ counter' = 0 /\ gauge' = 0

Startup ==
  \/ /\ \/ Load \/ BuildAuth \/ LimitersBuilt \/ BuildCache \/ SpawnTasks
        \/ \E p \in Policies : BuildLimiter(p)
        \/ \E readable \in SUBSET TlsFiles : Bind(readable)
        \/ RegisterHandlers \/ Signal
     /\ UNCHANGED <<elapsed, connections, exchanges>>
  \/ /\ BootFails \/ KilledEarly \/ \E readable \in SUBSET TlsFiles : AcceptorFails(readable)
     /\ Perish /\ UNCHANGED elapsed

-----------------------------------------------------------------------------
(* accept_loop: select! takes either ready branch *)

Accept(c) ==
  /\ up /\ main = "select" /\ conn[c] = "none"
  /\ main' = "spawn"
  /\ conn' = [conn EXCEPT ![c] = "accepted"]
  /\ UNCHANGED <<up, limiters, signalled, coord, elapsed, counter, gauge, exchanges>>

\* ShutdownCoordinator::acquire, connection_open, tokio::spawn.
Spawn(c) ==
  /\ up /\ main = "spawn" /\ conn[c] = "accepted"
  /\ counter' = counter + 1
  /\ gauge' = gauge + 1
  /\ \E first \in IF TlsFiles # {} THEN {"handshake"} ELSE Open : conn' = [conn EXCEPT ![c] = first]
  /\ main' = "select"
  /\ UNCHANGED <<up, limiters, signalled, coord, elapsed, exchanges>>

\* accept() failed: the loop sleeps 10 ms without watching the signal.
AcceptError ==
  /\ up /\ main = "select"
  /\ main' = "backoff"
  /\ UNCHANGED <<up, limiters, signalled, coord, elapsed, connections, exchanges>>

BackoffOver ==
  /\ up /\ main = "backoff"
  /\ main' = "select"
  /\ UNCHANGED <<up, limiters, signalled, coord, elapsed, connections, exchanges>>

\* Mutant: the loop only looks at the signal when no connection is open.
StopWhenEmpty ==
  /\ up /\ main = "select" /\ signalled /\ counter = 0
  /\ main' = "stopped"
  /\ UNCHANGED <<up, limiters, signalled, coord, elapsed, connections, exchanges>>

\* ShutdownSignal::wait looks at the value, not at its change.
StopAccepting ==
  /\ up /\ main = "select" /\ signalled
  /\ main' = "stopped"
  /\ UNCHANGED <<up, limiters, signalled, coord, elapsed, connections, exchanges>>

\* run() and main() return: the runtime drops every task where it stands.
Exit ==
  /\ up /\ main = "stopped"
  /\ up' = FALSE
  /\ Perish
  /\ UNCHANGED <<main, limiters, signalled, coord, elapsed>>

-----------------------------------------------------------------------------
(* ShutdownCoordinator::shutdown *)

\* Mutant: running out of time is reported as a completed drain.
DrainTimeoutAsSuccess ==
  /\ up /\ coord = "draining"
  /\ \/ (counter = 0 \/ elapsed >= DrainTicks) /\ coord' = "drained" /\ UNCHANGED elapsed
     \/ counter # 0 /\ elapsed < DrainTicks /\ elapsed' = elapsed + 1 /\ UNCHANGED coord
  /\ UNCHANGED <<up, main, limiters, signalled, connections, exchanges>>

\* Phase 2: one turn of the drain loop.
DrainPoll ==
  /\ up /\ coord = "draining"
  /\ \/ counter = 0 /\ coord' = "drained" /\ UNCHANGED elapsed
     \/ counter # 0 /\ elapsed >= DrainTicks /\ coord' = "forced" /\ UNCHANGED elapsed
     \/ counter # 0 /\ elapsed < DrainTicks /\ elapsed' = elapsed + 1 /\ UNCHANGED coord
  /\ UNCHANGED <<up, main, limiters, signalled, connections, exchanges>>

-----------------------------------------------------------------------------
(* serve_connection and serve_http *)

HandshakeOk(c) ==
  /\ up /\ conn[c] = "handshake"
  /\ \E protocol \in Open : conn' = [conn EXCEPT ![c] = protocol]
  /\ UNCHANGED <<startupVars, elapsed, counter, gauge, exchanges>>

\* serve_connection returns and drops its guard: the handshake failed, or hyper
\* is done with the connection.  A client that leaves in the middle of an HTTP/1
\* request makes hyper drop the handler.
ServeEnds(c) ==
  /\ up /\ c \in Served
  /\ conn' = [conn EXCEPT ![c] = "closing"]
  /\ counter' = counter - 1
  /\ req' = [q \in Requests |->
               IF InFlight(q) /\ connOf[q] = {c} /\ conn[c] = "h1"
               THEN Dropped(req[q], "dropped") ELSE req[q]]
  /\ Release
  /\ UNCHANGED <<startupVars, elapsed, gauge, registry>>

\* Mutant: connection_close is skipped.
CloseUncounted(c) ==
  /\ up /\ conn[c] = "closing"
  /\ conn' = [conn EXCEPT ![c] = "none"]
  /\ UNCHANGED <<startupVars, elapsed, counter, gauge, exchanges>>

ConnectionClose(c) ==
  /\ up /\ conn[c] = "closing"
  /\ conn' = [conn EXCEPT ![c] = "none"]
  /\ gauge' = gauge - 1
  /\ UNCHANGED <<startupVars, elapsed, counter, exchanges>>

\* An HTTP/1 connection serves one request at a time, and may serve many.
StartRequest(c, q) ==
  /\ up /\ conn[c] \in Open /\ (conn[c] = "h1" => ~Busy(c))
  /\ \E n \in 0 .. MaxBody + 1, declared \in BOOLEAN : Receive(q, n, declared)
  /\ connOf' = [connOf EXCEPT ![q] = IF req'[q].at = "reading" THEN {c} ELSE {}]
  /\ UNCHANGED <<startupVars, elapsed, connections>>

ServeRequest(q) ==
  /\ up
  /\ Handle(q)
  /\ UNCHANGED <<startupVars, elapsed, connections>>
  /\ Release

\* The task of an HTTP/2 request finds its stream reset or its connection gone.
DropStream(q) ==
  /\ up /\ InFlight(q) /\ \A c \in connOf[q] : conn[c] = "h2"
  /\ req' = [req EXCEPT ![q] = Dropped(@, "dropped")]
  /\ UNCHANGED <<startupVars, elapsed, connections, registry>>
  /\ Release

Next ==
  \/ Startup
  \/ AcceptError \/ BackoffOver \/ StopAccepting \/ Exit \/ DrainPoll
  \/ \E c \in Connections :
       \/ Accept(c) \/ Spawn(c) \/ HandshakeOk(c) \/ ServeEnds(c) \/ ConnectionClose(c)
       \/ \E q \in Requests : StartRequest(c, q)
  \/ \E q \in Requests : ServeRequest(q) \/ DropStream(q)

\* The runtime runs main() and the signal task, and a bind ends.  select! starts
\* with a random branch, so a stop that keeps being ready is taken in the end even
\* if connections or accept errors keep arriving.
Fairness ==
  /\ WF_vars(main = "bind" /\ Startup)
  /\ SF_vars(StopAccepting) /\ WF_vars(BackoffOver) /\ WF_vars(Exit)
  /\ WF_vars(DrainPoll) /\ \A c \in Connections : WF_vars(Spawn(c))

Spec == Init /\ [][Next]_vars /\ Fairness

-----------------------------------------------------------------------------
(* Properties *)

\* Every variable has its type.
TypeOK ==
  /\ up \in BOOLEAN /\ signalled \in BOOLEAN
  /\ limiters \subseteq Policies
  /\ main \in Booting \cup {"select", "spawn", "backoff", "stopped"}
  /\ coord \in {"none", "spawned", "waiting", "draining", "drained", "forced"}
  /\ elapsed \in 0 .. DrainTicks
  /\ counter \in Nat /\ gauge \in Nat
  /\ conn \in [Connections -> {"none", "accepted", "handshake", "h1", "h2",
                               "closing", "killed"}]
  /\ \A q \in Requests : req[q].at \in Awaits \cup {"none", "answered", "dropped", "cut"}
  /\ connOf \in [Requests -> SUBSET Connections]
  /\ DOMAIN registry \subseteq Series

\* However a connection ends, the drain counter counts exactly the tasks inside
\* serve_connection and the metric those plus the ones about to report closing.
CountersMatch ==
  up => /\ counter = Cardinality(Served)
        /\ gauge = Cardinality(Served \cup Closing)

\* "All requests drained": when shutdown() returns by the counter, nobody waits for
\* the answer to a request.
DrainedIsTrue ==
  [][coord = "draining" /\ coord' = "drained" => \A q \in Requests : ~Awaited(q)]_vars

\* A process that has got a signal ends, whether it is still starting or already
\* serving, and whatever connections and accept errors keep arriving.
SignalledExits == signalled ~> ~up

\* "No request is cut off mid-flight" (README) by a shutdown, short of the 30 second
\* timeout.
NoRequestCut == signalled => \A q \in Requests : req[q].at = "cut" => coord = "forced"
=============================================================================
