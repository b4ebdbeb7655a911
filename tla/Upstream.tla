------------------------------ MODULE Upstream ------------------------------
(***************************************************************************)
(* One upstream pool: requests pick an endpoint by reading its atomics     *)
(* while the health tasks and other requests change them, send to it with  *)
(* retries, and account for it in active_conns and ewma_latency.  A        *)
(* request whose client goes away is dropped at the await it has reached.  *)
(* Each scan over the endpoints reads their health at one instant;         *)
(* different scans of one selection see different instants.                *)
(***************************************************************************)
EXTENDS LoadBalancer, Sequences

CONSTANTS Configured,   \* UpstreamConfig.endpoints, a sequence of EndpointConfig
          Requests,     \* requests sent to this upstream, each once
          Algorithms,   \* among "wrr", "least" and "hash"
          Hash,         \* FNV-1a of each request's hash key
          VirtualNodes,
          MaxAttempts,  \* retry.max_attempts, 1 without a retry block
          Backoff,      \* retry.base_backoff in ms
          Nanos,        \* subsec_nanos() values
          Samples,      \* response times in ms
          NoEndpoint    \* None: nothing selected yet

EndpointConfig == [weight : 0 .. Word - 1, active : BOOLEAN]

\* UpstreamPool::new keeps the endpoints that start as active; an endpoint is known
\* by its place in the configuration.
Pool == {i \in DOMAIN Configured : Configured[i].active}

ASSUME UpstreamAssumption ==
  /\ IsFiniteSet(Requests)
  /\ Configured \in Seq(EndpointConfig)
  /\ Hash \in [Requests -> Nat]
  /\ Algorithms \subseteq {"wrr", "least", "hash"}
  /\ VirtualNodes \in Nat \ {0} /\ MaxAttempts \in Nat /\ Backoff \in Nat
  /\ Nanos \subseteq Nat /\ Samples \subseteq Nat
  /\ NoEndpoint \notin Pool

VARIABLES algorithm,             \* the pool's load_balancing
          health, conns, ewma,   \* EndpointState, per endpoint
          ticket,                \* rr_counter
          pc,                    \* how far each request is
          avail, total, ep,      \* its selection
          attempt, sleep, log,   \* its retries; log is a history variable
          old                    \* the average it has loaded

selection == <<algorithm, avail, total, ep>>
retries == <<attempt, sleep, log>>
vars == <<health, conns, ewma, ticket, pc, selection, retries, old>>

Goto(q, stage) == pc' = [pc EXCEPT ![q] = stage]

Init ==
  /\ algorithm \in Algorithms
  /\ health = [e \in Pool |-> "Healthy"]
  /\ conns = [e \in Pool |-> 0] /\ ewma = [e \in Pool |-> 0]
  /\ ticket = 0
  /\ pc = [q \in Requests |-> "idle"]
  /\ avail = [q \in Requests |-> {}] /\ total = [q \in Requests |-> 0]
  /\ ep = [q \in Requests |-> NoEndpoint]
  /\ attempt = [q \in Requests |-> 0] /\ sleep = [q \in Requests |-> 0]
  /\ log = [q \in Requests |-> <<>>]
  /\ old = [q \in Requests |-> 0]

\* An endpoint's health task (module Health) makes one of its transitions.
HealthChange(e, h) ==
  /\ <<health[e], h>> \in {<<"Healthy", "Degraded">>, <<"Healthy", "Unhealthy">>,
                           <<"Degraded", "Unhealthy">>, <<"Degraded", "Healthy">>,
                           <<"Unhealthy", "Degraded">>}
  /\ health' = [health EXCEPT ![e] = h]
  /\ UNCHANGED <<conns, ewma, ticket, pc, selection, retries, old>>

-----------------------------------------------------------------------------
(* select_endpoint *)

\* The endpoints available now; with none the request fails (502).
Filter(q) ==
  LET list == {e \in Pool : Available(health[e])} IN
  /\ pc[q] = "idle"
  /\ avail' = [avail EXCEPT ![q] = list]
  /\ Goto(q, CASE list = {} -> "failed"
               [] list # {} /\ algorithm = "wrr" -> "sum"
               [] OTHER -> "pick")
  /\ UNCHANGED <<algorithm, health, conns, ewma, ticket, total, ep, retries, old>>

Weights == [e \in Pool |-> EffectiveWeight(Configured[e].weight, health[e])]

SumWeights(q) ==
  /\ pc[q] = "sum"
  /\ total' = [total EXCEPT ![q] = WeightUpTo(avail[q], Weights, Len(Configured))]
  /\ Goto(q, "pick")
  /\ UNCHANGED <<algorithm, health, conns, ewma, ticket, avail, ep, retries, old>>

\* Mutant: the fallback and the walk go over the whole pool.
ChoiceOfPool(q) ==
  CASE algorithm = "wrr" -> WrrWalk(Pool, Weights, total[q], ticket)
    [] algorithm = "least" ->
         LeastPick(avail[q], [e \in Pool |-> Score(conns[e], ewma[e], health[e])])
    [] algorithm = "hash" -> HashPick(avail[q], Hash[q], VirtualNodes)

\* The endpoint the algorithm chooses, reading health, conns and ewma again.
Choice(q) ==
  CASE algorithm = "wrr" -> WrrWalk(avail[q], Weights, total[q], ticket)
    [] algorithm = "least" ->
         LeastPick(avail[q], [e \in Pool |-> Score(conns[e], ewma[e], health[e])])
    [] algorithm = "hash" -> HashPick(avail[q], Hash[q], VirtualNodes)

Pick(q) ==
  /\ pc[q] = "pick"
  /\ ep' = [ep EXCEPT ![q] = Choice(q)]
  /\ ticket' = IF algorithm = "wrr" /\ total[q] # 0 THEN ticket + 1 ELSE ticket
  /\ total' = [total EXCEPT ![q] = 0]
  /\ Goto(q, "picked")
  /\ UNCHANGED <<algorithm, health, conns, ewma, avail, retries, old>>

-----------------------------------------------------------------------------
(* send and send_with_retry *)

\* active_conns is incremented; max_attempts = 0 skips the loop.
Begin(q) ==
  /\ pc[q] = "picked"
  /\ conns' = [conns EXCEPT ![ep[q]] = (@ + 1) % Word]
  /\ Goto(q, IF MaxAttempts = 0 THEN "ending" ELSE "attempt")
  /\ UNCHANGED <<health, ewma, ticket, selection, retries, old>>

\* An attempt ends with this outcome, and the request goes on at stage.
Outcome(q, what, stage) ==
  /\ log' = [log EXCEPT ![q] = Append(@, what)]
  /\ Goto(q, stage)

\* Mutant: a timed out attempt is repeated.
TimeoutRetried(q) ==
  /\ pc[q] = "attempt"
  /\ Outcome(q, "timeout", IF attempt[q] + 1 < MaxAttempts THEN "backoff" ELSE "ending")
  /\ UNCHANGED <<health, conns, ewma, ticket, selection, attempt, sleep, old>>

AttemptTimeout(q) ==
  /\ pc[q] = "attempt"
  /\ Outcome(q, "timeout", "ending")
  /\ UNCHANGED <<health, conns, ewma, ticket, selection, attempt, sleep, old>>

\* Mutant: the error path gives the connection back, and send does again.
ErrorDecrements(q) ==
  /\ pc[q] = "attempt"
  /\ Outcome(q, "error", "ending")
  /\ conns' = [conns EXCEPT ![ep[q]] = (@ - 1 + Word) % Word]
  /\ UNCHANGED <<health, ewma, ticket, selection, attempt, sleep, old>>

AttemptError(q) ==
  /\ pc[q] = "attempt"
  /\ Outcome(q, "error", "ending")
  /\ UNCHANGED <<health, conns, ewma, ticket, selection, attempt, sleep, old>>

\* A status of on_statuses while attempts are left: sleep with jitter.
RetryStatus(q) ==
  /\ pc[q] = "attempt" /\ attempt[q] + 1 < MaxAttempts
  /\ Outcome(q, "status", "backoff")
  /\ \E n \in Nanos :
       sleep' = [sleep EXCEPT ![q] = SleepMs(BaseMs(Backoff, attempt[q]), n)]
  /\ UNCHANGED <<health, conns, ewma, ticket, selection, attempt, old>>

Wake(q) ==
  /\ pc[q] = "backoff"
  /\ attempt' = [attempt EXCEPT ![q] = @ + 1]
  /\ sleep' = [sleep EXCEPT ![q] = 0]
  /\ Goto(q, "attempt")
  /\ UNCHANGED <<health, conns, ewma, ticket, selection, log, old>>

\* Any other status, or the last attempt: the body is read without a timeout.
Headers(q) ==
  /\ pc[q] = "attempt"
  /\ Outcome(q, "answer", "body")
  /\ UNCHANGED <<health, conns, ewma, ticket, selection, attempt, sleep, old>>

\* The body is complete or the connection breaks: send_with_retry returns.
BodyEnds(q) ==
  /\ pc[q] = "body"
  /\ Goto(q, "ending")
  /\ UNCHANGED <<health, conns, ewma, ticket, selection, retries, old>>

End(q) ==
  /\ pc[q] = "ending"
  /\ conns' = [conns EXCEPT ![ep[q]] = (@ - 1 + Word) % Word]
  /\ Goto(q, "load")
  /\ UNCHANGED <<health, ewma, ticket, selection, retries, old>>

\* update_ewma: a load and a store.
LoadEwma(q) ==
  /\ pc[q] = "load"
  /\ old' = [old EXCEPT ![q] = ewma[ep[q]]]
  /\ Goto(q, "store")
  /\ UNCHANGED <<health, conns, ewma, ticket, selection, retries>>

StoreEwma(q) ==
  /\ pc[q] = "store"
  /\ \E s \in Samples : ewma' = [ewma EXCEPT ![ep[q]] = Ewma(old[q], s)]
  /\ old' = [old EXCEPT ![q] = 0]
  /\ Goto(q, "done")
  /\ UNCHANGED <<health, conns, ticket, selection, retries>>

\* The client is gone: the future is dropped at an await of send_with_retry.
Cancel(q) ==
  /\ pc[q] \in {"attempt", "backoff", "body"}
  /\ Goto(q, "cancelled")
  /\ UNCHANGED <<health, conns, ewma, ticket, selection, retries, old>>

Next ==
  \/ \E e \in Pool, h \in {"Healthy", "Degraded", "Unhealthy"} : HealthChange(e, h)
  \/ \E q \in Requests :
       \/ Filter(q) \/ SumWeights(q) \/ Pick(q) \/ Begin(q)
       \/ AttemptTimeout(q) \/ AttemptError(q) \/ RetryStatus(q) \/ Wake(q)
       \/ Headers(q) \/ BodyEnds(q) \/ End(q) \/ LoadEwma(q) \/ StoreEwma(q)
       \/ Cancel(q)

Spec == Init /\ [][Next]_vars

-----------------------------------------------------------------------------
(* Properties *)

Stages == {"idle", "failed", "sum", "pick", "picked", "attempt", "backoff", "body",
           "ending", "load", "store", "done", "cancelled"}

\* Every variable has its type, the counters stay below the machine word.
TypeOK ==
  /\ algorithm \in Algorithms
  /\ health \in [Pool -> {"Healthy", "Degraded", "Unhealthy"}]
  /\ conns \in [Pool -> 0 .. Word - 1] /\ ewma \in [Pool -> Nat]
  /\ ticket \in Nat
  /\ pc \in [Requests -> Stages]
  /\ avail \in [Requests -> SUBSET Pool] /\ total \in [Requests -> 0 .. Word - 1]
  /\ ep \in [Requests -> Pool \cup {NoEndpoint}]
  /\ attempt \in [Requests -> Nat] /\ sleep \in [Requests -> 0 .. Word - 1]
  /\ log \in [Requests -> Seq({"timeout", "error", "status", "answer"})]
  /\ old \in [Requests -> Nat]

\* The requests an endpoint is working on.
InFlightOn(e) ==
  {q \in Requests : ep[q] = e /\ pc[q] \in {"attempt", "backoff", "body", "ending"}}

\* "Active in-flight request count": on an endpoint where no request was cancelled,
\* active_conns is exactly the requests in flight, whatever errors, timeouts and
\* retries they meet on their ways: none of them skips or repeats the decrement.
ConnsAccounted ==
  \A e \in Pool :
    (\A q \in Requests : ep[q] = e => pc[q] # "cancelled")
      => conns[e] = Cardinality(InFlightOn(e)) % Word

\* "Excluded from selection": whatever health tasks change between the scans of
\* a selection, the endpoint chosen was available when the selection began.
NeverPicksFiltered ==
  \A q \in Requests : ep[q] # NoEndpoint => ep[q] \in avail[q]

\* A request is sent again only after the upstream answered the previous attempt
\* with a retryable status - never after a timeout or a broken connection, when
\* it may have been executed - and at most max_attempts times.
ResentOnlyAfterAnswer ==
  \A q \in Requests :
    /\ Len(log[q]) <= MaxAttempts
    /\ \A i \in 1 .. Len(log[q]) - 1 : log[q][i] = "status"
    /\ pc[q] = "attempt" => attempt[q] = Len(log[q])

\* The moving average stays within the response times measured, although
\* concurrent updates overwrite each other.
EwmaWithinSamples ==
  \A e \in Pool : ewma[e] # 0 =>
    \E lo, hi \in Samples : lo <= ewma[e] /\ ewma[e] <= hi

\* "Exponential backoff WITH +-25% jitter" (upstream.rs).
JitterWithinQuarter ==
  \A q \in Requests : pc[q] = "backoff" =>
    LET base == BaseMs(Backoff, attempt[q]) IN
    base - Quarter(base) <= sleep[q] /\ sleep[q] <= base + Quarter(base)
=============================================================================
