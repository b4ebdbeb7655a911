-------------------------------- MODULE Health --------------------------------
(***************************************************************************)
(* The health state of one upstream endpoint and the task that probes it.  *)
(* The task is the only writer of the endpoint's health, its two streak    *)
(* counters and the time of the last transition, so mark_failure and       *)
(* mark_success are steps of one process.                                  *)
(*                                                                         *)
(* The wall clock enters only through now - last_state_change_ms, kept     *)
(* here as since.  It is saturated at Cooldown, and the counters at Cap:   *)
(* beyond the cooldown and the thresholds the code tells no values apart.  *)
(***************************************************************************)
EXTENDS Integers, Sequences

CONSTANTS UnhealthyThreshold, HealthyThreshold,  \* HealthCheckConfig
          Cooldown,   \* FLAP_COOLDOWN_MS in ticks
          Steps,      \* by how much the system clock may be stepped
          Cap         \* saturation of the streak counters and of the history

ASSUME HealthAssumption ==
  /\ UnhealthyThreshold \in Nat /\ HealthyThreshold \in Nat
  /\ Cooldown \in Nat \ {0}
  /\ Steps \subseteq Int
  /\ Cap \in Nat \ {0} /\ Cap >= UnhealthyThreshold /\ Cap >= HealthyThreshold

VARIABLES valid_url,  \* address and health path make a URI; never changes
          health,     \* EndpointState.health
          failures,   \* consecutive_failures
          successes,  \* consecutive_successes
          since,      \* now_ms() - last_state_change_ms
          phase,      \* the loop: "tick", "probing", "record"
          gauge,      \* the endpoint_health metric: its value, a singleton, once it has one
          recent,     \* history: the latest probe results, newest first
          dwell,      \* history: real time since the last transition
          stepped     \* history: the clock has been stepped since then

clock == <<since, dwell, stepped>>
counts == <<health, failures, successes>>
vars == <<valid_url, counts, clock, phase, gauge, recent>>

States == {"Healthy", "Degraded", "Unhealthy"}

AtMost(n, bound) == IF n < bound THEN n ELSE bound

\* Unix time is far beyond the initial last_state_change_ms of 0.
Init ==
  /\ valid_url \in BOOLEAN
  /\ health = "Healthy" /\ failures = 0 /\ successes = 0
  /\ since = Cooldown /\ dwell = Cooldown /\ stepped = FALSE
  /\ phase = "tick" /\ gauge = {} /\ recent = <<>>

-----------------------------------------------------------------------------
(* now.saturating_sub(last) < FLAP_COOLDOWN_MS *)
InCooldown == since < Cooldown

\* Mutant: the thresholds alone decide.
AfterFailureUncooled(count) ==
  CASE count >= UnhealthyThreshold -> "Unhealthy"
    [] count < UnhealthyThreshold /\ health = "Healthy" -> "Degraded"
    [] OTHER -> health

\* Mutant: the threshold is off by one.
AfterFailureEarly(count) ==
  CASE InCooldown -> health
    [] ~InCooldown /\ count + 1 >= UnhealthyThreshold -> "Unhealthy"
    [] ~InCooldown /\ count + 1 < UnhealthyThreshold /\ health = "Healthy" -> "Degraded"
    [] OTHER -> health

\* Mutant: the threshold has to be met exactly.
AfterFailureExact(count) ==
  CASE InCooldown -> health
    [] ~InCooldown /\ count = UnhealthyThreshold -> "Unhealthy"
    [] ~InCooldown /\ count # UnhealthyThreshold /\ health = "Healthy" -> "Degraded"
    [] OTHER -> health

\* The state mark_failure decides on, count failures being consecutive.
AfterFailure(count) ==
  CASE InCooldown -> health
    [] ~InCooldown /\ count >= UnhealthyThreshold -> "Unhealthy"
    [] ~InCooldown /\ count < UnhealthyThreshold /\ health = "Healthy" -> "Degraded"
    [] OTHER -> health

\* The state mark_success decides on.
AfterSuccess(count) ==
  CASE InCooldown -> health
    [] ~InCooldown /\ health = "Unhealthy" /\ count >= 1 -> "Degraded"
    [] ~InCooldown /\ health = "Degraded" /\ count >= HealthyThreshold -> "Healthy"
    [] OTHER -> health

\* Mutant: the end of the cooldown is stored instead of its start.
TransitionStampedAhead(new) ==
  /\ health' = new
  /\ since' = IF new = health THEN since ELSE -Cooldown
  /\ dwell' = IF new = health THEN dwell ELSE 0
  /\ stepped' = (new = health /\ stepped)

\* transition_to, when the state changes.
TransitionTo(new) ==
  /\ health' = new
  /\ since' = IF new = health THEN since ELSE 0
  /\ dwell' = IF new = health THEN dwell ELSE 0
  /\ stepped' = (new = health /\ stepped)

Remember(result) ==
  recent' = SubSeq(<<result>> \o recent, 1, AtMost(Len(recent) + 1, Cap))

\* Mutant: a failure does not end the streak of successes.
MarkFailureKeepsSuccesses ==
  LET count == AtMost(failures + 1, Cap) IN
  /\ failures' = count
  /\ UNCHANGED successes
  /\ TransitionTo(AfterFailure(count))

MarkFailure ==
  LET count == AtMost(failures + 1, Cap) IN
  /\ failures' = count
  /\ successes' = 0
  /\ TransitionTo(AfterFailure(count))

MarkSuccess ==
  LET count == AtMost(successes + 1, Cap) IN
  /\ successes' = count
  /\ failures' = 0
  /\ TransitionTo(AfterSuccess(count))

-----------------------------------------------------------------------------
(* health_check_loop *)

SendProbe ==
  /\ phase = "tick" /\ valid_url
  /\ phase' = "probing"
  /\ UNCHANGED <<valid_url, counts, clock, gauge, recent>>

\* The request cannot be built: the loop goes on and nothing is marked.
BuildFails ==
  /\ phase = "tick" /\ ~valid_url
  /\ UNCHANGED vars

\* A non-2xx answer, a connection error or the probe's timeout.
ProbeFails ==
  /\ phase = "probing"
  /\ MarkFailure
  /\ Remember("fail")
  /\ phase' = "record"
  /\ UNCHANGED <<valid_url, gauge>>

ProbeSucceeds ==
  /\ phase = "probing"
  /\ MarkSuccess
  /\ Remember("ok")
  /\ phase' = "record"
  /\ UNCHANGED <<valid_url, gauge>>

\* In halves.
as_gauge_value(state) ==
  CASE state = "Healthy" -> 2 [] state = "Degraded" -> 1 [] state = "Unhealthy" -> 0

record_endpoint_health(gauge_value) == gauge' = {gauge_value}

\* The state is the one that mark_* returned.
RecordHealth ==
  /\ phase = "record"
  /\ record_endpoint_health(as_gauge_value(health))
  /\ phase' = "tick"
  /\ UNCHANGED <<valid_url, counts, clock, recent>>

-----------------------------------------------------------------------------
(* Time *)

Tick ==
  /\ since < Cooldown \/ dwell < Cooldown
  /\ since' = AtMost(since + 1, Cooldown)
  /\ dwell' = AtMost(dwell + 1, Cooldown)
  /\ UNCHANGED <<valid_url, counts, stepped, phase, gauge, recent>>

\* now_ms() is SystemTime: it can be set, forwards or back.
StepClock(d) ==
  /\ since + d >= -Cooldown
  /\ since' = AtMost(since + d, Cooldown)
  /\ stepped' = TRUE
  /\ UNCHANGED <<valid_url, counts, phase, gauge, recent, dwell>>

Next ==
  \/ SendProbe \/ BuildFails \/ ProbeFails \/ ProbeSucceeds \/ RecordHealth \/ Tick
  \/ \E d \in Steps : StepClock(d)

Spec == Init /\ [][Next]_vars

\* The interval ticks, every probe ends (it has a timeout) and time passes.
\* Clock steps are rare: they do not undo every tick.
FairSpec ==
  /\ Spec
  /\ WF_vars(SendProbe) /\ WF_vars(ProbeFails \/ ProbeSucceeds)
  /\ WF_vars(RecordHealth) /\ WF_vars(Tick)
  /\ <>[][~\E d \in Steps : StepClock(d)]_vars

-----------------------------------------------------------------------------
(* Properties *)

\* Every variable has its type; under a steady clock the time the code computes
\* is the time that has passed.
TypeOK ==
  /\ valid_url \in BOOLEAN
  /\ health \in States /\ gauge \subseteq {as_gauge_value(state) : state \in States}
  /\ failures \in 0 .. Cap /\ successes \in 0 .. Cap
  /\ since \in -Cooldown .. Cooldown /\ dwell \in 0 .. Cooldown
  /\ stepped \in BOOLEAN /\ (~stepped => since = dwell)
  /\ phase \in {"tick", "probing", "record"}
  /\ recent \in Seq({"ok", "fail"}) /\ Len(recent) <= Cap

\* The latest n probes all had this result.
LatestAll(n, result) ==
  /\ n <= Len(recent)
  /\ \A i \in 1 .. n : recent[i] = result

\* ... and the one before them had another, if it is remembered.
Streak(n, result) ==
  /\ LatestAll(n, result)
  /\ n < Len(recent) => recent[n + 1] # result

\* The two counters are what their names say, neither more nor less (up to the
\* saturation): the number of probes in a row that failed, and of those that
\* succeeded, counted off the results themselves.
CountersAreStreaks == Streak(failures, "fail") /\ Streak(successes, "ok")

\* An endpoint only loses all traffic after unhealthy_threshold probes in a row
\* failed, and only regains full weight after healthy_threshold in a row
\* succeeded and by way of Degraded, however the cooldown delays the decision.
TransitionsEarned ==
  [][/\ health' = "Unhealthy" /\ health # "Unhealthy"
          => LatestAll(UnhealthyThreshold, "fail")'
     /\ health' = "Healthy" /\ health # "Healthy"
          => health = "Degraded" /\ LatestAll(HealthyThreshold, "ok")']_vars

\* Anti-flapping: "an endpoint oscillating between success/failure must stay in
\* each state for at least this long" - in real time, as the history has it, and
\* only unless the system clock was stepped in the meantime.
StaysForCooldown == [][health' # health => dwell >= Cooldown \/ stepped]_vars

\* An endpoint whose probes can be sent and fail from some point on is taken out
\* of rotation for good, although failures that fall into the cooldown decide
\* nothing; one whose probes succeed from some point on is back at full weight
\* for good.
ProbesDecide ==
  /\ valid_url /\ <>[][~ProbeSucceeds]_vars => <>[](health = "Unhealthy")
  /\ <>[][~ProbeFails]_vars => <>[](health = "Healthy")
=============================================================================
