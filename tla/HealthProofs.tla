----------------------------- MODULE HealthProofs -----------------------------
(***************************************************************************)
(* Proofs about active health checks, for all thresholds, every cooldown   *)
(* and every way the system clock may be stepped.  First what Remember     *)
(* does to the history of probe results, then that TypeOK and              *)
(* CountersAreStreaks are inductive together, then the two action          *)
(* properties: the counters a step decides with are the streaks the        *)
(* history shows, and since is real time unless the clock was stepped.     *)
(***************************************************************************)
EXTENDS Health, SequenceTheorems, TLAPS

Results == {"ok", "fail"}

\* The history gains the newest result in front and forgets beyond Cap.
LEMMA RememberLatest ==
  ASSUME NEW result \in Results, recent \in Seq(Results), Remember(result)
  PROVE  /\ recent' \in Seq(Results)
         /\ Len(recent') = AtMost(Len(recent) + 1, Cap)
         /\ \A i \in 1 .. Len(recent') :
              recent'[i] = IF i = 1 THEN result ELSE recent[i - 1]
<1> DEFINE longer == <<result>> \o recent
           kept == AtMost(Len(recent) + 1, Cap)
<1>1. kept \in 1 .. Len(recent) + 1
  BY HealthAssumption DEF AtMost
<1>2. /\ longer \in Seq(Results) /\ Len(longer) = Len(recent) + 1
      /\ \A i \in 1 .. Len(longer) :
           longer[i] = IF i = 1 THEN result ELSE recent[i - 1]
  OBVIOUS
<1>3. recent' = SubSeq(longer, 1, kept)
  BY DEF Remember
<1> HIDE DEF longer, kept
<1>4. /\ SubSeq(longer, 1, kept) \in Seq(Results)
      /\ Len(SubSeq(longer, 1, kept)) = kept
      /\ \A i \in 1 .. kept : SubSeq(longer, 1, kept)[i] = longer[i]
  BY <1>1, <1>2
<1>5. QED
  BY <1>1, <1>2, <1>3, <1>4 DEF kept

\* A streak goes on when the newest result continues it, saturated at Cap.
LEMMA StreakGoesOn ==
  ASSUME NEW result \in Results, NEW n \in 0 .. Cap,
         recent \in Seq(Results), Len(recent) <= Cap,
         Streak(n, result), Remember(result)
  PROVE  Streak(AtMost(n + 1, Cap), result)'
<1>1. AtMost(n + 1, Cap) \in 0 .. Cap /\ AtMost(n + 1, Cap) <= n + 1
  BY HealthAssumption DEF AtMost
<1>2. /\ Len(recent) \in Nat /\ n <= Len(recent)
      /\ Len(recent') = AtMost(Len(recent) + 1, Cap)
      /\ \A i \in 1 .. Len(recent') :
           recent'[i] = IF i = 1 THEN result ELSE recent[i - 1]
  BY RememberLatest DEF Streak, LatestAll
<1>3. AtMost(n + 1, Cap) <= Len(recent')
  BY <1>2, HealthAssumption DEF AtMost
<1>4. ASSUME NEW i \in 1 .. AtMost(n + 1, Cap)
      PROVE  recent'[i] = result
  <2>1. i \in 1 .. Len(recent') /\ (i # 1 => i - 1 \in 1 .. n)
    BY <1>1, <1>2, <1>3, HealthAssumption DEF AtMost
  <2>2. QED
    BY <1>2, <2>1 DEF Streak, LatestAll
<1>5. ASSUME AtMost(n + 1, Cap) < Len(recent')
      PROVE  recent'[AtMost(n + 1, Cap) + 1] # result
  <2>1. AtMost(n + 1, Cap) = n + 1 /\ n < Len(recent) /\ n + 2 \in 1 .. Len(recent')
    BY <1>2, <1>5, HealthAssumption DEF AtMost
  <2>2. recent'[n + 2] = recent[n + 1]
    BY <1>2, <2>1
  <2>3. QED
    BY <2>1, <2>2 DEF Streak
<1>6. QED
  BY <1>3, <1>4, <1>5 DEF Streak, LatestAll

\* ... and ends when the newest result is another.
LEMMA StreakEnds ==
  ASSUME NEW result \in Results, NEW other \in Results, other # result,
         recent \in Seq(Results), Remember(other)
  PROVE  Streak(0, result)'
<1>1. /\ Len(recent') \in Nat
      /\ \A i \in 1 .. Len(recent') :
           recent'[i] = IF i = 1 THEN other ELSE recent[i - 1]
  BY RememberLatest
<1>2. QED
  BY <1>1 DEF Streak, LatestAll

-----------------------------------------------------------------------------
\* The inductive invariant.
HealthInv == TypeOK /\ CountersAreStreaks

\* What a probe's outcome does to the health state and the time in it.
LEMMA TransitionSound ==
  ASSUME NEW new \in States, TypeOK, TransitionTo(new)
  PROVE  /\ health' \in States
         /\ since' \in -Cooldown .. Cooldown /\ dwell' \in 0 .. Cooldown
         /\ stepped' \in BOOLEAN /\ (~stepped' => since' = dwell')
<1>1. CASE new = health
  BY <1>1 DEF TransitionTo, TypeOK
<1>2. CASE new # health
  BY <1>2, HealthAssumption DEF TransitionTo, TypeOK
<1>3. QED
  BY <1>1, <1>2

\* mark_failure and mark_success decide on a state.
LEMMA Decisions ==
  ASSUME TypeOK, NEW count
  PROVE  AfterFailure(count) \in States /\ AfterSuccess(count) \in States
BY DEF AfterFailure, AfterSuccess, TypeOK, States

LEMMA FailureSound ==
  ASSUME HealthInv, ProbeFails
  PROVE  HealthInv'
<1>0. PICK n \in 0 .. Cap : n = failures
  BY DEF HealthInv, TypeOK
<1> DEFINE count == AtMost(n + 1, Cap)
<1>1. /\ failures' = count /\ successes' = 0 /\ TransitionTo(AfterFailure(count))
      /\ Remember("fail") /\ phase' = "record" /\ gauge' = gauge /\ valid_url' = valid_url
  BY <1>0 DEF ProbeFails, MarkFailure
<1>2. count \in 0 .. Cap
  BY HealthAssumption DEF AtMost
<1>3. recent' \in Seq({"ok", "fail"}) /\ Len(recent') <= Cap
  BY <1>1, RememberLatest, HealthAssumption DEF HealthInv, TypeOK, Results, AtMost
<1>4. TypeOK'
  BY <1>1, <1>2, <1>3, TransitionSound, Decisions, HealthAssumption
  DEF HealthInv, TypeOK
<1>5. Streak(count, "fail")'
  BY <1>0, <1>1, StreakGoesOn DEF HealthInv, TypeOK, CountersAreStreaks, Results
<1>6. Streak(0, "ok")'
  BY <1>1, StreakEnds DEF HealthInv, TypeOK, Results
<1>7. CountersAreStreaks'
  BY <1>1, <1>5, <1>6 DEF CountersAreStreaks, Streak, LatestAll
<1>8. QED
  BY <1>4, <1>7 DEF HealthInv

LEMMA SuccessSound ==
  ASSUME HealthInv, ProbeSucceeds
  PROVE  HealthInv'
<1>0. PICK n \in 0 .. Cap : n = successes
  BY DEF HealthInv, TypeOK
<1> DEFINE count == AtMost(n + 1, Cap)
<1>1. /\ successes' = count /\ failures' = 0 /\ TransitionTo(AfterSuccess(count))
      /\ Remember("ok") /\ phase' = "record" /\ gauge' = gauge /\ valid_url' = valid_url
  BY <1>0 DEF ProbeSucceeds, MarkSuccess
<1>2. count \in 0 .. Cap
  BY HealthAssumption DEF AtMost
<1>3. recent' \in Seq({"ok", "fail"}) /\ Len(recent') <= Cap
  BY <1>1, RememberLatest, HealthAssumption DEF HealthInv, TypeOK, Results, AtMost
<1>4. TypeOK'
  BY <1>1, <1>2, <1>3, TransitionSound, Decisions, HealthAssumption
  DEF HealthInv, TypeOK
<1>5. Streak(count, "ok")'
  BY <1>0, <1>1, StreakGoesOn DEF HealthInv, TypeOK, CountersAreStreaks, Results
<1>6. Streak(0, "fail")'
  BY <1>1, StreakEnds DEF HealthInv, TypeOK, Results
<1>7. CountersAreStreaks'
  BY <1>1, <1>5, <1>6 DEF CountersAreStreaks, Streak, LatestAll
<1>8. QED
  BY <1>4, <1>7 DEF HealthInv

\* Steps that leave the counters and the history alone.
LEMMA StreaksKept ==
  ASSUME CountersAreStreaks, UNCHANGED <<failures, successes, recent>>
  PROVE  CountersAreStreaks'
BY DEF CountersAreStreaks, Streak, LatestAll

LEMMA HealthInductive == HealthInv /\ [Next]_vars => HealthInv'
<1> SUFFICES ASSUME HealthInv, [Next]_vars PROVE HealthInv'
  OBVIOUS
<1> USE DEF HealthInv
<1>1. CASE SendProbe
  BY <1>1, StreaksKept DEF SendProbe, TypeOK, clock, counts
<1>2. CASE ProbeFails
  BY <1>2, FailureSound
<1>3. CASE ProbeSucceeds
  BY <1>3, SuccessSound
<1>4. CASE RecordHealth
  BY <1>4, StreaksKept DEF RecordHealth, record_endpoint_health, TypeOK, clock, counts
<1>5. CASE Tick
  <2>1. /\ since' \in -Cooldown .. Cooldown /\ dwell' \in 0 .. Cooldown
        /\ (~stepped => since' = dwell')
    BY <1>5, HealthAssumption DEF Tick, TypeOK, AtMost
  <2>2. QED
    BY <1>5, <2>1, StreaksKept DEF Tick, TypeOK, counts
<1>6. CASE \E d \in Steps : StepClock(d)
  <2>1. PICK d \in Steps : StepClock(d)
    BY <1>6
  <2>2. since' \in -Cooldown .. Cooldown
    BY <2>1, HealthAssumption DEF StepClock, TypeOK, AtMost
  <2>3. QED
    BY <2>1, <2>2, StreaksKept DEF StepClock, TypeOK, counts
<1>7. CASE UNCHANGED vars
  BY <1>7, StreaksKept DEF vars, clock, counts, TypeOK
<1>8. CASE BuildFails
  BY <1>8, <1>7 DEF BuildFails
<1>9. QED
  BY <1>1, <1>2, <1>3, <1>4, <1>5, <1>6, <1>7, <1>8 DEF Next

\* The inductive invariant holds, for all thresholds, cooldowns and clock steps.
THEOREM HealthInvariant == Spec => []HealthInv
<1>1. Init => HealthInv
  <2>0. Cooldown \in -Cooldown .. Cooldown /\ Cooldown \in 0 .. Cooldown
        /\ 0 \in 0 .. Cap /\ 0 <= Cap
    BY HealthAssumption
  <2>1. Init => TypeOK
    <3> SUFFICES ASSUME Init PROVE TypeOK
      OBVIOUS
    <3>1. recent \in Seq({"ok", "fail"}) /\ Len(recent) <= Cap
      BY <2>0, EmptySeq DEF Init
    <3>2. gauge \subseteq {as_gauge_value(state) : state \in States}
      BY DEF Init
    <3>3. QED
      BY <2>0, <3>1, <3>2 DEF Init, TypeOK, States
  <2>2. Init => CountersAreStreaks
    BY DEF Init, CountersAreStreaks, Streak, LatestAll
  <2>3. QED
    BY <2>1, <2>2 DEF HealthInv
<1>2. QED
  BY <1>1, HealthInductive, PTL DEF Spec

\* Every variable keeps its type, and with a steady clock the elapsed time the
\* code computes is real time.
THEOREM HealthTypes == Spec => []TypeOK
BY HealthInvariant, PTL DEF HealthInv

\* The counters of mark_failure and mark_success are, at every moment, exactly
\* the streaks the results end with, up to the saturation.
THEOREM CountsStreaks == Spec => []CountersAreStreaks
BY HealthInvariant, PTL DEF HealthInv

-----------------------------------------------------------------------------
\* Only a probe's outcome changes the health state, out of the cooldown.
LEMMA OnlyProbesDecide ==
  ASSUME TypeOK, [Next]_vars, health' # health
  PROVE  /\ ~InCooldown
         /\ \/ ProbeFails /\ health' = AfterFailure(failures')
            \/ ProbeSucceeds /\ health' = AfterSuccess(successes')
<1>1. ProbeFails \/ ProbeSucceeds
  BY DEF Next, vars, counts, SendProbe, BuildFails, RecordHealth, Tick, StepClock
<1>2. CASE ProbeFails
  <2>1. health' = AfterFailure(failures')
    BY <1>2 DEF ProbeFails, MarkFailure, TransitionTo
  <2>2. ~InCooldown
    BY <2>1 DEF AfterFailure
  <2>3. QED
    BY <1>2, <2>1, <2>2
<1>3. CASE ProbeSucceeds
  <2>1. health' = AfterSuccess(successes')
    BY <1>3 DEF ProbeSucceeds, MarkSuccess, TransitionTo
  <2>2. ~InCooldown
    BY <2>1 DEF AfterSuccess
  <2>3. QED
    BY <1>3, <2>1, <2>2
<1>4. QED
  BY <1>1, <1>2, <1>3

\* An endpoint becomes Unhealthy only after unhealthy_threshold probes in a row
\* failed, and Healthy only out of Degraded and after healthy_threshold in a
\* row succeeded, however probes, ticks and clock steps interleave.
THEOREM EarnsItsState == Spec => TransitionsEarned
<1> DEFINE Earned ==
      /\ health' = "Unhealthy" /\ health # "Unhealthy"
           => LatestAll(UnhealthyThreshold, "fail")'
      /\ health' = "Healthy" /\ health # "Healthy"
           => health = "Degraded" /\ LatestAll(HealthyThreshold, "ok")'
<1>1. HealthInv /\ HealthInv' /\ [Next]_vars => [Earned]_vars
  <2> SUFFICES ASSUME HealthInv, HealthInv', [Next]_vars, health' # health
               PROVE  Earned
    BY DEF vars, counts
  <2>0. /\ failures' \in Nat /\ successes' \in Nat /\ health \in States
        /\ LatestAll(failures, "fail")' /\ LatestAll(successes, "ok")'
        /\ Len(recent') \in Nat
    BY DEF HealthInv, TypeOK, CountersAreStreaks, Streak
  <2>1. CASE ProbeFails /\ health' = AfterFailure(failures')
    <3>1. health' # "Healthy"
      BY <2>0, <2>1, OnlyProbesDecide DEF AfterFailure, HealthInv, States
    <3>2. health' = "Unhealthy" => failures' >= UnhealthyThreshold
      BY <2>0, <2>1, OnlyProbesDecide DEF AfterFailure, HealthInv, States
    <3>3. QED
      BY <2>0, <3>1, <3>2, HealthAssumption DEF LatestAll
  <2>2. CASE ProbeSucceeds /\ health' = AfterSuccess(successes')
    <3>1. health' # "Unhealthy"
      BY <2>0, <2>2, OnlyProbesDecide DEF AfterSuccess, HealthInv, States
    <3>2. health' = "Healthy" => health = "Degraded" /\ successes' >= HealthyThreshold
      BY <2>0, <2>2, OnlyProbesDecide DEF AfterSuccess, HealthInv, States
    <3>3. QED
      BY <2>0, <3>1, <3>2, HealthAssumption DEF LatestAll
  <2>3. QED
    BY <2>1, <2>2, OnlyProbesDecide DEF HealthInv
<1>2. QED
  BY <1>1, HealthInvariant, PTL DEF Spec, TransitionsEarned

\* Anti-flapping in real time: no transition within the cooldown of the one
\* before, unless the system clock was stepped in between.
THEOREM HoldsEachState == Spec => StaysForCooldown
<1>1. TypeOK /\ [Next]_vars
        => [health' # health => dwell >= Cooldown \/ stepped]_vars
  <2> SUFFICES ASSUME TypeOK, [Next]_vars, health' # health, ~stepped
               PROVE  dwell >= Cooldown
    BY DEF vars, counts
  <2>1. ~(since < Cooldown)
    BY OnlyProbesDecide DEF InCooldown
  <2>2. QED
    BY <2>1, HealthAssumption DEF TypeOK
<1>2. QED
  BY <1>1, HealthTypes, PTL DEF Spec, StaysForCooldown
=============================================================================
