---------------------------- MODULE LoadBalancer ----------------------------
(***************************************************************************)
(* The pure part of select_endpoint, update_ewma and the retry backoff:    *)
(* what is computed once the atomics have been read.  u32 and u64 values   *)
(* live below Word.  Endpoints are numbered, and a list of them in the     *)
(* order of the configuration is the set of their numbers.                 *)
(***************************************************************************)
EXTENDS Integers, FiniteSetsExt

CONSTANT Word   \* one more than the largest machine integer

ASSUME WordAssumption == Word \in Nat \ {0}

Saturate(n) == IF n < Word THEN n ELSE Word - 1

Available(health) == health # "Unhealthy"

\* Degraded endpoints count at half their weight, at least 1.
EffectiveWeight(weight, health) ==
  CASE health = "Healthy" -> weight
    [] health = "Degraded" -> Max({weight \div 2, 1})
    [] health = "Unhealthy" -> 0

\* The weights of some endpoints, added up to number i; the sum wraps around.
WeightUpTo(list, w, i) ==
  LET acc[j \in 0 .. i] ==
        IF j = 0 THEN 0 ELSE acc[j - 1] + (IF j \in list THEN w[j] ELSE 0)
  IN  acc[i] % Word

\* Weighted round robin: the first endpoint at which the running weight passes
\* the ticket's position, or the first of all.  total may be older than w.
WrrWalk(list, w, total, ticket) ==
  LET pos == (ticket % Word) % total
      reached == {e \in list : pos < WeightUpTo(list, w, e)}
  IN  IF total = 0 \/ reached = {} THEN Min(list) ELSE Min(reached)

\* Connections times latency; an endpoint without samples counts connections.
BaseScore(conns, latency) ==
  IF latency = 0 THEN conns ELSE Saturate(conns * latency)

Score(conns, latency, health) ==
  Saturate(BaseScore(conns, latency) * (IF health = "Degraded" THEN 2 ELSE 1))

\* min_by_key: the first endpoint of minimal score.
LeastPick(list, score) == Min({e \in list : \A f \in list : score[e] <= score[f]})

\* The n-th endpoint of a list, from 0: the first with n before it.
Nth(list, n) == Min({e \in list : Cardinality({f \in list : f < e}) >= n})

\* "Consistent" hashing: hash % ring_size / virtual_nodes.
HashPick(list, hash, vnodes) ==
  LET size == Cardinality(list)
  IN  Nth(list, ((hash % (size * vnodes)) \div vnodes) % size)

\* Mutant: the old value keeps its full weight.
EwmaInflated(old, sample) == IF old = 0 THEN sample ELSE (2 * sample + 10 * old) \div 10

\* update_ewma: alpha = 0.2, truncating; zero means no sample yet.
Ewma(old, sample) == IF old = 0 THEN sample ELSE (2 * sample + 8 * old) \div 10

\* base_ms: exponential backoff before the retry that follows this attempt.
BaseMs(backoff, attempt) ==
  LET doubled[n \in 0 .. attempt] == IF n = 0 THEN backoff ELSE 2 * doubled[n - 1]
  IN  doubled[attempt] % Word

Quarter(base) == Max({base \div 4, 1})

\* Mutant: the jitter is added without saturating.
SleepMsUnbounded(base, nanos) ==
  LET q == Quarter(base)
      jitter == ((nanos % (2 * q)) - q + Word) % Word
  IN  base + jitter

\* jitter is computed with wrapping_sub, added with saturating_add.
SleepMs(base, nanos) ==
  LET q == Quarter(base)
      jitter == ((nanos % (2 * q)) - q + Word) % Word
  IN  Saturate(base + jitter)
=============================================================================
