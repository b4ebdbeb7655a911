----------------------------- MODULE TokenBucket -----------------------------
(***************************************************************************)
(* What the two levels of the rate limiter have in common: real time, and  *)
(* the arithmetic of a token bucket.  A token is One units, so that a      *)
(* bucket can hold a fraction of a token; rates are in units per tick, and *)
(* a tick stands for a millisecond.                                        *)
(***************************************************************************)
EXTENDS Integers

CONSTANTS One,      \* units in a token
          MaxTime   \* bound: ticks in a behaviour

ASSUME TokenBucketAssumption == One \in Nat \ {0} /\ MaxTime \in Nat

VARIABLE time

Times == 0 .. MaxTime

\* The quotient rounded up.
CeilDiv(a, b) == (a + b - 1) \div b

\* Time from last to t, or none if the clock was moved back.
Elapsed(t, last) == IF t > last THEN t - last ELSE 0

\* Mutant: the bucket is not topped at its capacity.
RefillUncapped(tokens, capacity, rate, elapsed) == tokens + rate * elapsed

\* Mutant: the bucket counts whole tokens and drops the rest.
RefillWhole(tokens, capacity, rate, elapsed) ==
  LET full == tokens + One * ((rate * elapsed) \div One)
  IN  IF full < capacity THEN full ELSE capacity

\* Tokens of a bucket after some time.
Refill(tokens, capacity, rate, elapsed) ==
  LET full == tokens + rate * elapsed
  IN  IF full < capacity THEN full ELSE capacity
=============================================================================
