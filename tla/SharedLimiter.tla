---------------------------- MODULE SharedLimiter ----------------------------
(***************************************************************************)
(* L2 of the rate limiter: one key's bucket or window in Redis, shared by  *)
(* all gateways.  Its scripts are atomic there, but they work with the     *)
(* time the caller read from its own clock before the round trip.  A call  *)
(* may be delayed and overtaken, fail (the request is then let through),   *)
(* lose its answer, or outlive the request that made it.                   *)
(***************************************************************************)
EXTENDS TokenBucket, Sequences, FiniteSetsExt

CONSTANTS Gateways,      \* gateway processes
          Requests,      \* requests of the key that are under way at once
          At,            \* the gateway each request arrives at
          Policies,      \* values of policy.distributed, in units
          BucketGrace,   \* the 10 s added to a bucket's time to live
          WindowGrace,   \* the 5 s added to a window's
          Skew,          \* how far each gateway's system clock is ahead
          Spread,        \* no two of the clocks are further apart
          Second,        \* ticks (the code's milliseconds) in a second of Retry-After
          NoKey,         \* the key does not exist
          MaxDelay,      \* bound: ticks between reading the clock and the script
          MaxBack        \* bound: no new call once the clock was moved back so far

\* DistributedRateLimitConfig
TokenBucketPolicy == [algorithm : {"token_bucket"}, capacity : Nat, rate : Nat]
SlidingWindowPolicy == [algorithm : {"sliding_window"}, max_requests : Nat, window : Nat]

\* The values of the key: a hash, or a sorted set, which is the set of its members
\* with their scores.  Redis's own clock is real time.
Bucket == [tokens : Nat, last_refill : Nat, expires : Nat]
Member == [id : Nat, score : Nat]
Window == [entries : SUBSET Member, expires : Nat]

ASSUME SharedLimiterAssumption ==
  /\ Policies \subseteq TokenBucketPolicy \cup SlidingWindowPolicy
  /\ At \in [Requests -> Gateways]
  /\ Skew \in [Gateways -> Nat] /\ Spread \in Nat
  /\ \A g, h \in Gateways : Skew[g] - Skew[h] <= Spread
  /\ BucketGrace \in Nat /\ WindowGrace \in Nat
  /\ MaxDelay \in Nat /\ MaxBack \in Nat /\ Second \in Nat \ {0}
  /\ NoKey \notin Bucket \cup Window

VARIABLES policy,   \* the policy in force
          stored,   \* the key's value in Redis, with its expiry
          pc,       \* how far each request is
          now,      \* ARGV now of its call
          grants,   \* history: when the scripts granted requests
          back,     \* history: how far the bucket's clock was moved back in all
          due       \* history: by when a refusal, if the last script was one, said to retry

sharedVars == <<time, policy, stored, pc, now, grants, back, due>>

\* "sent": the call is under way and awaited; "orphan": nobody awaits it.
Stages == {"idle", "sent", "orphan", "granted", "denied", "error"}

UsesBucket == policy.algorithm = "token_bucket"

SharedInit ==
  /\ time = 0
  /\ policy \in Policies
  /\ stored = NoKey
  /\ pc = [r \in Requests |-> "idle"]
  /\ now = [r \in Requests |-> 0]
  /\ grants = <<>>
  /\ back = 0
  /\ due = {}

\* A request moves on; the call's time is forgotten with the call.
Goto(r, stage) ==
  /\ pc' = [pc EXCEPT ![r] = stage]
  /\ now' = [now EXCEPT ![r] = IF stage = "orphan" THEN @ ELSE 0]

\* L1 has let the request pass; check_inner reads the clock and sends the call.
Send(r) ==
  /\ pc[r] = "idle" /\ back < MaxBack
  /\ pc' = [pc EXCEPT ![r] = "sent"]
  /\ now' = [now EXCEPT ![r] = time + Skew[At[r]]]
  /\ UNCHANGED <<time, policy, stored, grants, back, due>>

\* A script answers a call that is awaited or not.
Return(r, answer) ==
  /\ pc[r] \in {"sent", "orphan"}
  /\ Goto(r, IF pc[r] = "sent" THEN answer ELSE "idle")

\* to_headers: Retry-After is in whole seconds, rounded down.
RetryAfter(retry_after_ms) == retry_after_ms \div Second

\* What the script decides, for the histories.  A refused client that waits for one
\* second more than it is told, and for the slowest of the clocks, is back in time.
Decide(ok, retry_after_ms) ==
  IF ok THEN grants' = Append(grants, time) /\ due' = {}
  ELSE /\ due' = {time + Second * (RetryAfter(retry_after_ms) + 1) + Spread}
       /\ UNCHANGED grants

\* A script finds the key only until it expires.
Live == stored # NoKey /\ time < stored.expires

-----------------------------------------------------------------------------
(* TOKEN_BUCKET_SCRIPT *)

\* HMGET, with the defaults for a missing key.
BucketAt(t) ==
  IF Live THEN stored
  ELSE [tokens |-> policy.capacity, last_refill |-> t]

\* Mutant: the time that passed is taken as it is, also when it is negative.
TokensSigned(t) ==
  Refill(BucketAt(t).tokens, policy.capacity, policy.rate, t - BucketAt(t).last_refill)

\* The tokens a script called with the time t finds after its refill.
Tokens(t) ==
  Refill(BucketAt(t).tokens, policy.capacity, policy.rate,
         Elapsed(t, BucketAt(t).last_refill))

Taken(tokens) == IF tokens >= One THEN tokens - One ELSE tokens

\* retry_after_ms
BucketRetry(tokens) == CeilDiv(One - tokens, policy.rate)

\* Mutant: the key lives no longer than it takes to refill the bucket.
BucketTtlTight == CeilDiv(policy.capacity, policy.rate)

BucketTtl == CeilDiv(policy.capacity, policy.rate) + BucketGrace

\* last_refill becomes the caller's time, also when that is the earlier one.
TokenBucketScript(r) ==
  LET tokens == Tokens(now[r])
      ok == tokens >= One
  IN  /\ UsesBucket /\ policy.rate > 0
      /\ Return(r, IF ok THEN "granted" ELSE "denied")
      /\ stored' = [tokens |-> Taken(tokens), last_refill |-> now[r],
                    expires |-> time + BucketTtl]
      /\ Decide(ok, BucketRetry(tokens))
      /\ back' = back + Elapsed(BucketAt(now[r]).last_refill, now[r])
      /\ UNCHANGED <<time, policy>>

\* With a refill_rate of 0 the time to live is infinite: EXPIRE fails, after
\* HMSET, and the caller gets an error.
TokenBucketScriptFails(r) ==
  /\ UsesBucket /\ policy.rate = 0
  /\ Return(r, "error")
  /\ stored' = [tokens |-> Taken(Tokens(now[r])), last_refill |-> now[r],
                expires |-> MaxTime + 1]
  /\ UNCHANGED <<time, policy, grants, back, due>>

-----------------------------------------------------------------------------
(* SLIDING_WINDOW_SCRIPT *)

\* Mutant: an entry leaves the window a tick early.
PrunedEarly(entries, t) == {e \in entries : e.score > t - policy.window + 1}

\* ZREMRANGEBYSCORE key -inf window_start
Pruned(entries, t) == {e \in entries : e.score > t - policy.window}

EntriesAt(t) == IF Live THEN Pruned(stored.entries, t) ELSE {}

\* ZADD: req_id is unlike any other, so that entries with one score do not collapse.
\* The number of the grant stands for it.
Added(entries, score) == entries \cup {[id |-> Len(grants) + 1, score |-> score]}

\* Mutant: the wait ends with the oldest entry's score, not a window later.
WindowRetryUnshifted(entries, t) ==
  IF entries = {} THEN 0 ELSE Elapsed(Min({e.score : e \in entries}), t)

\* retry_after_ms, until the oldest entry leaves; negative values become 0.
WindowRetry(entries, t) ==
  IF entries = {} THEN 0
  ELSE Elapsed(Min({e.score : e \in entries}) + policy.window, t)

SlidingWindowScript(r) ==
  LET entries == EntriesAt(now[r])
      ok == Cardinality(entries) < policy.max_requests
  IN  /\ policy.algorithm = "sliding_window"
      /\ Return(r, IF ok THEN "granted" ELSE "denied")
      /\ stored' = [entries |-> IF ok THEN Added(entries, now[r]) ELSE entries,
                    expires |-> time + policy.window + WindowGrace]
      /\ Decide(ok, WindowRetry(entries, now[r]))
      /\ UNCHANGED <<time, policy, back>>

-----------------------------------------------------------------------------
\* The outcome reaches the pipeline, which goes on or answers 429.
Answer(r) ==
  /\ pc[r] \in {"granted", "denied"}
  /\ Goto(r, "idle")
  /\ UNCHANGED <<time, policy, stored, grants, back, due>>

\* Redis is not reached, or its answer is lost after the script ran.
CallFails(r) ==
  /\ pc[r] \in {"sent", "granted", "denied"}
  /\ Goto(r, "error")
  /\ UNCHANGED <<time, policy, stored, grants, back, due>>

\* check() fails open: the request is let through.
FailOpen(r) ==
  /\ pc[r] = "error"
  /\ Goto(r, "idle")
  /\ UNCHANGED <<time, policy, stored, grants, back, due>>

\* The client goes away, or the gateway stops: the call may still arrive,
Abandon(r) ==
  /\ pc[r] = "sent"
  /\ Goto(r, "orphan")
  /\ UNCHANGED <<time, policy, stored, grants, back, due>>

\* or be lost.
CallLost(r) ==
  /\ pc[r] = "orphan"
  /\ Goto(r, "idle")
  /\ UNCHANGED <<time, policy, stored, grants, back, due>>

\* No call is under way for longer than MaxDelay.
SharedTick ==
  /\ time < MaxTime
  /\ \A r \in Requests : pc[r] \in {"sent", "orphan"} =>
        time - (now[r] - Skew[At[r]]) < MaxDelay
  /\ time' = time + 1
  /\ UNCHANGED <<policy, stored, pc, now, grants, back, due>>

SharedNext ==
  \/ SharedTick
  \/ \E r \in Requests :
       \/ Send(r) \/ Answer(r) \/ CallFails(r) \/ FailOpen(r)
       \/ TokenBucketScript(r) \/ TokenBucketScriptFails(r) \/ SlidingWindowScript(r)
       \/ Abandon(r) \/ CallLost(r)

SharedSpec == SharedInit /\ [][SharedNext]_sharedVars

-----------------------------------------------------------------------------
(* Properties *)

\* Every variable has its type; the bucket never owes a token and never holds
\* more than its capacity, even when its clock is moved back, and the sorted
\* set never grows beyond max_requests ("the set never grows unbounded").
SharedTypeOK ==
  /\ time \in Times /\ policy \in Policies /\ back \in Nat
  /\ pc \in [Requests -> Stages] /\ now \in [Requests -> Nat]
  /\ grants \in Seq(Times) /\ due \in SUBSET Nat
  /\ stored # NoKey =>
       IF UsesBucket
       THEN stored \in Bucket /\ stored.tokens <= policy.capacity
       ELSE stored \in Window /\ Cardinality(stored.entries) \in 0 .. policy.max_requests

\* The grants, by number, from time a to time b.
GrantedIn(a, b) == {i \in DOMAIN grants : grants[i] \in a .. b}

\* "Max requests allowed in the window", with clocks that differ and calls that
\* are delayed and overtake each other: in every interval that is shorter than
\* the window by the longest delay and the spread of the clocks, the script
\* grants no more than max_requests.
WindowLimit ==
  policy.algorithm = "sliding_window" =>
    \A a, b \in Times : b - a < policy.window - MaxDelay - Spread =>
      Cardinality(GrantedIn(a, b)) <= policy.max_requests

\* What the bucket has granted and still holds is covered by a full bucket, the
\* refill up to its clock, and the time its clock was moved back and therefore
\* counted twice.  A key that expires takes no debt with it, as long as the buffer
\* of its time to live covers delays and differences between clocks.
TokenBudget ==
  UsesBucket /\ Live /\ MaxDelay + Spread <= BucketGrace =>
    One * Len(grants) + stored.tokens
      <= policy.capacity + policy.rate * (stored.last_refill + back)

\* The policy lets a request through at least when there was none before.
Grantable == IF UsesBucket THEN policy.capacity >= One ELSE policy.max_requests > 0

\* "When denied: milliseconds until the client may retry", told in whole seconds: a
\* call that is refused although no other came since the last refusal was sent before
\* that refusal's time to retry, whichever gateways the two were at.
RetryIsEnough ==
  [][\A r \in Requests : Grantable /\ pc[r] = "sent" /\ pc'[r] = "denied" =>
       \A t \in due : now[r] - Skew[At[r]] < t]_sharedVars
=============================================================================
