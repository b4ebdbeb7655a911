---------------------------- MODULE LimiterProofs ----------------------------
(***************************************************************************)
(* Proofs about both levels of the rate limiter, for any clients, requests *)
(* and gateways, every policy, and clocks and delays as they may be.       *)
(*                                                                         *)
(* What a level remembers says nothing about the past by itself, so each   *)
(* of the invariants ties it to the history.  Local buckets: up to the     *)
(* last refill, what has passed since any moment plus what the bucket      *)
(* holds is at most a full bucket and the refill since, and for some       *)
(* moment it is exactly that.  The shared bucket: its balance with all     *)
(* that was ever granted survives the key, because a key only expires once *)
(* its bucket would be full again on every gateway's clock.  The shared    *)
(* window: a grant is still among the entries as long as an interval that  *)
(* has it and the present can matter.  After a refusal: the key stays as   *)
(* the script left it, so what it said about the time to retry still holds.*)
(***************************************************************************)
EXTENDS LocalLimiter, SharedLimiter, FiniteSetTheorems, WellFoundedInduction, TLAPS

\* The clients one bucket is for.
Group(k) == {c \in Clients : derive_key(c) = k}

Budget(a, b) == Capacity + Rate * (b - a)

\* What has passed and a bucket that holds so many tokens since last are in balance.
Covers(k, tokens, last) ==
  /\ \A c \in Group(k) : \A i \in DOMAIN passes[c] : passes[c][i] <= last
  /\ \A a \in 0 .. last : One * Passed(Group(k), a, last) + tokens <= Budget(a, last)
  /\ \E a \in 0 .. last : One * Passed(Group(k), a, last) + tokens >= Budget(a, last)

BucketInv(k) ==
  IF buckets[k] = None THEN \A c \in Group(k) : passes[c] = <<>>
                       ELSE Covers(k, buckets[k].tokens, buckets[k].last_refill)

WithinBudget(k) == \A a, b \in Times : a <= b => One * Passed(Group(k), a, b) <= Budget(a, b)

LocalInv ==
  /\ LocalTypeOK
  /\ IsFiniteSet(PassedIn(Clients, 0, MaxTime))
  /\ \A k \in Keys : BucketInv(k) /\ WithinBudget(k)

-----------------------------------------------------------------------------
(* Arithmetic of a bucket *)

LEMMA BudgetSplits ==
  ASSUME NEW a \in Int, NEW b \in Int, NEW t \in Int
  PROVE  /\ Budget(a, t) = Budget(a, b) + Rate * (t - b)
         /\ Budget(a, b) \in Int /\ Rate * (t - b) \in Int
         /\ b <= t => 0 <= Rate * (t - b)
<1> USE LocalLimiterAssumption, TokenBucketAssumption
<1>1. Rate * (t - a) = Rate * (b - a) + Rate * (t - b)
  <2>1. \A x, y, z \in Int : x * (y + z) = x * y + x * z
    OBVIOUS
  <2>2. t - a = (b - a) + (t - b)
    OBVIOUS
  <2> QED
    BY <2>1, <2>2
<1>2. b <= t => 0 <= Rate * (t - b)
  OBVIOUS
<1> QED
  BY <1>1, <1>2 DEF Budget

\* A refill never makes more than the time allows or than fits in, and it only makes
\* less when the bucket is full.
LEMMA RefillBounds ==
  ASSUME NEW tokens \in 0 .. Capacity, NEW last \in Nat, NEW t \in Nat, last <= t
  PROVE  LET r == Refill(tokens, Capacity, Rate, Elapsed(t, last)) IN
         /\ r \in 0 .. Capacity
         /\ r <= tokens + Rate * (t - last)
         /\ r = tokens + Rate * (t - last) \/ (r = Capacity /\ last < t)
<1> USE LocalLimiterAssumption, TokenBucketAssumption
<1> DEFINE gain == Rate * Elapsed(t, last)
<1>1. gain = Rate * (t - last) /\ gain \in Nat /\ (t = last => gain = 0)
  BY DEF Elapsed
<1>2. Refill(tokens, Capacity, Rate, Elapsed(t, last))
        = IF tokens + gain < Capacity THEN tokens + gain ELSE Capacity
  BY DEF Refill
<1> HIDE DEF gain
<1> QED
  BY <1>1, <1>2

-----------------------------------------------------------------------------
(* Counting what has passed *)

LEMMA PassedMember ==
  ASSUME NEW C, NEW a, NEW b, NEW e
  PROVE  e \in PassedIn(C, a, b) <=>
           \E c \in C : \E i \in DOMAIN passes[c] : e = <<c, i>> /\ passes[c][i] \in a .. b
BY DEF PassedIn

LEMMA PassedCount ==
  ASSUME LocalInv, NEW C \in SUBSET Clients, NEW a \in Int, NEW b \in Int
  PROVE  /\ IsFiniteSet(PassedIn(C, a, b)) /\ Passed(C, a, b) \in Nat
         /\ PassedIn(C, a, b) = {} => Passed(C, a, b) = 0
<1>1. PassedIn(C, a, b) \subseteq PassedIn(Clients, 0, MaxTime)
  <2> SUFFICES ASSUME NEW e \in PassedIn(C, a, b) PROVE e \in PassedIn(Clients, 0, MaxTime)
    OBVIOUS
  <2>1. PICK c \in C : \E i \in DOMAIN passes[c] : e = <<c, i>> /\ passes[c][i] \in a .. b
    BY PassedMember
  <2>2. PICK i \in DOMAIN passes[c] : e = <<c, i>>
    BY <2>1
  <2>3. c \in Clients /\ passes[c] \in Seq(Times)
    BY DEF LocalInv, LocalTypeOK
  <2>4. passes[c][i] \in Times
    BY <2>3
  <2> QED
    BY <2>2, <2>3, <2>4, PassedMember DEF Times
<1>2. IsFiniteSet(PassedIn(Clients, 0, MaxTime))
  BY DEF LocalInv
<1>3. IsFiniteSet(PassedIn(C, a, b))
  BY <1>1, <1>2, FS_Subset
<1>4. Cardinality(PassedIn(C, a, b)) \in Nat
  BY <1>3, FS_CardinalityType
<1>5. Cardinality({}) = 0
  BY FS_EmptySet
<1> QED
  BY <1>3, <1>4, <1>5 DEF Passed

\* Until the present, the end of the interval makes no difference.
LEMMA PassedUpTo ==
  ASSUME LocalInv, NEW C \in SUBSET Clients, NEW a \in Int, NEW b \in Int, NEW t \in Int,
         b <= t, \A c \in C : \A i \in DOMAIN passes[c] : passes[c][i] <= b
  PROVE  /\ Passed(C, a, t) = Passed(C, a, b)
         /\ b < a => Passed(C, a, t) = 0
<1>0. \A c \in C : \A i \in DOMAIN passes[c] : passes[c][i] \in Nat
  BY LocalLimiterAssumption, TokenBucketAssumption DEF LocalInv, LocalTypeOK, Times
<1>1. \A c \in C : \A i \in DOMAIN passes[c] : passes[c][i] \in a .. t <=> passes[c][i] \in a .. b
  BY <1>0
<1>2. PassedIn(C, a, t) = PassedIn(C, a, b)
  BY <1>1 DEF PassedIn
<1>3. b < a => a .. b = {}
  OBVIOUS
<1>4. b < a => PassedIn(C, a, b) = {}
  BY <1>3 DEF PassedIn
<1> QED
  BY <1>2, <1>4, PassedCount DEF Passed

\* A request that passes now is one more in every interval with the present in it.
LEMMA PassCounts ==
  ASSUME LocalInv, NEW d \in Clients, Pass(d), NEW C \in SUBSET Clients,
         NEW a \in Int, NEW b \in Int
  PROVE  /\ IsFiniteSet(PassedIn(C, a, b)')
         /\ Passed(C, a, b)' = IF d \in C /\ time \in a .. b THEN Passed(C, a, b) + 1
                                                             ELSE Passed(C, a, b)
<1> DEFINE n == Len(passes[d]) + 1
           S == PassedIn(C, a, b)
           N == IF d \in C /\ time \in a .. b THEN {<<d, n>>} ELSE {}
<1>1. /\ passes \in [Clients -> Seq(Times)] /\ time \in Times
      /\ passes' = [passes EXCEPT ![d] = Append(passes[d], time)]
  BY DEF LocalInv, LocalTypeOK, Pass
<1>2. /\ passes'[d] = Append(passes[d], time) /\ passes[d] \in Seq(Times)
      /\ \A c \in Clients \ {d} : passes'[c] = passes[c]
  BY <1>1
<1>3. /\ DOMAIN passes[d] = 1 .. n - 1 /\ DOMAIN passes'[d] = 1 .. n /\ n \in Nat \ {0}
      /\ passes'[d][n] = time
      /\ \A i \in 1 .. n - 1 : passes'[d][i] = passes[d][i]
  BY <1>1, <1>2
<1> HIDE DEF n
<1>4. n \notin DOMAIN passes[d] /\ \A i \in DOMAIN passes'[d] : i \in DOMAIN passes[d] \/ i = n
  BY <1>3
<1>5. ASSUME NEW e PROVE e \in S' <=> e \in S \cup N
  <2>1. ASSUME e \in S' PROVE e \in S \cup N
    <3>1. PICK c \in C : \E i \in DOMAIN passes'[c] : e = <<c, i>> /\ passes'[c][i] \in a .. b
      BY <2>1 DEF PassedIn
    <3>2. PICK i \in DOMAIN passes'[c] : e = <<c, i>> /\ passes'[c][i] \in a .. b
      BY <3>1
    <3>3. CASE c = d /\ i = n
      BY <1>3, <3>2, <3>3
    <3>4. CASE ~(c = d /\ i = n)
      <4>1. i \in DOMAIN passes[c] /\ passes[c][i] = passes'[c][i]
        BY <1>2, <1>3, <1>4, <3>2, <3>4
      <4> QED
        BY <3>2, <4>1 DEF PassedIn
    <3> QED
      BY <3>3, <3>4
  <2>2. ASSUME e \in S PROVE e \in S'
    <3>1. PICK c \in C : \E i \in DOMAIN passes[c] : e = <<c, i>> /\ passes[c][i] \in a .. b
      BY <2>2 DEF PassedIn
    <3>2. PICK i \in DOMAIN passes[c] : e = <<c, i>> /\ passes[c][i] \in a .. b
      BY <3>1
    <3>3. i \in DOMAIN passes'[c] /\ passes'[c][i] = passes[c][i]
      <4>1. CASE c = d
        <5>1. i \in 1 .. n - 1 /\ i \in 1 .. n
          BY <1>3, <4>1
        <5> QED
          BY <1>3, <4>1, <5>1
      <4>2. CASE c # d
        BY <1>2, <4>2
      <4> QED
        BY <4>1, <4>2
    <3> QED
      BY <3>2, <3>3 DEF PassedIn
  <2>3. ASSUME e \in N PROVE e \in S'
    <3>1. d \in C /\ time \in a .. b /\ e = <<d, n>>
      BY <2>3
    <3>2. n \in DOMAIN passes'[d] /\ passes'[d][n] \in a .. b
      BY <1>3, <3>1
    <3> QED
      BY <3>1, <3>2 DEF PassedIn
  <2> QED
    BY <2>1, <2>2, <2>3
<1>6. S' = S \cup N
  BY <1>5
<1>7. <<d, n>> \notin S
  BY <1>4 DEF PassedIn
<1>8. IsFiniteSet(S)
  BY PassedCount
<1> HIDE DEF S
<1>9. CASE d \in C /\ time \in a .. b
  <2>1. S' = S \cup {<<d, n>>}
    BY <1>6, <1>9
  <2>2. IsFiniteSet(S') /\ Cardinality(S') = Cardinality(S) + 1
    BY <1>7, <1>8, <2>1, FS_AddElement
  <2> QED
    BY <1>9, <2>2 DEF S, Passed
<1>10. CASE ~(d \in C /\ time \in a .. b)
  <2>1. S' = S
    BY <1>6, <1>10
  <2> QED
    BY <1>8, <1>10, <2>1 DEF S, Passed
<1> QED
  BY <1>9, <1>10

-----------------------------------------------------------------------------
(* Balance *)

\* A bucket, or the full one in its place, is in balance when it is looked up,
LEMMA EntryCovers ==
  ASSUME LocalInv, NEW k \in Keys
  PROVE  /\ Entry(k).tokens \in 0 .. Capacity
         /\ Entry(k).last_refill \in 0 .. time
         /\ Covers(k, Entry(k).tokens, Entry(k).last_refill)
<1> USE LocalLimiterAssumption, TokenBucketAssumption
<1>0. time \in Nat /\ BucketInv(k)
      /\ buckets[k] \in {None} \cup [tokens : 0 .. Capacity, last_refill : 0 .. time]
  BY DEF LocalInv, LocalTypeOK, Times
<1>1. CASE buckets[k] # None
  BY <1>0, <1>1 DEF Entry, BucketInv
<1>2. CASE buckets[k] = None
  <2>1. Entry(k).tokens = Capacity /\ Entry(k).last_refill = time
    BY <1>2 DEF Entry
  <2>2. \A c \in Group(k) : passes[c] = <<>>
    BY <1>0, <1>2 DEF BucketInv
  <2>3. \A c \in Group(k) : DOMAIN passes[c] = {}
    BY <2>2
  <2>4. \A a \in Int : Passed(Group(k), a, time) = 0
    <3> SUFFICES ASSUME NEW a \in Int PROVE Passed(Group(k), a, time) = 0
      OBVIOUS
    <3>1. PassedIn(Group(k), a, time) = {}
      BY <2>3 DEF PassedIn
    <3>2. Group(k) \in SUBSET Clients
      BY DEF Group
    <3> QED
      BY <1>0, <3>1, <3>2, PassedCount
  <2>5. \A a \in 0 .. time : One * 0 + Capacity <= Budget(a, time)
    <3> SUFFICES ASSUME NEW a \in 0 .. time PROVE Capacity <= Budget(a, time)
      OBVIOUS
    <3>1. Budget(a, time) = Budget(a, a) + Rate * (time - a) /\ Budget(a, a) = Capacity
          /\ 0 <= Rate * (time - a) /\ Rate * (time - a) \in Int
      <4>1. a \in Int /\ time \in Int /\ a <= time
        BY <1>0
      <4>2. Budget(a, a) = Capacity
        BY <4>1 DEF Budget
      <4> QED
        BY <4>1, <4>2, BudgetSplits
    <3> QED
      BY <3>1
  <2>6. Budget(time, time) = Capacity /\ time \in 0 .. time
    BY <1>0 DEF Budget
  <2>7. One * Passed(Group(k), time, time) + Capacity >= Budget(time, time)
    BY <1>0, <2>4, <2>6
  <2>8. \A a \in 0 .. time : One * Passed(Group(k), a, time) + Capacity <= Budget(a, time)
    BY <1>0, <2>4, <2>5
  <2>9. Covers(k, Capacity, time)
    BY <2>3, <2>6, <2>7, <2>8 DEF Covers
  <2> QED
    BY <1>0, <2>1, <2>9
<1> QED
  BY <1>1, <1>2

\* and so it is after its refill.
LEMMA RefillCovers ==
  ASSUME LocalInv, NEW k \in Keys
  PROVE  Available(k) \in 0 .. Capacity /\ Covers(k, Available(k), time)
<1> USE LocalLimiterAssumption, TokenBucketAssumption
<1> DEFINE tokens == Entry(k).tokens
           last == Entry(k).last_refill
           r == Available(k)
           P(a, b) == Passed(Group(k), a, b)
<1>0. time \in Nat /\ Group(k) \in SUBSET Clients
  BY DEF LocalInv, LocalTypeOK, Times, Group
<1>1. tokens \in 0 .. Capacity /\ last \in 0 .. time /\ Covers(k, tokens, last)
  BY EntryCovers
<1>2. /\ r \in 0 .. Capacity /\ r <= tokens + Rate * (time - last)
      /\ r = tokens + Rate * (time - last) \/ (r = Capacity /\ last < time)
  <2>1. last \in Nat /\ last <= time
    BY <1>0, <1>1
  <2> QED
    BY <1>0, <1>1, <2>1, RefillBounds DEF Available
<1> HIDE DEF tokens, last, r
<1>3. /\ \A c \in Group(k) : \A i \in DOMAIN passes[c] : passes[c][i] <= last
      /\ \A a \in 0 .. last : One * P(a, last) + tokens <= Budget(a, last)
      /\ \E a \in 0 .. last : One * P(a, last) + tokens >= Budget(a, last)
  BY <1>1 DEF Covers
<1>4. \A a \in Int : P(a, time) = P(a, last) /\ (last < a => P(a, time) = 0) /\ P(a, last) \in Nat
  BY <1>0, <1>1, <1>3, PassedUpTo, PassedCount
<1> HIDE DEF P
<1>5. \A a \in Int : /\ Budget(a, time) = Budget(a, last) + Rate * (time - last)
                     /\ Budget(a, last) \in Int /\ Rate * (time - last) \in Int
                     /\ 0 <= Rate * (time - last)
  BY <1>0, <1>1, BudgetSplits
<1>6. ASSUME NEW a \in 0 .. time PROVE One * P(a, time) + r <= Budget(a, time)
  <2>1. CASE a <= last
    <3>1. a \in 0 .. last /\ One * P(a, last) \in Int
      BY <1>1, <1>4, <2>1
    <3> QED
      BY <1>1, <1>2, <1>3, <1>4, <1>5, <3>1
  <2>2. CASE last < a
    <3>1. P(a, time) = 0 /\ One * 0 = 0
      BY <1>4, <2>2
    <3>2. Budget(a, time) >= Capacity
      <4>1. a \in Int /\ time \in Int /\ a <= time
        BY <1>0
      <4>2. Budget(a, a) = Capacity
        BY <4>1 DEF Budget
      <4>3. Budget(a, time) = Budget(a, a) + Rate * (time - a) /\ 0 <= Rate * (time - a)
            /\ Rate * (time - a) \in Int
        BY <4>1, BudgetSplits
      <4> QED
        BY <4>2, <4>3
    <3>3. Budget(a, time) \in Int
      BY <1>0, BudgetSplits
    <3> QED
      BY <1>2, <3>1, <3>2, <3>3
  <2> QED
    BY <1>1, <2>1, <2>2
<1>7. \E a \in 0 .. time : One * P(a, time) + r >= Budget(a, time)
  <2>1. CASE r = tokens + Rate * (time - last)
    <3>1. PICK a \in 0 .. last : One * P(a, last) + tokens >= Budget(a, last)
      BY <1>3
    <3>2. a \in 0 .. time
      BY <1>0, <1>1
    <3>3. P(a, last) \in Nat
      BY <1>4
    <3>4. One * P(a, last) \in Int
      BY <3>3
    <3>5. One * P(a, time) + r >= Budget(a, time)
      BY <1>1, <1>4, <1>5, <2>1, <3>1, <3>2, <3>4
    <3> QED
      BY <3>2, <3>5
  <2>2. CASE r = Capacity /\ last < time
    <3>1. P(time, time) = 0 /\ Budget(time, time) = Capacity /\ time \in 0 .. time
      BY <1>0, <1>4, <2>2 DEF Budget
    <3>2. One * P(time, time) + r >= Budget(time, time)
      BY <2>2, <3>1
    <3> QED
      BY <3>1, <3>2
  <2> QED
    BY <1>2, <2>1, <2>2
<1>8. \A c \in Group(k) : \A i \in DOMAIN passes[c] : passes[c][i] <= time
  <2> SUFFICES ASSUME NEW c \in Group(k), NEW i \in DOMAIN passes[c] PROVE passes[c][i] <= time
    OBVIOUS
  <2>1. passes[c] \in Seq(Times)
    BY <1>0 DEF LocalInv, LocalTypeOK
  <2>2. passes[c][i] \in Nat
    BY <2>1 DEF Times
  <2> QED
    BY <1>0, <1>1, <1>3, <2>2
<1> QED
  BY <1>2, <1>6, <1>7, <1>8 DEF Covers, r, P

\* A request that passes is one more on the one side and a token less on the other.
LEMMA PassCovers ==
  ASSUME LocalInv, NEW d \in Clients, Pass(d), NEW k, k = derive_key(d), k \in Keys,
         NEW v, v = Available(k), NEW t, t = time
  PROVE  Covers(k, v - One, t)'
<1> USE LocalLimiterAssumption, TokenBucketAssumption
<1>0. t \in Nat /\ Group(k) \in SUBSET Clients /\ d \in Group(k) /\ v \in 0 .. Capacity
      /\ Covers(k, v, t)
  BY RefillCovers DEF LocalInv, LocalTypeOK, Times, Group
<1>1. ASSUME NEW a \in 0 .. t
      PROVE  /\ Passed(Group(k), a, t)' = Passed(Group(k), a, t) + 1
             /\ Passed(Group(k), a, t) \in Nat
  <2>1. a \in Int /\ t \in Int /\ time \in a .. t
    BY <1>0
  <2>2. Passed(Group(k), a, t)' = Passed(Group(k), a, t) + 1
    BY <1>0, <2>1, PassCounts
  <2>3. Passed(Group(k), a, t) \in Nat
    BY <1>0, <2>1, PassedCount
  <2> QED
    BY <2>2, <2>3
<1>2. ASSUME NEW a \in 0 .. t
      PROVE  One * Passed(Group(k), a, t)' + (v - One) = One * Passed(Group(k), a, t) + v
  BY <1>0, <1>1
<1>3. \A c \in Group(k) : \A i \in DOMAIN passes'[c] : passes'[c][i] <= t
  <2> SUFFICES ASSUME NEW c \in Group(k), NEW i \in DOMAIN passes'[c] PROVE passes'[c][i] <= t
    OBVIOUS
  <2>1. /\ passes \in [Clients -> Seq(Times)] /\ time \in Times /\ c \in Clients
        /\ passes' = [passes EXCEPT ![d] = Append(passes[d], time)]
    BY <1>0 DEF LocalInv, LocalTypeOK, Pass
  <2>2. \A j \in DOMAIN passes[c] : passes[c][j] <= t
    BY <1>0 DEF Covers
  <2>3. CASE c # d
    BY <2>1, <2>2, <2>3
  <2>4. CASE c = d
    <3>1. passes'[c] = Append(passes[c], time) /\ passes[c] \in Seq(Times)
      BY <2>1, <2>4
    <3>2. passes'[c][i] = time \/ (i \in DOMAIN passes[c] /\ passes'[c][i] = passes[c][i])
      BY <2>1, <3>1
    <3> QED
      BY <1>0, <2>2, <3>2
  <2> QED
    BY <2>3, <2>4
<1>4. \A a \in 0 .. t : One * Passed(Group(k), a, t)' + (v - One) <= Budget(a, t)
  BY <1>0, <1>2 DEF Covers
<1>5. \E a \in 0 .. t : One * Passed(Group(k), a, t)' + (v - One) >= Budget(a, t)
  <2>1. PICK a \in 0 .. t : One * Passed(Group(k), a, t) + v >= Budget(a, t)
    BY <1>0 DEF Covers
  <2>2. One * Passed(Group(k), a, t)' + (v - One) >= Budget(a, t)
    BY <1>2, <2>1
  <2> QED
    BY <2>2
<1> QED
  BY <1>3, <1>4, <1>5 DEF Covers, Group, Budget

\* There was a token, so there is room for one more in every interval.
LEMMA PassWithinBudget ==
  ASSUME LocalInv, NEW d \in Clients, Pass(d), NEW k \in Keys
  PROVE  WithinBudget(k)'
<1> USE LocalLimiterAssumption, TokenBucketAssumption
<1> DEFINE P(a, b) == Passed(Group(k), a, b)
<1>0. time \in Nat /\ Group(k) \in SUBSET Clients
  BY DEF LocalInv, LocalTypeOK, Times, Group
<1> SUFFICES ASSUME NEW a \in Times, NEW b \in Times, a <= b
             PROVE  One * P(a, b)' <= Budget(a, b)
  BY DEF WithinBudget, Group, Budget
<1>1. /\ a \in Int /\ b \in Int /\ P(a, b) \in Nat
      /\ One * P(a, b) <= Budget(a, b)
  <2>1. a \in Int /\ b \in Int
    BY DEF Times
  <2>2. P(a, b) \in Nat
    BY <1>0, <2>1, PassedCount
  <2> QED
    BY <2>1, <2>2 DEF LocalInv, WithinBudget
<1>2. P(a, b)' = IF d \in Group(k) /\ time \in a .. b THEN P(a, b) + 1 ELSE P(a, b)
  BY <1>0, <1>1, PassCounts
<1>3. CASE d \in Group(k) /\ time \in a .. b
  <2>1. k = derive_key(d)
    BY <1>3 DEF Group
  <2>2. Available(k) >= One /\ Available(k) \in 0 .. Capacity /\ Covers(k, Available(k), time)
    BY <2>1, RefillCovers DEF Pass
  <2>3. a \in 0 .. time /\ time <= b
    BY <1>0, <1>1, <1>3 DEF Times
  <2>4. P(a, time) \in Nat
    BY <1>0, <1>1, PassedCount
  <2>5. P(a, b) = P(a, time)
    BY <1>0, <1>1, <2>2, <2>3, PassedUpTo DEF Covers
  <2>6. One * P(a, time) + Available(k) <= Budget(a, time)
    BY <2>2, <2>3 DEF Covers
  <2>7. /\ Budget(a, b) = Budget(a, time) + Rate * (b - time) /\ Budget(a, time) \in Int
        /\ Rate * (b - time) \in Int /\ 0 <= Rate * (b - time)
    BY <1>0, <1>1, <2>3, BudgetSplits
  <2> HIDE DEF P
  <2>8. One * (P(a, time) + 1) = One * P(a, time) + One /\ One * P(a, time) \in Int
    BY <2>4
  <2> QED
    BY <1>2, <1>3, <2>2, <2>5, <2>6, <2>7, <2>8
<1>4. CASE ~(d \in Group(k) /\ time \in a .. b)
  <2> HIDE DEF P
  <2> QED
    BY <1>1, <1>2, <1>4
<1> QED
  BY <1>3, <1>4

\* A new value of one bucket leaves the others in balance if only its own clients have
\* new passes.
LEMMA OthersCover ==
  ASSUME LocalInv, NEW k \in Keys, NEW j \in Keys, j # k,
         NEW e, buckets' = [buckets EXCEPT ![k] = e],
         \A c \in Clients \ Group(k) : passes'[c] = passes[c]
  PROVE  BucketInv(j)'
<1>1. buckets'[j] = buckets[j]
  BY DEF LocalInv, LocalTypeOK
<1>2. \A c \in Group(j) : passes'[c] = passes[c]
  BY DEF Group
<1>3. ASSUME NEW a, NEW b PROVE Passed(Group(j), a, b)' = Passed(Group(j), a, b)
  <2>1. PassedIn(Group(j), a, b)' = PassedIn(Group(j), a, b)
    BY <1>2 DEF PassedIn, Group, derive_key
  <2> QED
    BY <2>1 DEF Passed
<1>4. BucketInv(j)
  BY DEF LocalInv
<1>5. CASE buckets[j] = None
  BY <1>1, <1>2, <1>4, <1>5 DEF BucketInv, Group
<1>6. CASE buckets[j] # None
  <2> DEFINE v == buckets[j].tokens
             t == buckets[j].last_refill
  <2>1. Covers(j, v, t)
    BY <1>4, <1>6 DEF BucketInv
  <2>2. /\ \A c \in Group(j) : \A i \in DOMAIN passes'[c] : passes'[c][i] <= t
        /\ \A a \in 0 .. t : One * Passed(Group(j), a, t)' + v <= Budget(a, t)
        /\ \E a \in 0 .. t : One * Passed(Group(j), a, t)' + v >= Budget(a, t)
    BY <1>2, <1>3, <2>1 DEF Covers
  <2>3. v' = v /\ t' = t
    BY <1>1
  <2> HIDE DEF v, t
  <2>4. Covers(j, v, t)'
    BY <2>2, <2>3 DEF Covers, Group, Budget, derive_key, Passed, PassedIn
  <2> QED
    BY <1>1, <1>6, <2>4 DEF BucketInv, v, t
<1> QED
  BY <1>5, <1>6

-----------------------------------------------------------------------------
(* Every step *)

\* The process has just started.
Empty ==
  /\ time \in Times
  /\ buckets = [k \in Keys |-> None]
  /\ passes = [c \in Clients |-> <<>>]

\* With no passes there is nothing to count.
LEMMA EmptyInv == Empty => LocalInv
<1> SUFFICES ASSUME Empty PROVE LocalInv
  OBVIOUS
<1> USE LocalLimiterAssumption, TokenBucketAssumption DEF Empty
<1>1. LocalTypeOK
  BY DEF LocalTypeOK
<1>2. \A c \in Clients : DOMAIN passes[c] = {} /\ passes[c] = <<>>
  OBVIOUS
<1>3. \A C \in SUBSET Clients : \A a, b \in Int : PassedIn(C, a, b) = {}
  BY <1>2 DEF PassedIn
<1>4. IsFiniteSet({}) /\ Cardinality({}) = 0
  BY FS_EmptySet
<1>5. ASSUME NEW k \in Keys PROVE BucketInv(k)
  BY <1>2 DEF BucketInv, Group
<1>6. ASSUME NEW k \in Keys PROVE WithinBudget(k)
  <2> SUFFICES ASSUME NEW a \in Times, NEW b \in Times, a <= b
               PROVE  One * Passed(Group(k), a, b) <= Budget(a, b)
    BY DEF WithinBudget
  <2>1. a \in Int /\ b \in Int /\ Group(k) \in SUBSET Clients
    BY DEF Times, Group
  <2>2. Passed(Group(k), a, b) = 0
    BY <1>3, <1>4, <2>1 DEF Passed
  <2>3. Rate * (b - a) \in Int /\ 0 <= Rate * (b - a)
    BY <2>1, BudgetSplits
  <2> QED
    BY <2>2, <2>3 DEF Budget
<1>7. PassedIn(Clients, 0, MaxTime) = {}
  BY <1>3
<1> QED
  BY <1>1, <1>4, <1>5, <1>6, <1>7 DEF LocalInv

LEMMA LocalInvInit == LocalInit => LocalInv
BY EmptyInv, LocalLimiterAssumption, TokenBucketAssumption DEF LocalInit, Empty, Times

LEMMA DenyKeeps ==
  ASSUME LocalInv, NEW d \in Clients, Deny(d)
  PROVE  LocalInv'
<1> USE LocalLimiterAssumption, TokenBucketAssumption
<1>0. PICK k \in Keys : k = derive_key(d)
  BY DEF Keys
<1>1. PICK v : v = Available(k)
  OBVIOUS
<1>2. PICK t : t = time
  OBVIOUS
<1>3. /\ buckets' = [buckets EXCEPT ![k] = [tokens |-> v, last_refill |-> t]]
      /\ UNCHANGED <<time, passes>>
  BY <1>0, <1>1, <1>2 DEF Deny, Refilled
<1>4. v \in 0 .. Capacity /\ Covers(k, v, t) /\ t \in 0 .. time
  BY <1>1, <1>2, RefillCovers DEF LocalInv, LocalTypeOK, Times
<1>5. LocalTypeOK'
  BY <1>3, <1>4 DEF LocalInv, LocalTypeOK
<1>6. \A C, a, b : PassedIn(C, a, b)' = PassedIn(C, a, b) /\ Passed(C, a, b)' = Passed(C, a, b)
  BY <1>3 DEF PassedIn, Passed
<1>7. BucketInv(k)'
  <2>1. buckets'[k] = [tokens |-> v, last_refill |-> t]
    BY <1>3 DEF LocalInv, LocalTypeOK
  <2>2. buckets'[k] # None /\ buckets'[k].tokens = v /\ buckets'[k].last_refill = t
    BY <1>4, <1>2, <2>1 DEF LocalInv, LocalTypeOK, Times
  <2>3. Covers(k, v, t)'
    BY <1>3, <1>4, <1>6 DEF Covers, Group, Budget, derive_key
  <2> QED
    BY <2>2, <2>3 DEF BucketInv
<1>8. ASSUME NEW j \in Keys PROVE BucketInv(j)' /\ WithinBudget(j)'
  <2>1. WithinBudget(j)'
    BY <1>6 DEF LocalInv, WithinBudget, Group, Budget, derive_key
  <2>2. CASE j = k
    BY <1>7, <2>1, <2>2
  <2>3. CASE j # k
    <3>1. BucketInv(j)'
      BY <1>3, <2>3, OthersCover
    <3> QED
      BY <2>1, <3>1
  <2> QED
    BY <2>2, <2>3
<1> QED
  BY <1>5, <1>6, <1>8 DEF LocalInv, Keys, derive_key

LEMMA PassKeeps ==
  ASSUME LocalInv, NEW d \in Clients, Pass(d)
  PROVE  LocalInv'
<1> USE LocalLimiterAssumption, TokenBucketAssumption
<1>0. PICK k \in Keys : k = derive_key(d)
  BY DEF Keys
<1>1. PICK v : v = Available(k)
  OBVIOUS
<1>2. PICK t : t = time
  OBVIOUS
<1>3. /\ buckets' = [buckets EXCEPT ![k] = [tokens |-> v - One, last_refill |-> t]]
      /\ passes' = [passes EXCEPT ![d] = Append(passes[d], t)]
      /\ UNCHANGED time /\ v >= One
  BY <1>0, <1>1, <1>2 DEF Pass, Refilled
<1>4. v - One \in 0 .. Capacity /\ t \in 0 .. time /\ t \in Times
  <2>1. v \in 0 .. Capacity
    BY <1>1, RefillCovers
  <2> QED
    BY <1>2, <1>3, <2>1 DEF LocalInv, LocalTypeOK, Times
<1>5. LocalTypeOK'
  <2>1. buckets' \in [Keys -> {None} \cup [tokens : 0 .. Capacity, last_refill : 0 .. time]]
    BY <1>3, <1>4 DEF LocalInv, LocalTypeOK
  <2>2. passes' \in [Clients -> Seq(Times)]
    BY <1>3, <1>4 DEF LocalInv, LocalTypeOK
  <2> QED
    BY <1>3, <2>1, <2>2 DEF LocalInv, LocalTypeOK
<1>6. IsFiniteSet(PassedIn(Clients, 0, MaxTime)')
  BY PassCounts
<1>7. BucketInv(k)'
  <2>1. buckets'[k] = [tokens |-> v - One, last_refill |-> t]
    BY <1>3 DEF LocalInv, LocalTypeOK
  <2>2. buckets'[k] # None /\ buckets'[k].tokens = v - One /\ buckets'[k].last_refill = t
    BY <1>4, <2>1 DEF Times
  <2>3. Covers(k, v - One, t)'
    BY <1>0, <1>1, <1>2, PassCovers
  <2> QED
    BY <2>2, <2>3 DEF BucketInv
<1>8. ASSUME NEW j \in Keys PROVE BucketInv(j)' /\ WithinBudget(j)'
  <2>1. WithinBudget(j)'
    BY PassWithinBudget
  <2>2. CASE j = k
    BY <1>7, <2>1, <2>2
  <2>3. CASE j # k
    <3>1. \A c \in Clients \ Group(k) : passes'[c] = passes[c]
      BY <1>0, <1>3 DEF Group, LocalInv, LocalTypeOK
    <3>2. BucketInv(j)'
      BY <1>3, <2>3, <3>1, OthersCover
    <3> QED
      BY <2>1, <3>2
  <2> QED
    BY <2>2, <2>3
<1> QED
  BY <1>5, <1>6, <1>8 DEF LocalInv, Keys, derive_key

LEMMA TickKeeps ==
  ASSUME LocalInv, UNCHANGED <<buckets, passes>>, LocalTick \/ UNCHANGED time
  PROVE  LocalInv'
<1> USE LocalLimiterAssumption, TokenBucketAssumption
<1>1. time \in Nat /\ time' \in Times /\ time <= time'
  BY DEF LocalInv, LocalTypeOK, Times, LocalTick
<1>2. LocalTypeOK'
  <2>1. 0 .. time \subseteq 0 .. time'
    BY <1>1 DEF Times
  <2>2. [tokens : 0 .. Capacity, last_refill : 0 .. time]
          \subseteq [tokens : 0 .. Capacity, last_refill : 0 .. time']
    BY <2>1
  <2> QED
    BY <1>1, <2>2 DEF LocalInv, LocalTypeOK
<1>3. \A C, a, b : PassedIn(C, a, b)' = PassedIn(C, a, b) /\ Passed(C, a, b)' = Passed(C, a, b)
  BY DEF PassedIn, Passed
<1>4. ASSUME NEW k \in Keys PROVE BucketInv(k)' /\ WithinBudget(k)'
  BY <1>3 DEF LocalInv, BucketInv, WithinBudget, Covers, Group, Budget, derive_key
<1> QED
  BY <1>2, <1>3, <1>4 DEF LocalInv, Keys, derive_key

LEMMA EmptyInvNext == Empty' => LocalInv'
BY EmptyInv, PTL

LEMMA LocalInvNext == LocalInv /\ [LocalNext]_localVars => LocalInv'
<1> SUFFICES ASSUME LocalInv, [LocalNext]_localVars PROVE LocalInv'
  OBVIOUS
<1>1. CASE LocalTick
  BY <1>1, TickKeeps DEF LocalTick
<1>2. CASE Restart
  <2>1. Empty'
    BY <1>2 DEF Restart, Empty, LocalInv, LocalTypeOK, Keys, derive_key
  <2> QED
    BY <2>1, EmptyInvNext
<1>3. ASSUME NEW c \in Clients, Deny(c) PROVE LocalInv'
  BY <1>3, DenyKeeps
<1>4. ASSUME NEW c \in Clients, Pass(c) PROVE LocalInv'
  BY <1>4, PassKeeps
<1>5. CASE UNCHANGED localVars
  BY <1>5, TickKeeps DEF localVars
<1> QED
  BY <1>1, <1>2, <1>3, <1>4, <1>5 DEF LocalNext

\* The buckets are in balance with what has passed, in every reachable state of
\* L1LocalLimiter.
THEOREM LocalInvariant == LocalSpec => []LocalInv
BY LocalInvInit, LocalInvNext, PTL DEF LocalSpec

\* A bucket never owes a token, never holds more than its capacity and is never
\* ahead of the clock.
THEOREM LocalTypes == LocalSpec => []LocalTypeOK
BY LocalInvariant, PTL DEF LocalInv

\* For every subject and over every interval: what a gateway lets through fits in a
\* full bucket and the refill, from whatever addresses the requests come.
THEOREM LocalBudgetHolds == LocalSpec => []LocalBudget
<1>1. LocalInv => LocalBudget
  <2> SUFFICES ASSUME LocalInv, NEW e \in Clients, Subject[e] # None,
                      NEW a \in Times, NEW b \in Times, a <= b
               PROVE  One * Passed({c \in Clients : Subject[c] = Subject[e]}, a, b)
                        <= Capacity + Rate * (b - a)
    BY DEF LocalBudget
  <2> DEFINE k == Subject[e]
             C == {c \in Clients : Subject[c] = k}
  <2>1. k = derive_key(e) /\ k \in Keys /\ C \subseteq Group(k)
    BY DEF derive_key, Keys, Group
  <2>2. a \in Int /\ b \in Int /\ Group(k) \in SUBSET Clients /\ C \in SUBSET Clients
    BY LocalLimiterAssumption, TokenBucketAssumption DEF Times, Group
  <2>3. PassedIn(C, a, b) \subseteq PassedIn(Group(k), a, b)
    BY <2>1 DEF PassedIn
  <2>4. IsFiniteSet(PassedIn(Group(k), a, b)) /\ Passed(Group(k), a, b) \in Nat /\ Passed(C, a, b) \in Nat
    BY <2>2, PassedCount
  <2>5. Passed(C, a, b) <= Passed(Group(k), a, b)
    BY <2>3, <2>4, FS_Subset DEF Passed
  <2>6. One * Passed(Group(k), a, b) <= Capacity + Rate * (b - a)
    BY <2>1 DEF LocalInv, WithinBudget, Budget
  <2>7. Capacity + Rate * (b - a) \in Int
    BY <2>2, LocalLimiterAssumption, TokenBucketAssumption
  <2> HIDE DEF k, C
  <2>8. One * Passed(C, a, b) <= One * Passed(Group(k), a, b)
    BY <2>4, <2>5, TokenBucketAssumption
  <2>9. One * Passed(C, a, b) \in Int /\ One * Passed(Group(k), a, b) \in Int
    BY <2>4, TokenBucketAssumption
  <2> QED
    BY <2>6, <2>7, <2>8, <2>9 DEF C, k
<1> QED
  BY <1>1, LocalInvariant, PTL

\* check() refuses a request only when some interval that ends now has no room for it:
\* neither retries nor the rounding of the refill cost a client anything.
THEOREM DenialsAreJustified == LocalSpec => DenialJustified
<1> DEFINE Justified ==
      \A c \in Clients : Deny(c) =>
        \E a \in 0 .. time :
          One * (Passed({d \in Clients : derive_key(d) = derive_key(c)}, a, time) + 1)
            > Capacity + Rate * (time - a)
<1>1. LocalInv /\ [LocalNext]_localVars => [Justified]_localVars
  <2> SUFFICES ASSUME LocalInv, NEW c \in Clients, Deny(c)
               PROVE  \E a \in 0 .. time :
                        One * (Passed(Group(derive_key(c)), a, time) + 1) > Budget(a, time)
    BY DEF Group, Budget
  <2> DEFINE k == derive_key(c)
             v == Available(k)
  <2>0. k \in Keys /\ v < One
    BY DEF Keys, Deny
  <2>1. v \in 0 .. Capacity /\ Covers(k, v, time)
    BY <2>0, RefillCovers
  <2> HIDE DEF k, v
  <2>2. PICK a \in 0 .. time : One * Passed(Group(k), a, time) + v >= Budget(a, time)
    BY <2>1 DEF Covers
  <2>3. a \in Int /\ time \in Int /\ Group(k) \in SUBSET Clients
    BY LocalLimiterAssumption, TokenBucketAssumption DEF LocalInv, LocalTypeOK, Times, Group
  <2>4. Passed(Group(k), a, time) \in Nat /\ Budget(a, time) \in Int
    BY <2>3, PassedCount, BudgetSplits
  <2>5. /\ One * (Passed(Group(k), a, time) + 1) = One * Passed(Group(k), a, time) + One
        /\ One * Passed(Group(k), a, time) \in Int
    BY <2>4, TokenBucketAssumption
  <2>6. One * (Passed(Group(k), a, time) + 1) > Budget(a, time)
    BY <2>0, <2>1, <2>2, <2>4, <2>5, LocalLimiterAssumption, TokenBucketAssumption
  <2> QED
    BY <2>6 DEF k
<1> QED
  BY <1>1, LocalInvariant, PTL DEF LocalSpec, DenialJustified
-----------------------------------------------------------------------------
(* The shared limiter *)

\* A call that is under way was made no longer ago than the longest delay.
CallInv(r) ==
  pc[r] \in {"sent", "orphan"} =>
    now[r] - Skew[At[r]] \in time - MaxDelay .. time

\* The bucket in Redis, expired or not, is in balance with everything granted, and
\* the time of its last refill was some gateway's when the script ran.
BalanceInv ==
  /\ policy.rate = 0 \/ stored = NoKey => grants = <<>>
  /\ policy.rate > 0 /\ stored # NoKey =>
       /\ \E g \in Gateways : stored.last_refill <= stored.expires - BucketTtl + Skew[g]
       /\ MaxDelay + Spread <= BucketGrace =>
            One * Len(grants) + stored.tokens
              <= policy.capacity + policy.rate * (stored.last_refill + back)

\* The intervals in which the window's limit holds are shorter than this.
Reach == policy.window - MaxDelay - Spread

\* A grant is in the sorted set, which outlives it, under a time that is at least
\* some gateway's when its call was made.
Kept(i) ==
  /\ stored # NoKey /\ grants[i] + policy.window <= stored.expires
  /\ \E e \in stored.entries : \E g \in Gateways :
       e.id = i /\ grants[i] - MaxDelay + Skew[g] <= e.score

EntriesInv ==
  /\ stored # NoKey => IsFiniteSet(stored.entries)
  /\ \A i \in DOMAIN grants : grants[i] <= time /\ (grants[i] + Reach <= time \/ Kept(i))
  /\ WindowLimit

SharedInv ==
  /\ SharedTypeOK
  /\ \A r \in Requests : CallInv(r)
  /\ IF UsesBucket THEN BalanceInv ELSE EntriesInv

\* Since the last refusal the key is as that script left it.  By the time it said to
\* retry, there is a token or an entry has left the window, on every gateway's clock.
DueInv ==
  /\ UsesBucket /\ policy.rate = 0 => due = {}
  /\ Grantable => \A t \in due : \A g \in Gateways :
       IF UsesBucket
       THEN /\ t + Skew[g] >= stored.last_refill
            /\ stored.tokens + policy.rate * (t + Skew[g] - stored.last_refill) >= One
       ELSE \E e \in stored.entries : e.score <= t + Skew[g] - policy.window
-----------------------------------------------------------------------------
(* Facts about policies, clocks and numbers *)

LEMMA PolicyTypes ==
  ASSUME SharedTypeOK
  PROVE  IF UsesBucket
         THEN policy.capacity \in Nat /\ policy.rate \in Nat
         ELSE /\ policy.algorithm = "sliding_window"
              /\ policy.max_requests \in Nat /\ policy.window \in Nat
<1>1. policy \in TokenBucketPolicy \cup SlidingWindowPolicy
  BY SharedLimiterAssumption DEF SharedTypeOK
<1> QED
  BY <1>1 DEF TokenBucketPolicy, SlidingWindowPolicy, UsesBucket

LEMMA CeilDivBounds ==
  ASSUME NEW a \in Nat, NEW b \in Nat \ {0}
  PROVE  CeilDiv(a, b) \in Nat /\ b * CeilDiv(a, b) >= a
<1> DEFINE n == a + b - 1
<1>1. n \in Nat /\ n >= a + b - 1
  OBVIOUS
<1>2. n \div b \in Nat /\ n % b \in 0 .. b - 1 /\ n = b * (n \div b) + (n % b)
  BY <1>1
<1>3. CeilDiv(a, b) = n \div b
  BY DEF CeilDiv
<1>4. b * (n \div b) \in Int
  BY <1>2
<1> HIDE DEF n
<1> QED
  BY <1>1, <1>2, <1>3, <1>4

\* A refill makes no more than the time allows and than fits in, and no less than
\* both allow.
LEMMA RefillWithin ==
  ASSUME NEW tokens \in Nat, NEW capacity \in Nat, NEW rate \in Nat, NEW elapsed \in Nat,
         tokens <= capacity
  PROVE  /\ Refill(tokens, capacity, rate, elapsed) \in 0 .. capacity
         /\ Refill(tokens, capacity, rate, elapsed) <= tokens + rate * elapsed
         /\ \/ Refill(tokens, capacity, rate, elapsed) = capacity
            \/ Refill(tokens, capacity, rate, elapsed) = tokens + rate * elapsed
<1> DEFINE gain == rate * elapsed
<1>1. gain \in Nat
  OBVIOUS
<1>2. Refill(tokens, capacity, rate, elapsed)
        = IF tokens + gain < capacity THEN tokens + gain ELSE capacity
  BY DEF Refill
<1> HIDE DEF gain
<1>3. QED
  BY <1>1, <1>2 DEF gain

\* The time of a call is its gateway's from no longer ago than the longest delay.
LEMMA CallTimes ==
  ASSUME SharedInv, NEW r \in Requests, pc[r] \in {"sent", "orphan"}
  PROVE  /\ At[r] \in Gateways /\ Skew[At[r]] \in Nat /\ now[r] \in Nat /\ time \in Nat
         /\ time - MaxDelay + Skew[At[r]] <= now[r]
         /\ now[r] <= time + Skew[At[r]]
<1> USE SharedLimiterAssumption, TokenBucketAssumption
<1>1. At[r] \in Gateways /\ Skew[At[r]] \in Nat /\ now[r] \in Nat /\ time \in Nat
  BY DEF SharedInv, SharedTypeOK, Times
<1>2. now[r] - Skew[At[r]] \in time - MaxDelay .. time
  BY DEF SharedInv, CallInv
<1> QED
  BY <1>1, <1>2

\* A set of numbers that is not empty has a least one, which Min finds.
LEMMA MinIsLeast ==
  ASSUME NEW T \in SUBSET Nat, T # {}
  PROVE  Min(T) \in T
<1> DEFINE R == OpToRel(<, Nat)
<1>1. IsWellFoundedOn(R, Nat)
  BY NatLessThanWellFounded
<1>2. \A x, y \in Nat : y < x => <<y, x>> \in R
  BY DEF OpToRel
<1> HIDE DEF R
<1>3. PICK x \in T : \A y \in T : ~(<<y, x>> \in R)
  BY <1>1, WFMin
<1>4. ASSUME NEW y \in T
      PROVE  x <= y
  <2>1. x \in Nat /\ y \in Nat
    OBVIOUS
  <2>2. ~(y < x)
    BY <1>2, <1>3, <2>1
  <2> QED
    BY <2>1, <2>2
<1> QED
  BY <1>4 DEF Min

\* A client that waits for a second more than Retry-After says waits for the
\* milliseconds of the script, which are more than what it was told.
LEMMA DecideDue ==
  ASSUME NEW ok \in BOOLEAN, NEW wait, ~ok => wait \in Nat, Decide(ok, wait), time \in Nat
  PROVE  /\ due' \in SUBSET Nat
         /\ ok => due' = {}
         /\ ~ok => \A t \in due' : t >= time + wait + Spread
<1> USE SharedLimiterAssumption
<1>1. CASE ok
  BY <1>1 DEF Decide
<1>2. CASE ~ok
  <2> DEFINE told == RetryAfter(wait)
             t == time + Second * (told + 1) + Spread
  <2>1. due' = {t}
    BY <1>2 DEF Decide
  <2>2. wait \in Nat /\ Second \in Nat \ {0}
    BY <1>2
  <2>3. told \in Nat /\ Second * (told + 1) >= wait
    <3>1. wait \div Second \in Nat /\ wait % Second \in 0 .. Second - 1
          /\ wait = Second * (wait \div Second) + (wait % Second)
      BY <2>2
    <3>2. told = wait \div Second
      BY DEF RetryAfter
    <3> HIDE DEF told
    <3>3. told \in Nat /\ Second * (told + 1) = Second * told + Second /\ Second * told \in Nat
      BY <2>2, <3>1, <3>2
    <3> QED
      BY <2>2, <3>1, <3>2, <3>3
  <2> HIDE DEF told
  <2>4. Second * (told + 1) \in Nat
    BY <2>2, <2>3
  <2>5. t \in Nat /\ t >= time + wait + Spread
    BY <2>2, <2>3, <2>4
  <2> HIDE DEF t
  <2> QED
    BY <1>2, <2>1, <2>5
<1> QED
  BY <1>1, <1>2

-----------------------------------------------------------------------------
(* Requests and time *)

\* Whatever becomes of a call, the others go on.
LEMMA GotoKeepsCalls ==
  ASSUME SharedInv, NEW r \in Requests, NEW stage \in Stages \ {"sent"}, Goto(r, stage),
         stage = "orphan" => pc[r] = "sent", time' = time
  PROVE  /\ pc' \in [Requests -> Stages] /\ now' \in [Requests -> Nat]
         /\ \A q \in Requests : CallInv(q)'
<1>1. pc \in [Requests -> Stages] /\ now \in [Requests -> Nat]
  BY DEF SharedInv, SharedTypeOK
<1>2. pc' = [pc EXCEPT ![r] = stage]
      /\ now' = [now EXCEPT ![r] = IF stage = "orphan" THEN now[r] ELSE 0]
  BY DEF Goto
<1>3. pc' \in [Requests -> Stages] /\ now' \in [Requests -> Nat]
  BY <1>1, <1>2
<1>4. ASSUME NEW q \in Requests, pc'[q] \in {"sent", "orphan"}
      PROVE  pc[q] \in {"sent", "orphan"} /\ now'[q] = now[q]
  BY <1>1, <1>2, <1>4
<1>5. ASSUME NEW q \in Requests
      PROVE  CallInv(q)'
  BY <1>4 DEF SharedInv, CallInv
<1> QED
  BY <1>3, <1>5

LEMMA WalkKeeps ==
  ASSUME SharedInv, UNCHANGED <<time, policy, stored, grants, back, due>>,
         pc' \in [Requests -> Stages], now' \in [Requests -> Nat],
         \A q \in Requests : CallInv(q)'
  PROVE  SharedInv'
<1>1. SharedTypeOK'
  BY DEF SharedInv, SharedTypeOK, UsesBucket
<1>2. UsesBucket' <=> UsesBucket
  BY DEF UsesBucket
<1>3. BalanceInv => BalanceInv'
  BY DEF BalanceInv, BucketTtl
<1>4. EntriesInv => EntriesInv'
  BY DEF EntriesInv, Reach, Kept, WindowLimit, GrantedIn
<1> QED
  BY <1>1, <1>2, <1>3, <1>4 DEF SharedInv

LEMMA SendKeeps ==
  ASSUME SharedInv, NEW r \in Requests, Send(r)
  PROVE  SharedInv'
<1> USE SharedLimiterAssumption, TokenBucketAssumption
<1>1. pc \in [Requests -> Stages] /\ now \in [Requests -> Nat] /\ time \in Nat
      /\ Skew[At[r]] \in Nat
  BY DEF SharedInv, SharedTypeOK, Times
<1>2. pc' \in [Requests -> Stages] /\ now' \in [Requests -> Nat]
  BY <1>1 DEF Send, Stages
<1>3. ASSUME NEW q \in Requests
      PROVE  CallInv(q)'
  <2>1. CASE q = r
    BY <1>1, <2>1 DEF Send, CallInv
  <2>2. CASE q # r
    BY <1>1, <2>2 DEF Send, CallInv, SharedInv
  <2> QED
    BY <2>1, <2>2
<1>4. QED
  BY <1>2, <1>3, WalkKeeps DEF Send

LEMMA GotoKeeps ==
  ASSUME SharedInv, NEW r \in Requests, NEW stage \in Stages \ {"sent"}, Goto(r, stage),
         stage = "orphan" => pc[r] = "sent", UNCHANGED <<time, policy, stored, grants, back, due>>
  PROVE  SharedInv'
BY GotoKeepsCalls, WalkKeeps

LEMMA SharedTickKeeps ==
  ASSUME SharedInv, SharedTick
  PROVE  SharedInv'
<1> USE SharedLimiterAssumption, TokenBucketAssumption
<1>0. UNCHANGED <<policy, stored, pc, now, grants, back, due>> /\ time' = time + 1 /\ time < MaxTime
  BY DEF SharedTick
<1>1. time \in Times /\ time \in Nat /\ time' \in Times
  BY <1>0 DEF SharedInv, SharedTypeOK, Times
<1>2. SharedTypeOK'
  BY <1>0, <1>1 DEF SharedInv, SharedTypeOK, UsesBucket
<1>3. UsesBucket' <=> UsesBucket
  BY <1>0 DEF UsesBucket
<1>4. ASSUME NEW r \in Requests
      PROVE  CallInv(r)'
  <2>1. now[r] \in Nat /\ Skew[At[r]] \in Nat
    BY DEF SharedInv, SharedTypeOK
  <2>2. pc[r] \in {"sent", "orphan"} => time - (now[r] - Skew[At[r]]) < MaxDelay
    BY DEF SharedTick
  <2>3. pc[r] \in {"sent", "orphan"} => now[r] - Skew[At[r]] \in time - MaxDelay .. time
    BY DEF SharedInv, CallInv
  <2> QED
    BY <1>0, <1>1, <2>1, <2>2, <2>3 DEF CallInv
<1>5. BalanceInv => BalanceInv'
  BY <1>0 DEF BalanceInv, BucketTtl
<1>6. ASSUME ~UsesBucket, EntriesInv
      PROVE  EntriesInv'
  <2>1. policy.window \in Nat
    BY <1>6, PolicyTypes DEF SharedInv
  <2>2. Reach \in Int /\ Reach' = Reach
    BY <1>0, <2>1 DEF Reach
  <2>3. WindowLimit'
    BY <1>0, <1>6 DEF EntriesInv, WindowLimit, GrantedIn
  <2>4. ASSUME NEW i \in DOMAIN grants
        PROVE  grants[i] <= time' /\ (grants[i] + Reach <= time' \/ Kept(i)')
    <3>1. grants \in Seq(Times)
      BY DEF SharedInv, SharedTypeOK
    <3>2. grants[i] \in Nat
      BY <3>1 DEF Times
    <3>3. grants[i] <= time /\ (grants[i] + Reach <= time \/ Kept(i))
      BY <1>6 DEF EntriesInv
    <3>4. Kept(i) => Kept(i)'
      BY <1>0 DEF Kept
    <3> QED
      BY <1>0, <1>1, <2>2, <3>2, <3>3, <3>4
  <2> QED
    BY <1>0, <1>6, <2>2, <2>3, <2>4 DEF EntriesInv
<1> QED
  BY <1>2, <1>3, <1>4, <1>5, <1>6 DEF SharedInv
-----------------------------------------------------------------------------
(* The shared bucket *)

LEMMA BucketTtlNat ==
  ASSUME SharedTypeOK, UsesBucket, policy.rate > 0
  PROVE  /\ policy.capacity \in Nat /\ policy.rate \in Nat \ {0} /\ BucketTtl \in Nat
         /\ policy.rate * (BucketTtl - BucketGrace) >= policy.capacity
<1>1. policy.capacity \in Nat /\ policy.rate \in Nat \ {0}
  BY PolicyTypes
<1> DEFINE q == CeilDiv(policy.capacity, policy.rate)
<1>2. q \in Nat /\ policy.rate * q >= policy.capacity
  BY <1>1, CeilDivBounds
<1>3. BucketTtl = q + BucketGrace
  BY DEF BucketTtl
<1> HIDE DEF q
<1>4. BucketTtl \in Nat /\ BucketTtl - BucketGrace = q
  BY <1>2, <1>3, SharedLimiterAssumption
<1> QED
  BY <1>1, <1>2, <1>4

\* The bucket a script finds, or makes, has its type.
LEMMA BucketFound ==
  ASSUME SharedInv, UsesBucket, NEW t \in Nat
  PROVE  /\ policy.capacity \in Nat /\ policy.rate \in Nat
         /\ BucketAt(t).tokens \in 0 .. policy.capacity /\ BucketAt(t).last_refill \in Nat
         /\ Tokens(t) \in 0 .. policy.capacity
         /\ Tokens(t) <= BucketAt(t).tokens + policy.rate * Elapsed(t, BucketAt(t).last_refill)
<1>1. policy.capacity \in Nat /\ policy.rate \in Nat
  BY PolicyTypes DEF SharedInv
<1>2. BucketAt(t).tokens \in 0 .. policy.capacity /\ BucketAt(t).last_refill \in Nat
  <2>1. CASE Live
    <3>1. stored \in Bucket /\ stored.tokens <= policy.capacity
      BY <2>1 DEF SharedInv, SharedTypeOK, Live
    <3> QED
      BY <1>1, <2>1, <3>1 DEF BucketAt, Bucket
  <2>2. CASE ~Live
    BY <1>1, <2>2 DEF BucketAt
  <2> QED
    BY <2>1, <2>2
<1> DEFINE tokens == BucketAt(t).tokens
           elapsed == Elapsed(t, BucketAt(t).last_refill)
<1>3. elapsed \in Nat /\ tokens \in Nat /\ tokens <= policy.capacity
  BY <1>1, <1>2 DEF Elapsed
<1>4. Tokens(t) = Refill(tokens, policy.capacity, policy.rate, elapsed)
  BY DEF Tokens
<1>5. Tokens(t) \in 0 .. policy.capacity /\ Tokens(t) <= tokens + policy.rate * elapsed
  <2> DEFINE capacity == policy.capacity
             rate == policy.rate
  <2>1. capacity \in Nat /\ rate \in Nat /\ tokens <= capacity
        /\ Tokens(t) = Refill(tokens, capacity, rate, elapsed)
    BY <1>1, <1>3, <1>4
  <2> HIDE DEF tokens, elapsed, capacity, rate
  <2>2. Tokens(t) \in 0 .. capacity /\ Tokens(t) <= tokens + rate * elapsed
    BY <1>3, <2>1, RefillWithin
  <2> QED
    BY <2>2 DEF capacity, rate
<1> QED
  BY <1>1, <1>2, <1>5

\* If the key has expired, its bucket would be full at the time of any call: a full
\* one in its place keeps the balance.
LEMMA ExpiredIsFull ==
  ASSUME SharedInv, UsesBucket, policy.rate > 0, stored # NoKey, ~Live,
         MaxDelay + Spread <= BucketGrace,
         NEW r \in Requests, pc[r] \in {"sent", "orphan"}
  PROVE  One * Len(grants) <= policy.rate * (now[r] + back)
<1>0. MaxDelay \in Nat /\ Spread \in Nat /\ BucketGrace \in Nat /\ One \in Nat
  BY SharedLimiterAssumption, TokenBucketAssumption
<1>1. stored.tokens \in Nat /\ stored.last_refill \in Nat /\ stored.expires \in Nat
      /\ back \in Nat /\ Len(grants) \in Nat
  BY DEF SharedInv, SharedTypeOK, Bucket
<1>2. policy.capacity \in Nat /\ policy.rate \in Nat \ {0} /\ BucketTtl \in Nat
      /\ policy.rate * (BucketTtl - BucketGrace) >= policy.capacity
  BY BucketTtlNat DEF SharedInv
<1>3. PICK g \in Gateways : stored.last_refill <= stored.expires - BucketTtl + Skew[g]
  BY DEF SharedInv, BalanceInv
<1>4. One * Len(grants) + stored.tokens
        <= policy.capacity + policy.rate * (stored.last_refill + back)
  BY DEF SharedInv, BalanceInv
<1>5. now[r] \in Nat /\ time \in Nat /\ Skew[At[r]] \in Nat /\ Skew[g] \in Nat
      /\ time - MaxDelay + Skew[At[r]] <= now[r]
      /\ Skew[g] - Skew[At[r]] <= Spread
  BY CallTimes, SharedLimiterAssumption
<1>6. stored.expires <= time
  BY <1>1, <1>5 DEF Live
<1> DEFINE gap == BucketTtl - BucketGrace
           last == stored.last_refill + back
           then == now[r] + back
<1>7. gap \in Int /\ last \in Int /\ then \in Int /\ last + gap <= then
  <2>1. BucketTtl \in Nat
    BY <1>2
  <2>2. stored.last_refill <= time - BucketTtl + Skew[g]
    BY <1>1, <1>3, <1>5, <1>6, <2>1
  <2>3. stored.last_refill + BucketTtl - MaxDelay - Spread <= now[r]
    BY <1>0, <1>1, <1>5, <2>1, <2>2
  <2>4. now[r] \in Nat /\ stored.last_refill \in Nat /\ back \in Nat
    BY <1>1, <1>5
  <2>5. gap \in Int /\ stored.last_refill + gap <= now[r]
    BY <1>0, <2>1, <2>3, <2>4
  <2> HIDE DEF gap
  <2> QED
    BY <2>4, <2>5
<1>8. policy.rate * gap >= policy.capacity /\ policy.capacity \in Nat /\ policy.rate \in Nat
  BY <1>2
<1>9. One * Len(grants) \in Int
  BY <1>0, <1>1
<1>10. One * Len(grants) + stored.tokens <= policy.capacity + policy.rate * last
  BY <1>4
<1> SUFFICES One * Len(grants) <= policy.rate * then
  OBVIOUS
<1> HIDE DEF gap, last, then
<1>11. policy.rate * (last + gap) <= policy.rate * then
  BY <1>7, <1>8
<1>12. policy.rate * (last + gap) = policy.rate * last + policy.rate * gap
  BY <1>7, <1>8
<1>13. policy.rate * last \in Int /\ policy.rate * gap \in Int /\ policy.rate * then \in Int
  BY <1>7, <1>8
<1> QED
  BY <1>1, <1>8, <1>9, <1>10, <1>11, <1>12, <1>13

LEMMA FoundInBalance ==
  ASSUME SharedInv, UsesBucket, policy.rate > 0, MaxDelay + Spread <= BucketGrace,
         NEW r \in Requests, pc[r] \in {"sent", "orphan"}
  PROVE  One * Len(grants) + BucketAt(now[r]).tokens
           <= policy.capacity + policy.rate * (BucketAt(now[r]).last_refill + back)
<1> USE SharedLimiterAssumption, TokenBucketAssumption
<1>1. now[r] \in Nat /\ back \in Nat /\ Len(grants) \in Nat
  BY CallTimes DEF SharedInv, SharedTypeOK
<1>2. policy.capacity \in Nat /\ policy.rate \in Nat
  BY PolicyTypes DEF SharedInv
<1>3. CASE Live
  <2>1. BucketAt(now[r]) = stored /\ stored # NoKey
    BY <1>3 DEF BucketAt, Live
  <2> QED
    BY <2>1 DEF SharedInv, BalanceInv
<1>4. CASE ~Live
  <2>1. BucketAt(now[r]).tokens = policy.capacity /\ BucketAt(now[r]).last_refill = now[r]
    BY <1>4 DEF BucketAt
  <2>2. One * Len(grants) \in Int /\ policy.rate * (now[r] + back) \in Nat
    BY <1>1, <1>2
  <2>3. One * Len(grants) <= policy.rate * (now[r] + back)
    <3>1. CASE stored = NoKey
      <4>1. Len(grants) = 0
        BY <3>1 DEF SharedInv, BalanceInv
      <4> QED
        BY <2>2, <4>1
    <3>2. CASE stored # NoKey
      BY <1>4, <3>2, ExpiredIsFull
    <3> QED
      BY <3>1, <3>2
  <2> QED
    BY <1>2, <2>1, <2>2, <2>3
<1> QED
  BY <1>3, <1>4

\* When the bucket's script says to retry: once the bucket has a token on any clock.
LEMMA BucketDue ==
  ASSUME SharedInv, NEW r \in Requests, TokenBucketScript(r)
  PROVE  /\ due' \in SUBSET Nat
         /\ \A t \in due' : \A g \in Gateways :
              /\ t + Skew[g] >= stored'.last_refill
              /\ stored'.tokens + policy.rate * (t + Skew[g] - stored'.last_refill) >= One
<1> DEFINE n == now[r]
           tokens == Tokens(n)
           ok == tokens >= One
           wait == BucketRetry(tokens)
<1>1. /\ UsesBucket /\ policy.rate > 0 /\ pc[r] \in {"sent", "orphan"}
      /\ stored' = [tokens |-> Taken(tokens), last_refill |-> n, expires |-> time + BucketTtl]
      /\ Decide(ok, wait)
  BY DEF TokenBucketScript, Return
<1>2. /\ At[r] \in Gateways /\ Skew[At[r]] \in Nat /\ n \in Nat /\ time \in Nat
      /\ n <= time + Skew[At[r]]
  BY <1>1, CallTimes
<1>3. policy.rate \in Nat \ {0} /\ tokens \in Nat /\ One \in Nat /\ ok \in BOOLEAN
  <2>1. policy.rate \in Nat /\ policy.capacity \in Nat /\ tokens \in 0 .. policy.capacity
    <3> HIDE DEF n
    <3> QED
      BY <1>1, <1>2, BucketFound
  <2> QED
    BY <1>1, <2>1, TokenBucketAssumption
<1>4. /\ stored'.last_refill = n
      /\ ~ok => stored'.tokens = tokens
  BY <1>1 DEF Taken
<1>5. ASSUME ~ok PROVE wait \in Nat /\ policy.rate * wait >= One - tokens
  <2> HIDE DEF tokens
  <2>1. One - tokens \in Nat
    BY <1>3, <1>5
  <2> QED
    BY <1>3, <2>1, CeilDivBounds DEF BucketRetry
<1> HIDE DEF ok, tokens, wait, n
<1>6. /\ due' \in SUBSET Nat /\ (ok => due' = {})
      /\ ~ok => \A t \in due' : t >= time + wait + Spread
  BY <1>1, <1>2, <1>3, <1>5, DecideDue
<1>7. ASSUME NEW t \in due', NEW g \in Gateways
      PROVE  /\ t + Skew[g] >= n
             /\ tokens + policy.rate * (t + Skew[g] - n) >= One
  <2>1. ~ok /\ t \in Nat /\ wait \in Nat /\ t >= time + wait + Spread
    BY <1>5, <1>6
  <2>2. Skew[g] \in Nat /\ Spread \in Nat /\ Skew[At[r]] - Skew[g] <= Spread
    BY <1>2, SharedLimiterAssumption
  <2>3. PICK later \in Int : later = t + Skew[g] - n
    BY <1>2, <2>1, <2>2
  <2>4. later >= wait
    BY <1>2, <2>1, <2>2, <2>3
  <2>5. policy.rate * later >= policy.rate * wait
    <3>1. \A x \in Nat, y, z \in Int : y >= z => x * y >= x * z
      OBVIOUS
    <3> QED
      BY <1>3, <2>1, <2>3, <2>4, <3>1
  <2>6. policy.rate * later \in Int /\ policy.rate * wait \in Int
    BY <1>3, <2>1, <2>3
  <2>7. tokens + policy.rate * later >= One
    BY <1>3, <1>5, <2>1, <2>5, <2>6
  <2> QED
    BY <1>2, <2>1, <2>2, <2>3, <2>4, <2>7
<1>8. ASSUME NEW t \in due' PROVE ~ok
  BY <1>6
<1> QED
  BY <1>4, <1>6, <1>7, <1>8

LEMMA BucketScriptKeeps ==
  ASSUME SharedInv, NEW r \in Requests, TokenBucketScript(r)
  PROVE  SharedInv'
<1> DEFINE n == now[r]
           t == Tokens(n)
           last == BucketAt(n).last_refill
           ok == t >= One
<1>1. /\ UsesBucket /\ policy.rate > 0 /\ pc[r] \in {"sent", "orphan"}
      /\ Goto(r, IF pc[r] = "sent" THEN IF ok THEN "granted" ELSE "denied" ELSE "idle")
      /\ stored' = [tokens |-> Taken(t), last_refill |-> n, expires |-> time + BucketTtl]
      /\ grants' = IF ok THEN Append(grants, time) ELSE grants
      /\ back' = back + Elapsed(last, n)
      /\ time' = time /\ policy' = policy
  BY DEF TokenBucketScript, Return, Decide
<1>2. /\ At[r] \in Gateways /\ Skew[At[r]] \in Nat /\ n \in Nat /\ time \in Nat
      /\ n <= time + Skew[At[r]]
  BY <1>1, CallTimes
<1>3. /\ time \in Times /\ policy \in Policies /\ back \in Nat /\ grants \in Seq(Times)
  BY DEF SharedInv, SharedTypeOK
<1>4. /\ policy.capacity \in Nat /\ policy.rate \in Nat /\ BucketAt(n).tokens \in Nat
      /\ last \in Nat /\ t \in Nat /\ t <= policy.capacity
      /\ t <= BucketAt(n).tokens + policy.rate * Elapsed(n, last)
  <2>1. /\ policy.capacity \in Nat /\ policy.rate \in Nat
        /\ BucketAt(n).tokens \in 0 .. policy.capacity /\ last \in Nat
        /\ t \in 0 .. policy.capacity
        /\ t <= BucketAt(n).tokens + policy.rate * Elapsed(n, last)
    <3> HIDE DEF n
    <3> QED
      BY <1>1, <1>2, BucketFound
  <2> QED
    BY <2>1
<1>5. BucketTtl \in Nat
  BY <1>1, BucketTtlNat DEF SharedInv
<1>6. Taken(t) \in Nat /\ Taken(t) <= policy.capacity /\ Taken(t) = IF ok THEN t - One ELSE t
  BY <1>4, TokenBucketAssumption DEF Taken
<1>7. stored' \in Bucket /\ stored' # NoKey
  BY <1>1, <1>2, <1>5, <1>6, SharedLimiterAssumption DEF Bucket
<1>8. Elapsed(last, n) \in Nat /\ Elapsed(n, last) \in Nat
      /\ last + Elapsed(n, last) = n + Elapsed(last, n)
  BY <1>2, <1>4 DEF Elapsed
<1>9. /\ pc' \in [Requests -> Stages] /\ now' \in [Requests -> Nat]
      /\ \A q \in Requests : CallInv(q)'
  BY <1>1, GotoKeepsCalls DEF Stages
<1>10. grants' \in Seq(Times) /\ Len(grants') = IF ok THEN Len(grants) + 1 ELSE Len(grants)
  BY <1>1, <1>3
<1>11. SharedTypeOK'
  <2>1. UsesBucket' /\ stored'.tokens <= policy'.capacity
    BY <1>1, <1>6 DEF UsesBucket
  <2>2. due' \in SUBSET Nat
    BY BucketDue
  <2> QED
    BY <1>1, <1>3, <1>7, <1>8, <1>9, <1>10, <2>1, <2>2 DEF SharedTypeOK
<1>12. ASSUME MaxDelay + Spread <= BucketGrace
       PROVE  One * Len(grants') + Taken(t) <= policy.capacity + policy.rate * (n + back')
  <2>1. One * Len(grants) + BucketAt(n).tokens <= policy.capacity + policy.rate * (last + back)
    BY <1>1, <1>12, FoundInBalance
  <2>2. policy.rate * (n + back') = policy.rate * (last + back) + policy.rate * Elapsed(n, last)
    <3>1. n + back' = (last + back) + Elapsed(n, last)
      <4>1. back' = back + Elapsed(last, n) /\ back \in Nat /\ last \in Nat /\ n \in Nat
        BY <1>1, <1>2, <1>3, <1>4
      <4>2. Elapsed(last, n) \in Nat /\ Elapsed(n, last) \in Nat
            /\ last + Elapsed(n, last) = n + Elapsed(last, n)
        BY <1>8
      <4> DEFINE forth == Elapsed(n, last)
                 behind == Elapsed(last, n)
      <4> HIDE DEF n, last, forth, behind
      <4>3. back' = back + behind /\ behind \in Nat /\ forth \in Nat
            /\ last + forth = n + behind
        BY <4>1, <4>2 DEF forth, behind
      <4>4. n + back' = (last + back) + forth
        BY <4>1, <4>3
      <4> QED
        BY <4>4 DEF forth
    <3>2. \A x, y, z \in Int : x * (y + z) = x * y + x * z
      OBVIOUS
    <3> QED
      BY <1>3, <1>4, <1>8, <3>1, <3>2
  <2>3. One * Len(grants') + Taken(t) = One * Len(grants) + t
    <3>1. Len(grants) \in Nat
      BY <1>3
    <3>2. One * (Len(grants) + 1) = One * Len(grants) + One /\ One \in Nat
      BY <3>1, TokenBucketAssumption
    <3>3. One * Len(grants) \in Int
      BY <3>1, TokenBucketAssumption
    <3> QED
      BY <1>4, <1>6, <1>10, <3>1, <3>2, <3>3
  <2>4. One * Len(grants) \in Int /\ policy.rate * (last + back) \in Int
        /\ policy.rate * Elapsed(n, last) \in Int
    BY <1>3, <1>4, <1>8, TokenBucketAssumption
  <2> HIDE DEF n, t, last, ok
  <2> QED
    BY <1>4, <2>1, <2>2, <2>3, <2>4
<1>13. BalanceInv'
  <2>1. BucketTtl' = BucketTtl
    BY <1>1 DEF BucketTtl
  <2>2. stored'.last_refill <= stored'.expires - BucketTtl' + Skew[At[r]]
    BY <1>1, <1>2, <1>5, <2>1
  <2>3. MaxDelay + Spread <= BucketGrace =>
          One * Len(grants') + stored'.tokens
            <= policy'.capacity + policy'.rate * (stored'.last_refill + back')
    BY <1>1, <1>12
  <2>4. ~(policy'.rate = 0)
    BY <1>1, <1>4
  <2> QED
    BY <1>2, <1>7, <2>2, <2>3, <2>4 DEF BalanceInv
<1> QED
  BY <1>1, <1>9, <1>11, <1>13 DEF SharedInv, UsesBucket

LEMMA BucketScriptFailsKeeps ==
  ASSUME SharedInv, NEW r \in Requests, TokenBucketScriptFails(r)
  PROVE  SharedInv'
<1> USE SharedLimiterAssumption, TokenBucketAssumption
<1>1. /\ UsesBucket /\ policy.rate = 0 /\ pc[r] \in {"sent", "orphan"}
      /\ Goto(r, IF pc[r] = "sent" THEN "error" ELSE "idle")
      /\ stored' = [tokens |-> Taken(Tokens(now[r])), last_refill |-> now[r],
                    expires |-> MaxTime + 1]
      /\ UNCHANGED <<time, policy, grants, back, due>>
  BY DEF TokenBucketScriptFails, Return
<1>2. now[r] \in Nat
  BY <1>1, CallTimes
<1>3. Tokens(now[r]) \in 0 .. policy.capacity /\ policy.capacity \in Nat
  BY <1>1, <1>2, BucketFound
<1>4. Taken(Tokens(now[r])) \in Nat /\ Taken(Tokens(now[r])) <= policy.capacity
  BY <1>3 DEF Taken
<1>5. stored' \in Bucket /\ stored'.tokens <= policy.capacity /\ stored' # NoKey
  BY <1>1, <1>2, <1>4 DEF Bucket
<1>6. /\ pc' \in [Requests -> Stages] /\ now' \in [Requests -> Nat]
      /\ \A q \in Requests : CallInv(q)'
  BY <1>1, GotoKeepsCalls DEF Stages
<1>7. SharedTypeOK'
  BY <1>1, <1>5, <1>6 DEF SharedInv, SharedTypeOK, UsesBucket
<1>8. BalanceInv'
  BY <1>1 DEF SharedInv, BalanceInv
<1> QED
  BY <1>1, <1>6, <1>7, <1>8 DEF SharedInv, UsesBucket
-----------------------------------------------------------------------------
(* The shared window *)

\* The entries a script finds after it has pruned them.
LEMMA EntriesFound ==
  ASSUME SharedInv, ~UsesBucket, NEW t \in Nat
  PROVE  /\ EntriesAt(t) \subseteq Member /\ IsFiniteSet(EntriesAt(t))
         /\ Cardinality(EntriesAt(t)) \in Nat
         /\ Cardinality(EntriesAt(t)) <= policy.max_requests
<1>1. policy.max_requests \in Nat
  BY PolicyTypes DEF SharedInv
<1>2. CASE ~Live
  BY <1>1, <1>2, FS_EmptySet DEF EntriesAt
<1>3. CASE Live
  <2>1. stored \in Window /\ Cardinality(stored.entries) \in 0 .. policy.max_requests
        /\ IsFiniteSet(stored.entries)
    BY <1>3 DEF SharedInv, SharedTypeOK, EntriesInv, Live
  <2>2. EntriesAt(t) \subseteq stored.entries /\ stored.entries \subseteq Member
    BY <1>3, <2>1 DEF EntriesAt, Pruned, Window
  <2>3. IsFiniteSet(EntriesAt(t)) /\ Cardinality(EntriesAt(t)) <= Cardinality(stored.entries)
    BY <2>1, <2>2, FS_Subset
  <2>4. Cardinality(EntriesAt(t)) \in Nat
    BY <2>3, FS_CardinalityType
  <2> QED
    BY <1>1, <2>1, <2>2, <2>3, <2>4
<1> QED
  BY <1>2, <1>3

\* A grant that matters to an interval with the present in it is not pruned and its
\* key has not expired, on whatever clock the script's time was read.
LEMMA KeptIsFound ==
  ASSUME SharedInv, ~UsesBucket, NEW r \in Requests, pc[r] \in {"sent", "orphan"},
         NEW i \in DOMAIN grants, ~(grants[i] + Reach <= time)
  PROVE  /\ grants[i] \in Nat /\ grants[i] <= time
         /\ \E e \in EntriesAt(now[r]) : \E g \in Gateways :
              e.id = i /\ grants[i] - MaxDelay + Skew[g] <= e.score
<1>0. MaxDelay \in Nat /\ Spread \in Nat /\ policy.window \in Nat
  BY SharedLimiterAssumption, PolicyTypes DEF SharedInv
<1>1. grants \in Seq(Times)
  BY DEF SharedInv, SharedTypeOK
<1>2. grants[i] \in Nat
  <2>1. grants[i] \in Times
    BY <1>1
  <2> QED
    BY <2>1, TokenBucketAssumption DEF Times
<1>3. grants[i] <= time /\ Kept(i)
  BY DEF SharedInv, EntriesInv
<1>4. PICK e \in stored.entries : \E g \in Gateways :
        e.id = i /\ grants[i] - MaxDelay + Skew[g] <= e.score
  BY <1>3 DEF Kept
<1>5. PICK g \in Gateways : e.id = i /\ grants[i] - MaxDelay + Skew[g] <= e.score
  BY <1>4
<1>6. stored \in Window
  BY <1>3 DEF Kept, SharedInv, SharedTypeOK
<1>7. e.score \in Nat /\ stored.expires \in Nat
  BY <1>6 DEF Window, Member
<1>8. At[r] \in Gateways /\ now[r] \in Nat /\ time \in Nat /\ Skew[At[r]] \in Nat
      /\ now[r] <= time + Skew[At[r]]
  BY CallTimes
<1>9. Skew[g] \in Nat /\ Skew[At[r]] - Skew[g] <= Spread
  BY <1>8, SharedLimiterAssumption
<1>10. time < grants[i] + policy.window - MaxDelay - Spread
  BY <1>0, <1>2, <1>8 DEF Reach
<1>11. Live
  <2>1. grants[i] + policy.window <= stored.expires /\ stored # NoKey
    BY <1>3 DEF Kept
  <2>2. time < stored.expires
    BY <1>0, <1>2, <1>7, <1>8, <1>10, <2>1
  <2> QED
    BY <2>1, <2>2 DEF Live
<1>12. now[r] - policy.window < grants[i] - MaxDelay + Skew[g]
  BY <1>0, <1>2, <1>8, <1>9, <1>10
<1>13. e.score > now[r] - policy.window
  BY <1>0, <1>2, <1>5, <1>7, <1>8, <1>9, <1>12
<1>14. e \in EntriesAt(now[r])
  BY <1>11, <1>13 DEF EntriesAt, Pruned
<1> QED
  BY <1>2, <1>3, <1>5, <1>14

\* When the window's script says to retry: once an entry has left it on any clock.
LEMMA WindowDue ==
  ASSUME SharedInv, NEW r \in Requests, SlidingWindowScript(r)
  PROVE  /\ due' \in SUBSET Nat
         /\ Grantable => \A t \in due' : \A g \in Gateways :
              \E e \in stored'.entries : e.score <= t + Skew[g] - policy.window
<1> DEFINE n == now[r]
           E == EntriesAt(n)
           ok == Cardinality(E) < policy.max_requests
           wait == WindowRetry(E, n)
<1>1. /\ ~UsesBucket /\ pc[r] \in {"sent", "orphan"}
      /\ ~ok => stored'.entries = E
      /\ Decide(ok, wait)
  BY DEF SlidingWindowScript, Return, UsesBucket
<1>2. /\ At[r] \in Gateways /\ Skew[At[r]] \in Nat /\ n \in Nat /\ time \in Nat
      /\ n <= time + Skew[At[r]]
  BY <1>1, CallTimes
<1>3. policy.max_requests \in Nat /\ policy.window \in Nat /\ ok \in BOOLEAN
  BY <1>1, PolicyTypes DEF SharedInv
<1>4. E \subseteq Member /\ Cardinality(E) \in Nat
  <2> HIDE DEF n
  <2> QED
    BY <1>1, <1>2, EntriesFound
<1>5. /\ wait \in Nat
      /\ E # {} => \E e \in E : e.score \in Nat /\ n + wait >= e.score + policy.window
  <2>1. CASE E = {}
    BY <2>1 DEF WindowRetry
  <2>2. CASE E # {}
    <3> DEFINE scores == {e.score : e \in E}
               m == Min(scores)
    <3> HIDE DEF E
    <3>1. scores \in SUBSET Nat /\ scores # {}
      BY <1>4, <2>2 DEF Member
    <3>2. m \in scores
      <4> HIDE DEF scores
      <4> QED
        BY <3>1, MinIsLeast
    <3>3. PICK e \in E : e.score = m
      BY <3>2
    <3>4. m \in Nat
      BY <3>1, <3>2
    <3>5. wait = Elapsed(m + policy.window, n)
      BY <2>2 DEF WindowRetry
    <3> HIDE DEF m, wait, n
    <3>6. wait \in Nat /\ n + wait >= m + policy.window
      BY <1>2, <1>3, <3>4, <3>5 DEF Elapsed
    <3> QED
      BY <3>3, <3>4, <3>6
  <2> QED
    BY <2>1, <2>2
<1>6. ~ok /\ Grantable => E # {}
  <2> HIDE DEF E
  <2> QED
    BY <1>1, <1>3, FS_EmptySet DEF Grantable
<1> HIDE DEF ok, E, wait, n
<1>7. /\ due' \in SUBSET Nat /\ (ok => due' = {})
      /\ ~ok => \A t \in due' : t >= time + wait + Spread
  BY <1>1, <1>2, <1>3, <1>5, DecideDue
<1>8. ASSUME Grantable, NEW t \in due', NEW g \in Gateways
      PROVE  \E e \in stored'.entries : e.score <= t + Skew[g] - policy.window
  <2>1. ~ok /\ t \in Nat /\ t >= time + wait + Spread
    BY <1>7
  <2>2. Skew[g] \in Nat /\ Spread \in Nat /\ Skew[At[r]] - Skew[g] <= Spread
    BY <1>2, SharedLimiterAssumption
  <2>3. PICK e \in E : e.score \in Nat /\ n + wait >= e.score + policy.window
    BY <1>5, <1>6, <1>8, <2>1
  <2>4. e.score <= t + Skew[g] - policy.window
    BY <1>2, <1>3, <1>5, <2>1, <2>2, <2>3
  <2> QED
    BY <1>1, <2>1, <2>3, <2>4
<1> QED
  BY <1>7, <1>8

LEMMA WindowScriptKeeps ==
  ASSUME SharedInv, NEW r \in Requests, SlidingWindowScript(r)
  PROVE  SharedInv'
<1> DEFINE n == now[r]
           E == EntriesAt(n)
           ok == Cardinality(E) < policy.max_requests
           new == [id |-> Len(grants) + 1, score |-> n]
           F == IF ok THEN E \cup {new} ELSE E
<1>1. /\ policy.algorithm = "sliding_window" /\ pc[r] \in {"sent", "orphan"}
      /\ Goto(r, IF pc[r] = "sent" THEN IF ok THEN "granted" ELSE "denied" ELSE "idle")
      /\ stored' = [entries |-> F, expires |-> time + policy.window + WindowGrace]
      /\ grants' = IF ok THEN Append(grants, time) ELSE grants
      /\ time' = time /\ policy' = policy /\ back' = back
  BY DEF SlidingWindowScript, Return, Decide, Added
<1>2. ~UsesBucket /\ ~UsesBucket'
  BY <1>1 DEF UsesBucket
<1>3. policy.max_requests \in Nat /\ policy.window \in Nat /\ MaxDelay \in Nat
      /\ Spread \in Nat /\ WindowGrace \in Nat
  BY <1>2, PolicyTypes, SharedLimiterAssumption DEF SharedInv
<1>4. /\ At[r] \in Gateways /\ Skew[At[r]] \in Nat /\ n \in Nat /\ time \in Nat
      /\ time - MaxDelay + Skew[At[r]] <= n
  BY <1>1, CallTimes
<1>5. time \in Times /\ policy \in Policies /\ back \in Nat /\ grants \in Seq(Times)
      /\ Len(grants) \in Nat /\ DOMAIN grants = 1 .. Len(grants)
  BY DEF SharedInv, SharedTypeOK
<1>6. E \subseteq Member /\ IsFiniteSet(E) /\ Cardinality(E) \in Nat
      /\ Cardinality(E) <= policy.max_requests
  <2> HIDE DEF n
  <2> QED
    BY <1>2, <1>4, EntriesFound
<1>7. /\ F \subseteq Member /\ IsFiniteSet(F) /\ Cardinality(F) \in Nat
      /\ Cardinality(F) <= policy.max_requests
  <2>1. new \in Member
    BY <1>4, <1>5 DEF Member
  <2> HIDE DEF E, new
  <2>2. IsFiniteSet(E \cup {new})
        /\ Cardinality(E \cup {new}) = IF new \in E THEN Cardinality(E) ELSE Cardinality(E) + 1
    BY <1>6, FS_AddElement
  <2> QED
    BY <1>3, <1>6, <2>1, <2>2
<1>8. stored' \in Window /\ stored' # NoKey /\ stored'.entries = F
      /\ stored'.expires = time + policy.window + WindowGrace
  <2> HIDE DEF F
  <2>1. time + policy.window + WindowGrace \in Nat
    BY <1>3, <1>4
  <2>2. stored' \in Window
    BY <1>1, <1>7, <2>1 DEF Window
  <2> QED
    BY <1>1, <2>2, SharedLimiterAssumption
<1>9. /\ pc' \in [Requests -> Stages] /\ now' \in [Requests -> Nat]
      /\ \A q \in Requests : CallInv(q)'
  <2> HIDE DEF ok
  <2> QED
    BY <1>1, GotoKeepsCalls DEF Stages
<1>10. /\ grants' \in Seq(Times)
       /\ DOMAIN grants' = IF ok THEN 1 .. Len(grants) + 1 ELSE DOMAIN grants
       /\ \A i \in DOMAIN grants : grants'[i] = grants[i]
       /\ ok => grants'[Len(grants) + 1] = time
  <2> HIDE DEF ok
  <2> QED
    BY <1>1, <1>5
<1>11. SharedTypeOK'
  <2>1. Cardinality(stored'.entries) \in 0 .. policy'.max_requests
    BY <1>1, <1>3, <1>7, <1>8
  <2>2. due' \in SUBSET Nat
    BY WindowDue
  <2> QED
    BY <1>1, <1>2, <1>5, <1>8, <1>9, <1>10, <2>1, <2>2 DEF SharedTypeOK
<1>12. Reach \in Int /\ Reach' = Reach
  BY <1>1, <1>3 DEF Reach
<1>13. ASSUME NEW i \in DOMAIN grants'
       PROVE  grants'[i] \in Nat /\ grants'[i] <= time
              /\ (grants'[i] + Reach <= time \/ Kept(i)')
  <2>1. CASE i \in DOMAIN grants
    <3>1. grants'[i] = grants[i] /\ grants[i] <= time /\ grants[i] \in Nat
      <4>1. grants[i] \in Times
        BY <1>5, <2>1
      <4> QED
        BY <1>10, <1>2, <2>1, <4>1, TokenBucketAssumption DEF SharedInv, EntriesInv, Times
    <3>2. ASSUME ~(grants[i] + Reach <= time)
          PROVE  Kept(i)'
      <4>1. PICK e \in EntriesAt(now[r]) : \E g \in Gateways :
              e.id = i /\ grants[i] - MaxDelay + Skew[g] <= e.score
        BY <1>1, <1>2, <2>1, <3>2, KeptIsFound
      <4>2. e \in stored'.entries
        BY <1>8, <4>1
      <4>3. grants'[i] + policy'.window <= stored'.expires
        BY <1>1, <1>3, <1>4, <1>8, <3>1
      <4> QED
        BY <1>8, <3>1, <4>1, <4>2, <4>3 DEF Kept
    <3> QED
      BY <3>1, <3>2
  <2>2. CASE i \notin DOMAIN grants
    <3>1. ok /\ i = Len(grants) + 1 /\ grants'[i] = time
      <4> HIDE DEF ok
      <4> QED
        BY <1>5, <1>10, <2>2
    <3>2. new \in stored'.entries /\ new.id = i /\ new.score = n
      BY <1>8, <3>1
    <3>3. grants'[i] + policy'.window <= stored'.expires
      BY <1>1, <1>3, <1>4, <1>8, <3>1
    <3>4. grants'[i] - MaxDelay + Skew[At[r]] <= new.score
      BY <1>4, <3>1, <3>2
    <3>5. Kept(i)'
      <4> HIDE DEF new
      <4> QED
        BY <1>4, <1>8, <3>2, <3>3, <3>4 DEF Kept
    <3> QED
      BY <1>4, <3>1, <3>5
  <2> QED
    BY <2>1, <2>2
<1>14. ASSUME NEW a \in Times, NEW b \in Times, b - a < Reach
       PROVE  Cardinality(GrantedIn(a, b)') <= policy.max_requests
  <2>0. a \in Nat /\ b \in Nat
    BY DEF Times
  <2>1. CASE ok /\ time \in a .. b
    <3> DEFINE ids == {e.id : e \in F}
    <3>1. IsFiniteSet(ids) /\ Cardinality(ids) <= Cardinality(F) /\ Cardinality(ids) \in Nat
      <4> HIDE DEF F
      <4> DEFINE f == [e \in F |-> e.id]
      <4>1. f \in Surjection(F, ids)
        BY DEF Surjection
      <4>2. IsFiniteSet(ids) /\ Cardinality(ids) <= Cardinality(F)
        <5> HIDE DEF f, ids
        <5> QED
          BY <1>7, <4>1, FS_Surjection
      <4> QED
        BY <4>2, FS_CardinalityType
    <3>2. GrantedIn(a, b)' \subseteq ids
      <4> SUFFICES ASSUME NEW i \in GrantedIn(a, b)'
                   PROVE  i \in ids
        OBVIOUS
      <4>1. i \in DOMAIN grants' /\ grants'[i] \in a .. b
        BY DEF GrantedIn
      <4>2. ~(grants'[i] + Reach <= time)
        <5>1. grants'[i] \in Nat /\ a <= grants'[i] /\ time <= b
          BY <1>13, <2>0, <2>1, <4>1
        <5> QED
          BY <1>4, <1>12, <1>14, <2>0, <5>1
      <4>3. Kept(i)'
        BY <1>13, <4>1, <4>2
      <4>4. PICK e \in stored'.entries : e.id = i
        BY <4>3 DEF Kept
      <4> HIDE DEF F
      <4> QED
        BY <1>8, <4>4
    <3>3. Cardinality(GrantedIn(a, b)') <= Cardinality(ids) /\ IsFiniteSet(GrantedIn(a, b)')
      <4> HIDE DEF ids
      <4> QED
        BY <3>1, <3>2, FS_Subset
    <3>4. Cardinality(GrantedIn(a, b)') \in Nat
      BY <3>3, FS_CardinalityType
    <3> QED
      BY <1>3, <1>7, <3>1, <3>3, <3>4
  <2>2. CASE ~(ok /\ time \in a .. b)
    <3>1. GrantedIn(a, b)' = GrantedIn(a, b)
      <4>1. ASSUME NEW i \in DOMAIN grants', i \notin DOMAIN grants
            PROVE  grants'[i] \notin a .. b
        <5> HIDE DEF ok
        <5> QED
          BY <1>5, <1>10, <2>2, <4>1
      <4>2. DOMAIN grants \subseteq DOMAIN grants'
        <5> HIDE DEF ok
        <5> QED
          BY <1>5, <1>10
      <4> HIDE DEF ok
      <4> QED
        BY <1>10, <4>1, <4>2 DEF GrantedIn
    <3>2. Cardinality(GrantedIn(a, b)) <= policy.max_requests
      BY <1>1, <1>2, <1>14 DEF SharedInv, EntriesInv, WindowLimit, Reach
    <3> QED
      BY <3>1, <3>2
  <2> QED
    BY <2>1, <2>2
<1>15. WindowLimit'
  <2> SUFFICES ASSUME NEW a \in Times, NEW b \in Times,
                      b - a < policy'.window - MaxDelay - Spread
               PROVE  Cardinality(GrantedIn(a, b)') <= policy'.max_requests
    BY DEF WindowLimit
  <2> QED
    BY <1>1, <1>14 DEF Reach
<1>16. EntriesInv'
  <2> HIDE DEF F
  <2> QED
    BY <1>1, <1>7, <1>8, <1>12, <1>13, <1>15 DEF EntriesInv
<1> QED
  BY <1>2, <1>9, <1>11, <1>16 DEF SharedInv
-----------------------------------------------------------------------------
(* The invariant and what follows from it *)

LEMMA SharedInvInit == SharedInit => SharedInv
<1> USE SharedLimiterAssumption, TokenBucketAssumption
<1> SUFFICES ASSUME SharedInit PROVE SharedInv
  OBVIOUS
<1>1. SharedTypeOK /\ grants = <<>> /\ stored = NoKey
  <2>1. grants \in Seq(Times)
    BY DEF SharedInit
  <2> QED
    BY <2>1 DEF SharedInit, SharedTypeOK, Times, Stages
<1>2. \A r \in Requests : CallInv(r)
  BY DEF SharedInit, CallInv
<1>3. BalanceInv
  BY <1>1 DEF BalanceInv
<1>4. ASSUME ~UsesBucket
      PROVE  EntriesInv
  <2>1. DOMAIN grants = {}
    BY <1>1
  <2>2. \A a, b \in Times : GrantedIn(a, b) = {}
    BY <2>1 DEF GrantedIn
  <2>3. policy.max_requests \in Nat
    BY <1>1, <1>4, PolicyTypes
  <2>4. WindowLimit
    <3>1. Cardinality({}) <= policy.max_requests
      BY <2>3, FS_EmptySet
    <3> QED
      BY <2>2, <3>1 DEF WindowLimit
  <2> QED
    BY <1>1, <2>1, <2>4 DEF EntriesInv
<1> QED
  BY <1>1, <1>2, <1>3, <1>4 DEF SharedInv

LEMMA SharedInvNext == SharedInv /\ [SharedNext]_sharedVars => SharedInv'
<1> SUFFICES ASSUME SharedInv, [SharedNext]_sharedVars PROVE SharedInv'
  OBVIOUS
<1>1. CASE SharedTick
  BY <1>1, SharedTickKeeps
<1>2. ASSUME NEW r \in Requests, Send(r) PROVE SharedInv'
  BY <1>2, SendKeeps
<1>3. ASSUME NEW r \in Requests, Answer(r) \/ FailOpen(r) \/ CallLost(r) PROVE SharedInv'
  BY <1>3, GotoKeeps DEF Answer, FailOpen, CallLost, Stages
<1>4. ASSUME NEW r \in Requests, CallFails(r) PROVE SharedInv'
  BY <1>4, GotoKeeps DEF CallFails, Stages
<1>5. ASSUME NEW r \in Requests, Abandon(r) PROVE SharedInv'
  BY <1>5, GotoKeeps DEF Abandon, Stages
<1>6. ASSUME NEW r \in Requests, TokenBucketScript(r) PROVE SharedInv'
  BY <1>6, BucketScriptKeeps
<1>7. ASSUME NEW r \in Requests, TokenBucketScriptFails(r) PROVE SharedInv'
  BY <1>7, BucketScriptFailsKeeps
<1>8. ASSUME NEW r \in Requests, SlidingWindowScript(r) PROVE SharedInv'
  BY <1>8, WindowScriptKeeps
<1>9. CASE UNCHANGED sharedVars
  <2>1. pc' \in [Requests -> Stages] /\ now' \in [Requests -> Nat]
    BY <1>9 DEF sharedVars, SharedInv, SharedTypeOK
  <2>2. \A q \in Requests : CallInv(q)'
    BY <1>9 DEF sharedVars, SharedInv, CallInv
  <2> QED
    BY <1>9, <2>1, <2>2, WalkKeeps DEF sharedVars
<1> QED
  BY <1>1, <1>2, <1>3, <1>4, <1>5, <1>6, <1>7, <1>8, <1>9 DEF SharedNext

\* Calls are recent, the bucket is in balance and the window knows its grants, in
\* every reachable state of L2 and with any number of gateways and requests.
THEOREM SharedInvariant == SharedSpec => []SharedInv
BY SharedInvInit, SharedInvNext, PTL DEF SharedSpec

\* The scripts keep the bucket between empty and full and the sorted set within
\* max_requests, whatever times their callers send.
THEOREM SharedTypes == SharedSpec => []SharedTypeOK
BY SharedInvariant, PTL DEF SharedInv

\* SLIDING_WINDOW_SCRIPT grants at most max_requests in every interval shorter than
\* the window by the longest delay and the spread of the clocks.
THEOREM WindowLimitHolds == SharedSpec => []WindowLimit
<1>1. SharedInv => WindowLimit
  BY DEF SharedInv, EntriesInv, UsesBucket, WindowLimit
<1> QED
  BY <1>1, SharedInvariant, PTL

\* TOKEN_BUCKET_SCRIPT grants no more than a full bucket and the refill, and the key
\* forgets nothing by expiring.
THEOREM TokenBudgetHolds == SharedSpec => []TokenBudget
<1>1. SharedInv => TokenBudget
  <2> SUFFICES ASSUME SharedInv, UsesBucket, Live, MaxDelay + Spread <= BucketGrace
               PROVE  One * Len(grants) + stored.tokens
                        <= policy.capacity + policy.rate * (stored.last_refill + back)
    BY DEF TokenBudget
  <2>1. policy.capacity \in Nat /\ policy.rate \in Nat
    BY PolicyTypes DEF SharedInv
  <2>2. stored # NoKey /\ stored \in Bucket /\ stored.tokens <= policy.capacity /\ BalanceInv
        /\ back \in Nat
    BY DEF SharedInv, SharedTypeOK, Live
  <2>3. CASE policy.rate > 0
    BY <2>2, <2>3 DEF BalanceInv
  <2>4. CASE policy.rate = 0
    <3>1. grants = <<>>
      BY <2>2, <2>4 DEF BalanceInv
    <3>2. One * Len(grants) = 0
      BY <3>1, TokenBucketAssumption
    <3>3. stored.tokens \in Nat /\ stored.last_refill + back \in Nat
      BY <2>2 DEF Bucket
    <3>4. policy.rate * (stored.last_refill + back) = 0
      BY <2>4, <3>3
    <3> QED
      BY <2>1, <2>2, <3>2, <3>3, <3>4
  <2> QED
    BY <2>1, <2>3, <2>4
<1> QED
  BY <1>1, SharedInvariant, PTL

\* What the last refusal said stays true until another script runs.
LEMMA DueInvNext == SharedInv /\ DueInv /\ [SharedNext]_sharedVars => DueInv'
<1> SUFFICES ASSUME SharedInv, DueInv, [SharedNext]_sharedVars PROVE DueInv'
  OBVIOUS
<1>0. policy' = policy /\ (Grantable' <=> Grantable) /\ (UsesBucket' <=> UsesBucket)
  <2>1. policy' = policy
    BY DEF SharedNext, sharedVars, SharedTick, Send, Answer, CallFails, FailOpen,
           TokenBucketScript, TokenBucketScriptFails, SlidingWindowScript, Abandon, CallLost
  <2> QED
    BY <2>1 DEF Grantable, UsesBucket
<1>1. CASE UNCHANGED <<stored, due>>
  BY <1>0, <1>1 DEF DueInv
<1>2. ASSUME NEW r \in Requests, TokenBucketScript(r) PROVE DueInv'
  <2>1. UsesBucket /\ ~(policy.rate = 0)
    BY <1>2, PolicyTypes DEF TokenBucketScript, SharedInv
  <2> QED
    BY <1>0, <1>2, <2>1, BucketDue DEF DueInv
<1>3. ASSUME NEW r \in Requests, TokenBucketScriptFails(r) PROVE DueInv'
  <2>1. due' = due /\ UsesBucket /\ policy.rate = 0
    BY <1>3 DEF TokenBucketScriptFails
  <2> QED
    BY <1>0, <2>1 DEF DueInv
<1>4. ASSUME NEW r \in Requests, SlidingWindowScript(r) PROVE DueInv'
  <2>1. ~UsesBucket
    BY <1>4 DEF SlidingWindowScript, UsesBucket
  <2> QED
    BY <1>0, <1>4, <2>1, WindowDue DEF DueInv
<1> QED
  BY <1>1, <1>2, <1>3, <1>4 DEF SharedNext, sharedVars, SharedTick, Send, Answer, CallFails,
     FailOpen, Abandon, CallLost

\* A script finds a token in a bucket that had the time for it, or that has expired.
LEMMA BucketRefilled ==
  ASSUME SharedInv, UsesBucket, policy.capacity >= One, NEW n \in Nat,
         NEW t \in Nat, NEW g \in Gateways, t + Skew[g] <= n,
         /\ t + Skew[g] >= stored.last_refill
         /\ stored.tokens + policy.rate * (t + Skew[g] - stored.last_refill) >= One
  PROVE  Tokens(n) >= One
<1> DEFINE tokens == BucketAt(n).tokens
           last == BucketAt(n).last_refill
           elapsed == Elapsed(n, last)
           capacity == policy.capacity
           rate == policy.rate
<1>1. /\ capacity \in Nat /\ rate \in Nat /\ tokens \in Nat /\ tokens <= capacity
      /\ last \in Nat /\ One \in Nat /\ capacity >= One
  <2>1. capacity \in Nat /\ rate \in Nat /\ tokens \in 0 .. capacity /\ last \in Nat
    BY BucketFound
  <2> QED
    BY <2>1, TokenBucketAssumption
<1>2. elapsed \in Nat
  BY <1>1 DEF Elapsed
<1>3. Tokens(n) = Refill(tokens, capacity, rate, elapsed)
  BY DEF Tokens
<1>4. CASE ~Live
  <2>1. tokens = capacity
    BY <1>4 DEF BucketAt
  <2> HIDE DEF tokens, capacity, rate, elapsed
  <2>2. rate * elapsed \in Nat
    BY <1>1, <1>2
  <2>3. Refill(tokens, capacity, rate, elapsed) = capacity
        \/ Refill(tokens, capacity, rate, elapsed) = tokens + rate * elapsed
    BY <1>1, <1>2, RefillWithin
  <2> QED
    BY <1>1, <1>3, <2>1, <2>2, <2>3
<1>5. CASE Live
  <2>1. tokens = stored.tokens /\ last = stored.last_refill
    BY <1>5 DEF BucketAt
  <2>2. t + Skew[g] >= last /\ tokens + rate * (t + Skew[g] - last) >= One
    BY <2>1
  <2> HIDE DEF tokens, capacity, rate, last
  <2>3. PICK d \in Int : d = t + Skew[g] - last
    BY <1>1, SharedLimiterAssumption
  <2>4. elapsed >= d
    BY <1>1, <2>2, <2>3, SharedLimiterAssumption DEF Elapsed
  <2> HIDE DEF elapsed
  <2>5. rate * elapsed >= rate * d /\ rate * elapsed \in Int /\ rate * d \in Int
    <3>1. \A x \in Nat, y, z \in Int : y >= z => x * y >= x * z
      OBVIOUS
    <3> QED
      BY <1>1, <1>2, <2>3, <2>4, <3>1
  <2>6. tokens + rate * elapsed >= One
    BY <1>1, <2>2, <2>3, <2>5
  <2>7. Refill(tokens, capacity, rate, elapsed) = capacity
        \/ Refill(tokens, capacity, rate, elapsed) = tokens + rate * elapsed
    BY <1>1, <1>2, RefillWithin
  <2> QED
    BY <1>1, <1>3, <2>6, <2>7
<1> QED
  BY <1>4, <1>5

\* A script finds room in a window that an entry has left, or that has expired.
LEMMA WindowMoved ==
  ASSUME SharedInv, ~UsesBucket, policy.max_requests > 0, NEW n \in Nat,
         NEW t \in Nat, NEW g \in Gateways, t + Skew[g] <= n,
         \E e \in stored.entries : e.score <= t + Skew[g] - policy.window
  PROVE  Cardinality(EntriesAt(n)) < policy.max_requests
<1>1. policy.max_requests \in Nat /\ policy.window \in Nat
  BY PolicyTypes DEF SharedInv
<1>2. CASE ~Live
  <2>1. EntriesAt(n) = {}
    BY <1>2 DEF EntriesAt
  <2> QED
    BY <1>1, <2>1, FS_EmptySet
<1>3. CASE Live
  <2> DEFINE S == stored.entries
             P == EntriesAt(n)
  <2>1. S \subseteq Member /\ IsFiniteSet(S) /\ Cardinality(S) \in 0 .. policy.max_requests
    BY <1>3 DEF SharedInv, SharedTypeOK, EntriesInv, Live, Window
  <2>2. PICK e \in S : e.score <= t + Skew[g] - policy.window
    OBVIOUS
  <2>3. e.score \in Nat
    BY <2>1 DEF Member
  <2>4. ~(e.score > n - policy.window)
    BY <1>1, <2>2, <2>3, SharedLimiterAssumption
  <2>5. P \subseteq S \ {e}
    BY <1>3, <2>4 DEF EntriesAt, Pruned
  <2> HIDE DEF S, P
  <2>6. IsFiniteSet(S \ {e}) /\ Cardinality(S \ {e}) = Cardinality(S) - 1
    BY <2>1, <2>2, FS_RemoveElement
  <2>7. IsFiniteSet(P) /\ Cardinality(P) <= Cardinality(S \ {e})
    BY <2>5, <2>6, FS_Subset
  <2>8. Cardinality(P) \in Nat
    BY <2>7, FS_CardinalityType
  <2>9. Cardinality(P) < policy.max_requests
    BY <1>1, <2>1, <2>6, <2>7, <2>8
  <2> QED
    BY <2>9 DEF P
<1> QED
  BY <1>2, <1>3

\* Only a script refuses a call that is under way, and its own.
LEMMA OnlyScriptsDeny ==
  ASSUME SharedInv, SharedNext, NEW r \in Requests, pc[r] = "sent", pc'[r] = "denied"
  PROVE  TokenBucketScript(r) \/ SlidingWindowScript(r)
<1>1. pc \in [Requests -> Stages]
  BY DEF SharedInv, SharedTypeOK
<1>2. ~SharedTick
  BY DEF SharedTick
<1>3. ASSUME NEW q \in Requests,
             \/ Send(q) \/ Answer(q) \/ CallFails(q) \/ FailOpen(q)
             \/ TokenBucketScriptFails(q) \/ Abandon(q) \/ CallLost(q)
      PROVE  FALSE
  BY <1>1, <1>3 DEF Send, Answer, CallFails, FailOpen, TokenBucketScriptFails, Abandon,
                    CallLost, Return, Goto
<1>4. ASSUME NEW q \in Requests, TokenBucketScript(q) \/ SlidingWindowScript(q)
      PROVE  q = r
  BY <1>1, <1>4 DEF TokenBucketScript, SlidingWindowScript, Return, Goto
<1> QED
  BY <1>2, <1>3, <1>4 DEF SharedNext

\* Retry-After is short by less than a second and the spread of the clocks: a client
\* that waits for both is granted if nobody else comes in between, at any gateway.
THEOREM RetriesAreEnough == SharedSpec => RetryIsEnough
<1> DEFINE Early(r) == \A t \in due : now[r] - Skew[At[r]] < t
<1>1. ASSUME SharedInv, DueInv, SharedNext, NEW r \in Requests, Grantable,
             pc[r] = "sent", pc'[r] = "denied"
      PROVE  Early(r)
  <2> SUFFICES ASSUME NEW t \in due, ~(now[r] - Skew[At[r]] < t)
               PROVE  FALSE
    OBVIOUS
  <2>1. pc \in [Requests -> Stages] /\ now[r] \in Nat /\ t \in Nat
    BY <1>1 DEF SharedInv, SharedTypeOK
  <2>2. At[r] \in Gateways /\ Skew[At[r]] \in Nat
    BY SharedLimiterAssumption
  <2>3. t + Skew[At[r]] <= now[r]
    BY <2>1, <2>2
  <2>4. CASE TokenBucketScript(r)
    <3>1. UsesBucket /\ pc'[r] = IF Tokens(now[r]) >= One THEN "granted" ELSE "denied"
      BY <1>1, <2>1, <2>4 DEF TokenBucketScript, Return, Goto
    <3>2. /\ t + Skew[At[r]] >= stored.last_refill
          /\ stored.tokens + policy.rate * (t + Skew[At[r]] - stored.last_refill) >= One
      BY <1>1, <2>2, <3>1, Zenon DEF DueInv
    <3>3. policy.capacity >= One
      BY <1>1, <3>1 DEF Grantable
    <3>4. Tokens(now[r]) >= One
      BY <1>1, <2>1, <2>2, <2>3, <3>1, <3>2, <3>3, BucketRefilled
    <3> QED
      BY <1>1, <3>1, <3>4
  <2>5. CASE SlidingWindowScript(r)
    <3>1. ~UsesBucket
          /\ pc'[r] = IF Cardinality(EntriesAt(now[r])) < policy.max_requests
                      THEN "granted" ELSE "denied"
      BY <1>1, <2>1, <2>5 DEF SlidingWindowScript, Return, Goto, UsesBucket
    <3>2. \E e \in stored.entries : e.score <= t + Skew[At[r]] - policy.window
      BY <1>1, <2>2, <3>1, Zenon DEF DueInv
    <3>3. policy.max_requests > 0
      BY <1>1, <3>1 DEF Grantable
    <3>4. Cardinality(EntriesAt(now[r])) < policy.max_requests
      BY <1>1, <2>1, <2>2, <2>3, <3>1, <3>2, <3>3, WindowMoved
    <3> QED
      BY <1>1, <3>1, <3>4
  <2> QED
    BY <1>1, <2>4, <2>5, OnlyScriptsDeny
<1> DEFINE AllEarly == \A r \in Requests :
             Grantable /\ pc[r] = "sent" /\ pc'[r] = "denied" => Early(r)
<1>2. SharedInv /\ DueInv /\ [SharedNext]_sharedVars => [AllEarly]_sharedVars
  BY <1>1
<1>3. [][AllEarly]_sharedVars => RetryIsEnough
  BY DEF RetryIsEnough
<1>4. SharedInit => DueInv
  BY DEF SharedInit, DueInv
<1> QED
  BY <1>2, <1>3, <1>4, SharedInvariant, DueInvNext, PTL DEF SharedSpec
=============================================================================
