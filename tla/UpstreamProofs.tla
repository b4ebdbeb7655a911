---------------------------- MODULE UpstreamProofs ----------------------------
(***************************************************************************)
(* Proofs about one upstream pool, for every configuration, algorithm,     *)
(* machine word and finite set of requests.  First the arithmetic of       *)
(* counters that wrap and of the recursive sums, then what the three       *)
(* algorithms may choose, then the inductive invariant: where a request    *)
(* stands determines what it has selected, what it has sent and whether    *)
(* it counts as a connection.                                              *)
(***************************************************************************)
EXTENDS Upstream, FiniteSetTheorems, SequenceTheorems, WellFoundedInduction, TLAPS

-----------------------------------------------------------------------------
(* Numbers *)

\* The least-number principle.
LEMMA LeastNat ==
  ASSUME NEW T \in SUBSET Nat, T # {}
  PROVE  \E x \in T : \A y \in T : x <= y
<1> DEFINE R == OpToRel(<, Nat)
<1>1. IsWellFoundedOn(R, Nat)
  BY NatLessThanWellFounded
<1>2. \A x, y \in Nat : y < x => <<y, x>> \in R
  BY DEF OpToRel
<1> HIDE DEF R
<1>3. PICK x \in T : \A y \in T : ~(<<y, x>> \in R)
  BY <1>1, WFMin
<1>4. ASSUME NEW y \in T
      PROVE  x <= y
  <2>1. x \in Nat /\ y \in Nat
    OBVIOUS
  <2>2. ~(y < x)
    BY <1>2, <1>3, <2>1
  <2>3. QED
    BY <2>1, <2>2
<1>5. QED
  BY <1>4

\* A set of numbers has a minimum, which Min finds.
LEMMA MinFound ==
  ASSUME NEW T \in SUBSET Nat, T # {}
  PROVE  Min(T) \in T
BY LeastNat DEF Min

LEMMA DivMod ==
  ASSUME NEW w \in Nat \ {0}, NEW c \in Int
  PROVE  /\ c % w \in 0 .. w - 1 /\ c \div w \in Int
         /\ c = w * (c \div w) + (c % w)
OBVIOUS

\* Remainders are unique.
LEMMA ModUnique ==
  ASSUME NEW w \in Nat \ {0}, NEW q \in Int, NEW p \in Int,
         NEW r \in 0 .. w - 1, NEW s \in 0 .. w - 1,
         w * q + r = w * p + s
  PROVE  r = s
<1>1. CASE q = p
  BY <1>1
<1>2. CASE q < p
  <2>1. w * (p - q) >= w
    BY <1>2
  <2>2. w * (p - q) = r - s
    OBVIOUS
  <2>3. QED
    BY <2>1, <2>2
<1>3. CASE p < q
  <2>1. w * (q - p) >= w
    BY <1>3
  <2>2. w * (q - p) = s - r
    OBVIOUS
  <2>3. QED
    BY <2>1, <2>2
<1>4. QED
  BY <1>1, <1>2, <1>3

\* A counter that wraps may be read modulo the word at any time.
LEMMA ModShift ==
  ASSUME NEW w \in Nat \ {0}, NEW c \in Int, NEW d \in Int, NEW k \in Int
  PROVE  ((c % w) + d + w * k) % w = (c + d) % w
<1> DEFINE b == (c % w) + d + w * k
           q1 == c \div w
           q2 == b \div w
           q3 == (c + d) \div w
<1>0. b \in Int /\ c + d \in Int
  BY DivMod
<1>1. c = w * q1 + (c % w) /\ q1 \in Int
  BY DivMod
<1>2. b = w * q2 + (b % w) /\ q2 \in Int /\ b % w \in 0 .. w - 1
  BY <1>0, DivMod
<1>3. /\ c + d = w * q3 + ((c + d) % w) /\ q3 \in Int
      /\ (c + d) % w \in 0 .. w - 1
  BY <1>0, DivMod
<1>4. c + d = w * q1 + b - w * k
  BY <1>1, DivMod
<1> HIDE DEF b, q1, q2, q3
<1>5. c + d = w * (q1 + q2 - k) + (b % w)
  BY <1>0, <1>1, <1>2, <1>4
<1>6. q1 + q2 - k \in Int
  BY <1>1, <1>2
<1>7. QED
  BY <1>2, <1>3, <1>5, <1>6, ModUnique DEF b

\* Incrementing and decrementing a wrapped counter.
LEMMA WrapUp ==
  ASSUME NEW w \in Nat \ {0}, NEW c \in Nat
  PROVE  ((c % w) + 1) % w = (c + 1) % w
<1>0. c \in Int /\ 1 \in Int /\ 0 \in Int
  OBVIOUS
<1>1. ((c % w) + 1 + w * 0) % w = (c + 1) % w
  BY <1>0, ModShift, Zenon
<1>2. (c % w) + 1 + w * 0 = (c % w) + 1
  BY DivMod
<1>3. QED
  BY <1>1, <1>2

LEMMA WrapDown ==
  ASSUME NEW w \in Nat \ {0}, NEW c \in Nat
  PROVE  (((c + 1) % w) - 1 + w) % w = c % w
<1>1. (((c + 1) % w) + (-1) + w * 1) % w = ((c + 1) + (-1)) % w
  BY ModShift
<1>2. /\ ((c + 1) % w) + (-1) + w * 1 = ((c + 1) % w) - 1 + w
      /\ (c + 1) + (-1) = c
  BY DivMod
<1>3. QED
  BY <1>1, <1>2

-----------------------------------------------------------------------------
(* Recursive sums *)

\* Induction over the numbers in a set.
LEMMA SetInduction ==
  ASSUME NEW G, 0 \in G, \A n \in Nat : n \in G => n + 1 \in G
  PROVE  Nat \subseteq G
<1> SUFFICES ASSUME Nat \ G # {} PROVE FALSE
  OBVIOUS
<1>1. PICK n \in Nat \ G : \A k \in Nat \ G : n <= k
  BY LeastNat
<1>2. n # 0 /\ n - 1 \in Nat
  BY <1>1
<1>3. n - 1 \in G
  BY <1>1, <1>2
<1>4. QED
  BY <1>1, <1>2, <1>3

\* A function computed step by step from number to number has number values.
LEMMA StepByStep ==
  ASSUME NEW f, NEW n \in Nat, f[0] \in Nat,
         \A j \in 1 .. n : f[j - 1] \in Nat => f[j] \in Nat
  PROVE  \A j \in 0 .. n : f[j] \in Nat
<1> DEFINE G == {j \in Nat : j <= n => f[j] \in Nat}
<1>1. 0 \in G
  OBVIOUS
<1>2. ASSUME NEW j \in Nat, j \in G PROVE j + 1 \in G
  BY <1>2
<1>3. Nat \subseteq G
  <2> HIDE DEF G
  <2> QED
    BY <1>1, <1>2, SetInduction
<1>4. QED
  BY <1>3

\* f is computed by f[j] = m * f[j - 1] + d[j], from a.
Recurrence(f, a, m, d, n) ==
  f = [j \in 0 .. n |-> IF j = 0 THEN a ELSE m * f[j - 1] + d[j]]

\* Such a function exists, and its values are numbers.
LEMMA RecurrenceSolved ==
  ASSUME NEW a \in Nat, NEW m \in Nat, NEW d \in [Nat -> Nat], NEW n \in Nat
  PROVE  \E f \in [0 .. n -> Nat] : Recurrence(f, a, m, d, n)
<1> DEFINE G == {k \in Nat : \E f : Recurrence(f, a, m, d, k)}
<1>1. 0 \in G
  <2>1. Recurrence([j \in 0 .. 0 |-> a], a, m, d, 0)
    BY DEF Recurrence
  <2>2. QED
    BY <2>1
<1>2. ASSUME NEW k \in Nat, k \in G PROVE k + 1 \in G
  <2>1. PICK f : Recurrence(f, a, m, d, k)
    BY <1>2
  <2> DEFINE g == [j \in 0 .. k + 1 |-> IF j <= k THEN f[j] ELSE m * f[k] + d[k + 1]]
  <2>2. ASSUME NEW j \in 0 .. k + 1
        PROVE  g[j] = IF j = 0 THEN a ELSE m * g[j - 1] + d[j]
    <3>1. CASE j = 0
      BY <2>1, <3>1 DEF Recurrence
    <3>2. CASE j # 0 /\ j <= k
      <4>1. j \in 0 .. k /\ j - 1 \in 0 .. k + 1 /\ j - 1 <= k
        BY <3>2
      <4>2. f[j] = m * f[j - 1] + d[j]
        BY <2>1, <3>2, <4>1 DEF Recurrence
      <4>3. g[j] = f[j] /\ g[j - 1] = f[j - 1]
        BY <3>2, <4>1
      <4> HIDE DEF g
      <4>4. QED
        BY <3>2, <4>2, <4>3
    <3>3. CASE j = k + 1
      BY <3>3
    <3>4. QED
      BY <3>1, <3>2, <3>3
  <2>3. Recurrence(g, a, m, d, k + 1)
    BY <2>2 DEF Recurrence
  <2>4. QED
    BY <2>3
<1>3. n \in G
  <2> HIDE DEF G
  <2> QED
    BY <1>1, <1>2, SetInduction
<1>4. PICK f : Recurrence(f, a, m, d, n)
  BY <1>3
<1> HIDE DEF G
<1>5. \A j \in 0 .. n : f[j] = IF j = 0 THEN a ELSE m * f[j - 1] + d[j]
  BY <1>4 DEF Recurrence
<1>6. \A j \in 0 .. n : f[j] \in Nat
  <2>1. f[0] \in Nat
    BY <1>5
  <2>2. ASSUME NEW j \in 1 .. n, f[j - 1] \in Nat PROVE f[j] \in Nat
    <3>1. j \in 0 .. n /\ j # 0 /\ d[j] \in Nat
      OBVIOUS
    <3>2. f[j] = m * f[j - 1] + d[j]
      BY <1>5, <3>1
    <3>3. m * f[j - 1] \in Nat
      BY <2>2
    <3>4. QED
      BY <3>1, <3>2, <3>3
  <2>3. QED
    BY <2>1, <2>2, StepByStep
<1>7. f \in [0 .. n -> Nat]
  <2>1. f = [j \in 0 .. n |-> IF j = 0 THEN a ELSE m * f[j - 1] + d[j]]
    BY <1>4 DEF Recurrence
  <2>2. f = [j \in 0 .. n |-> f[j]]
    BY <1>5, <2>1
  <2>3. QED
    BY <1>6, <2>2
<1>8. QED
  BY <1>4, <1>7

\* The sum of some weights is a machine integer.
LEMMA WeightUpToWord ==
  ASSUME NEW list \in SUBSET Nat, NEW w, \A e \in list : w[e] \in Nat, NEW n \in Nat
  PROVE  WeightUpTo(list, w, n) \in 0 .. Word - 1
<1> DEFINE d == [j \in Nat |-> IF j \in list THEN w[j] ELSE 0]
           Sum(f) == f = [j \in 0 .. n |->
                            IF j = 0 THEN 0
                            ELSE f[j - 1] + (IF j \in list THEN w[j] ELSE 0)]
           acc == CHOOSE f : Sum(f)
<1>1. d \in [Nat -> Nat]
  OBVIOUS
<1>2. PICK f \in [0 .. n -> Nat] : Recurrence(f, 0, 1, d, n)
  BY <1>1, RecurrenceSolved
<1>3. Sum(f)
  BY <1>2 DEF Recurrence
<1>4. Sum(acc)
  BY <1>3
<1>5. acc[n] \in Nat
  <2> HIDE DEF acc, d
  <2>1. \A j \in 0 .. n : acc[j] = IF j = 0 THEN 0
                                   ELSE acc[j - 1] + (IF j \in list THEN w[j] ELSE 0)
    BY <1>4
  <2> HIDE DEF Sum
  <2>2. acc[0] \in Nat
    BY <2>1
  <2>3. ASSUME NEW j \in 1 .. n, acc[j - 1] \in Nat PROVE acc[j] \in Nat
    <3>1. j \in 0 .. n /\ j # 0 /\ (IF j \in list THEN w[j] ELSE 0) \in Nat
      OBVIOUS
    <3>2. acc[j] = acc[j - 1] + (IF j \in list THEN w[j] ELSE 0)
      BY <2>1, <3>1
    <3>3. QED
      BY <2>3, <3>1, <3>2
  <2>4. \A j \in 1 .. n : acc[j - 1] \in Nat => acc[j] \in Nat
    BY <2>3
  <2>5. \A j \in 0 .. n : acc[j] \in Nat
    BY <2>2, <2>4, StepByStep
  <2>6. n \in 0 .. n
    OBVIOUS
  <2>7. QED
    BY <2>5, <2>6
<1>6. WeightUpTo(list, w, n) = acc[n] % Word
  BY DEF WeightUpTo
<1>7. PICK sum \in Nat : sum = acc[n]
  BY <1>5
<1> HIDE DEF acc
<1>8. sum % Word \in 0 .. Word - 1
  BY WordAssumption
<1>9. QED
  BY <1>6, <1>7, <1>8

\* The backoff is a machine integer.
LEMMA BaseMsWord ==
  ASSUME NEW backoff \in Nat, NEW k \in Nat
  PROVE  BaseMs(backoff, k) \in 0 .. Word - 1
<1> DEFINE d == [j \in Nat |-> 0]
           Doubling(f) == f = [j \in 0 .. k |-> IF j = 0 THEN backoff ELSE 2 * f[j - 1]]
           acc == CHOOSE f : Doubling(f)
<1>1. d \in [Nat -> Nat]
  OBVIOUS
<1>2. PICK f \in [0 .. k -> Nat] : Recurrence(f, backoff, 2, d, k)
  BY <1>1, RecurrenceSolved
<1>3. Doubling(f)
  <2>1. f = [j \in 0 .. k |-> IF j = 0 THEN backoff ELSE 2 * f[j - 1] + d[j]]
    BY <1>2 DEF Recurrence
  <2>2. ASSUME NEW j \in 0 .. k
        PROVE  (IF j = 0 THEN backoff ELSE 2 * f[j - 1] + d[j])
                 = IF j = 0 THEN backoff ELSE 2 * f[j - 1]
    <3>1. CASE j # 0
      <4>1. d[j] = 0 /\ j - 1 \in 0 .. k
        BY <3>1
      <4>2. f[j - 1] \in Nat
        BY <4>1
      <4> HIDE DEF d
      <4>3. QED
        BY <3>1, <4>1, <4>2
    <3>2. QED
      BY <3>1
  <2> HIDE DEF d, acc
  <2>3. QED
    BY <2>1, <2>2
<1>4. Doubling(acc)
  BY <1>3
<1>5. acc[k] \in Nat
  <2> HIDE DEF acc, d
  <2>1. \A j \in 0 .. k : acc[j] = IF j = 0 THEN backoff ELSE 2 * acc[j - 1]
    BY <1>4
  <2> HIDE DEF Doubling
  <2>2. acc[0] \in Nat
    BY <2>1
  <2>3. ASSUME NEW j \in 1 .. k, acc[j - 1] \in Nat PROVE acc[j] \in Nat
    <3>1. j \in 0 .. k /\ j # 0
      OBVIOUS
    <3>2. acc[j] = 2 * acc[j - 1]
      BY <2>1, <3>1
    <3>3. QED
      BY <2>3, <3>2
  <2>4. \A j \in 1 .. k : acc[j - 1] \in Nat => acc[j] \in Nat
    BY <2>3
  <2>5. \A j \in 0 .. k : acc[j] \in Nat
    BY <2>2, <2>4, StepByStep
  <2>6. k \in 0 .. k
    OBVIOUS
  <2>7. QED
    BY <2>5, <2>6
<1>6. BaseMs(backoff, k) = acc[k] % Word
  BY DEF BaseMs
<1> HIDE DEF acc
<1>7. acc[k] % Word \in 0 .. Word - 1
  <2>1. PICK v : v = acc[k]
    OBVIOUS
  <2>2. v \in Int
    BY <1>5, <2>1
  <2>3. v % Word \in 0 .. Word - 1
    BY <2>2, DivMod, WordAssumption
  <2>4. QED
    BY <2>1, <2>3
<1>8. QED
  BY <1>6, <1>7

\* The sleep before a retry is one too.
LEMMA SleepMsWord ==
  ASSUME NEW base \in 0 .. Word - 1, NEW nanos \in Nat
  PROVE  SleepMs(base, nanos) \in 0 .. Word - 1
<1> DEFINE q == Quarter(base)
           jitter == ((nanos % (2 * q)) - q + Word) % Word
<1>1. q \in Nat \ {0}
  BY WordAssumption DEF Quarter, Max
<1> HIDE DEF q
<1>2. jitter \in 0 .. Word - 1
  <2>1. nanos % (2 * q) \in Int
    BY <1>1, DivMod
  <2>2. QED
    BY <1>1, <2>1, DivMod, WordAssumption
<1>3. SleepMs(base, nanos) = Saturate(base + jitter)
  BY DEF SleepMs, q
<1> HIDE DEF jitter
<1>4. QED
  BY <1>2, <1>3, WordAssumption DEF Saturate

-----------------------------------------------------------------------------
(* What the algorithms choose *)

\* Endpoints are numbers, finitely many.
LEMMA PoolNumbers ==
  /\ Pool \subseteq 1 .. Len(Configured) /\ Len(Configured) \in Nat
  /\ Pool \subseteq Nat /\ IsFiniteSet(Pool)
  /\ \A e \in Pool : Configured[e].weight \in Nat
<1>1. Configured \in Seq(EndpointConfig) /\ Len(Configured) \in Nat
  BY UpstreamAssumption
<1>2. Pool \subseteq 1 .. Len(Configured)
  BY <1>1 DEF Pool
<1>3. IsFiniteSet(Pool)
  <2>1. IsFiniteSet(1 .. Len(Configured))
    BY <1>1, FS_Interval
  <2>2. QED
    BY <1>2, <2>1, FS_Subset
<1>4. \A e \in Pool : Configured[e].weight \in Nat
  <2>1. \A e \in 1 .. Len(Configured) : Configured[e] \in EndpointConfig
    BY <1>1, ElementOfSeq
  <2>2. QED
    BY <1>2, <2>1, WordAssumption DEF EndpointConfig
<1>5. QED
  BY <1>1, <1>2, <1>3, <1>4

LEMMA WrrWalkChooses ==
  ASSUME NEW list \in SUBSET Nat, list # {}, NEW w, NEW sum, NEW t
  PROVE  WrrWalk(list, w, sum, t) \in list
<1> DEFINE reached == {e \in list : (t % Word) % sum < WeightUpTo(list, w, e)}
<1>1. WrrWalk(list, w, sum, t) = IF sum = 0 \/ reached = {} THEN Min(list) ELSE Min(reached)
  BY DEF WrrWalk
<1>2. reached \subseteq list
  OBVIOUS
<1> HIDE DEF reached
<1>3. reached # {} => Min(reached) \in list
  BY <1>2, MinFound
<1>4. Min(list) \in list
  BY MinFound
<1>5. QED
  BY <1>1, <1>3, <1>4

LEMMA LeastPickChooses ==
  ASSUME NEW list \in SUBSET Nat, list # {}, NEW score, \A e \in list : score[e] \in Nat
  PROVE  LeastPick(list, score) \in list
<1> DEFINE scores == {score[e] : e \in list}
           least == {e \in list : \A f \in list : score[e] <= score[f]}
<1>1. scores \subseteq Nat /\ scores # {}
  OBVIOUS
<1>2. PICK x \in scores : \A y \in scores : x <= y
  BY <1>1, LeastNat
<1>3. least # {} /\ least \subseteq list
  BY <1>2
<1>4. Min(least) \in least
  <2> HIDE DEF least
  <2> QED
    BY <1>3, MinFound
<1>5. QED
  BY <1>4 DEF LeastPick

\* The last of some endpoints has all the others before it, so each place up to
\* their number is taken.
LEMMA NthChooses ==
  ASSUME NEW b \in Nat, NEW list \in SUBSET (0 .. b), list # {}, IsFiniteSet(list),
         NEW n \in 0 .. Cardinality(list) - 1
  PROVE  Nth(list, n) \in list
<1> DEFINE bounds == {x \in Nat : \A f \in list : f <= x}
           far == {e \in list : Cardinality({f \in list : f < e}) >= n}
<1>0. \A f \in list : f \in Nat /\ f <= b
  OBVIOUS
<1>1. bounds \subseteq Nat /\ b \in bounds
  BY <1>0
<1>2. PICK last \in bounds : \A x \in bounds : last <= x
  BY <1>1, LeastNat
<1>3. last \in list
  <2> SUFFICES ASSUME last \notin list PROVE FALSE
    OBVIOUS
  <2>1. last \in Nat /\ \A f \in list : f \in Nat /\ f <= last /\ f # last
    BY <1>0, <1>2
  <2>2. last - 1 \in Nat /\ \A f \in list : f <= last - 1
    <3> HIDE DEF bounds
    <3>0. PICK f : f \in list
      OBVIOUS
    <3>1. f < last
      BY <2>1, <3>0
    <3>2. last # 0 /\ last - 1 \in Nat
      BY <2>1, <3>0, <3>1
    <3>3. \A g \in list : g <= last - 1
      BY <2>1
    <3>4. QED
      BY <3>2, <3>3
  <2>3. last - 1 \in bounds /\ ~(last <= last - 1)
    BY <2>1, <2>2
  <2>4. QED
    BY <1>2, <2>3
<1>4. {f \in list : f < last} = list \ {last}
  <2>1. last \in Nat /\ \A f \in list : f \in Nat /\ f <= last
    BY <1>0, <1>2
  <2> HIDE DEF bounds
  <2>2. \A f \in list : f < last <=> f # last
    BY <2>1
  <2>3. QED
    BY <2>2
<1>5. Cardinality(list \ {last}) = Cardinality(list) - 1 /\ Cardinality(list) \in Nat
  BY <1>3, FS_RemoveElement, FS_CardinalityType
<1>6. far # {} /\ far \subseteq Nat
  <2>1. Cardinality({f \in list : f < last}) >= n
    BY <1>4, <1>5
  <2>2. last \in far /\ far \subseteq list
    BY <1>3, <2>1
  <2> HIDE DEF far
  <2>3. QED
    BY <1>0, <2>2
<1>7. Min(far) \in far
  <2> HIDE DEF far
  <2> QED
    BY <1>6, MinFound
<1>8. QED
  BY <1>7 DEF Nth

LEMMA HashPickChooses ==
  ASSUME NEW b \in Nat, NEW list \in SUBSET (0 .. b), list # {}, IsFiniteSet(list),
         NEW h \in Nat, NEW v \in Nat \ {0}
  PROVE  HashPick(list, h, v) \in list
<1> DEFINE size == Cardinality(list)
           place == ((h % (size * v)) \div v) % size
<1>1. size \in Nat \ {0}
  BY FS_CardinalityType, FS_EmptySet
<1> HIDE DEF size
<1>2. size * v \in Nat \ {0}
  BY <1>1
<1>3. PICK x : x = h % (size * v)
  OBVIOUS
<1>4. x \in Int
  BY <1>2, <1>3, DivMod
<1>5. place \in 0 .. size - 1
  <2>1. PICK y : y = x \div v
    OBVIOUS
  <2>2. y \in Int
    BY <1>4, <2>1, DivMod
  <2>3. y % size \in 0 .. size - 1
    BY <1>1, <2>2, DivMod
  <2>4. QED
    BY <1>3, <2>1, <2>3
<1> HIDE DEF place
<1>6. Nth(list, place) \in list
  BY <1>5, NthChooses DEF size
<1>7. QED
  BY <1>6 DEF HashPick, size, place

\* The average of an earlier average and a sample lies between the two.
LEMMA EwmaBetween ==
  ASSUME NEW o \in Nat, NEW s \in Nat
  PROVE  /\ Ewma(o, s) \in Nat
         /\ o = 0 => Ewma(o, s) = s
         /\ o # 0 => \/ o <= Ewma(o, s) /\ Ewma(o, s) <= s
                     \/ s <= Ewma(o, s) /\ Ewma(o, s) <= o
BY DEF Ewma

-----------------------------------------------------------------------------
(* The inductive invariant *)

Chosen == {"picked", "attempt", "backoff", "body", "ending", "load", "store", "done",
           "cancelled"}

\* Where a request stands determines what it has selected and what it has sent:
\* it only leaves "attempt" for a retry when attempts remain and the last one
\* was answered.
RequestInv(q) ==
  /\ pc[q] \in Chosen \cup {"sum", "pick"} => avail[q] # {}
  /\ pc[q] \in Chosen => ep[q] \in avail[q]
  /\ pc[q] \notin Chosen => ep[q] = NoEndpoint
  /\ pc[q] \notin Chosen \ {"picked"} => log[q] = <<>> /\ attempt[q] = 0
  /\ pc[q] = "attempt" => attempt[q] = Len(log[q])
  /\ pc[q] = "backoff" => attempt[q] + 1 = Len(log[q])
  /\ pc[q] \in {"attempt", "backoff"} =>
       Len(log[q]) < MaxAttempts /\ \A i \in 1 .. Len(log[q]) : log[q][i] = "status"
  /\ Len(log[q]) <= MaxAttempts
  /\ \A i \in 1 .. Len(log[q]) - 1 : log[q][i] = "status"

Within(v) == v # 0 => \E lo, hi \in Samples : lo <= v /\ v <= hi

\* An average that a request has loaded is one that some endpoint had.
AveragesWithin ==
  /\ \A e \in Pool : Within(ewma[e])
  /\ \A q \in Requests : Within(old[q])

\* The requests whose future was dropped on an endpoint.
CancelledOn(e) == {q \in Requests : ep[q] = e /\ pc[q] = "cancelled"}

\* A cancelled request is never subtracted again, so that the sum of both is kept.
ConnsInv ==
  \A e \in Pool :
    conns[e] = (Cardinality(InFlightOn(e)) + Cardinality(CancelledOn(e))) % Word

UpstreamInv ==
  /\ TypeOK
  /\ \A q \in Requests : RequestInv(q)
  /\ AveragesWithin
  /\ ConnsInv

-----------------------------------------------------------------------------
(* Each step preserves it *)

\* An algorithm chooses one of the endpoints it was given.
LEMMA ChoiceAvailable ==
  ASSUME TypeOK, NEW q \in Requests, avail[q] # {}
  PROVE  Choice(q) \in avail[q]
<1>1. /\ avail[q] \subseteq Pool /\ avail[q] \subseteq Nat
      /\ avail[q] \subseteq 0 .. Len(Configured) /\ IsFiniteSet(avail[q])
  <2>1. avail[q] \subseteq Pool
    BY DEF TypeOK
  <2>2. 1 .. Len(Configured) \subseteq 0 .. Len(Configured)
    BY PoolNumbers
  <2>3. QED
    BY <2>1, <2>2, PoolNumbers, FS_Subset
<1>2. algorithm \in {"wrr", "least", "hash"}
  BY UpstreamAssumption DEF TypeOK
<1>3. CASE algorithm = "wrr"
  <2>1. WrrWalk(avail[q], Weights, total[q], ticket) \in avail[q]
    BY <1>1, WrrWalkChooses
  <2>2. QED
    BY <1>3, <2>1 DEF Choice
<1>4. CASE algorithm = "least"
  <2> DEFINE score == [e \in Pool |-> Score(conns[e], ewma[e], health[e])]
  <2>1. ASSUME NEW e \in Pool PROVE score[e] \in Nat
    <3>1. conns[e] \in Nat /\ ewma[e] \in Nat
      BY WordAssumption DEF TypeOK
    <3>2. BaseScore(conns[e], ewma[e]) \in Nat
      <4>1. conns[e] * ewma[e] \in Nat
        BY <3>1
      <4>2. QED
        BY <3>1, <4>1, WordAssumption DEF BaseScore, Saturate
    <3>3. Score(conns[e], ewma[e], health[e]) \in Nat
      BY <3>2, WordAssumption DEF Score, Saturate
    <3>4. QED
      BY <3>3
  <2>2. LeastPick(avail[q], score) \in avail[q]
    <3> HIDE DEF score
    <3> QED
      BY <1>1, <2>1, LeastPickChooses
  <2>3. QED
    BY <1>4, <2>2 DEF Choice
<1>5. CASE algorithm = "hash"
  <2>1. Hash[q] \in Nat /\ VirtualNodes \in Nat \ {0} /\ Len(Configured) \in Nat
    BY UpstreamAssumption, PoolNumbers
  <2>2. HashPick(avail[q], Hash[q], VirtualNodes) \in avail[q]
    BY <1>1, <2>1, HashPickChooses
  <2>3. QED
    BY <1>5, <2>2 DEF Choice
<1>6. QED
  BY <1>2, <1>3, <1>4, <1>5

LEMMA WeightsTyped ==
  ASSUME TypeOK, NEW list \in SUBSET Pool
  PROVE  WeightUpTo(list, Weights, Len(Configured)) \in 0 .. Word - 1
<1>1. ASSUME NEW e \in Pool PROVE Weights[e] \in Nat
  <2>1. health[e] \in {"Healthy", "Degraded", "Unhealthy"} /\ Configured[e].weight \in Nat
    BY PoolNumbers DEF TypeOK
  <2>2. Max({Configured[e].weight \div 2, 1}) \in Nat
    BY <2>1 DEF Max
  <2>3. QED
    BY <2>1, <2>2 DEF Weights, EffectiveWeight
<1>2. list \subseteq Nat /\ Len(Configured) \in Nat
  BY PoolNumbers
<1>3. QED
  BY <1>1, <1>2, WeightUpToWord

\* An endpoint that a request works on is one of the pool.
LEMMA ChosenInPool ==
  ASSUME TypeOK, NEW q \in Requests, RequestInv(q), pc[q] \in Chosen
  PROVE  ep[q] \in Pool
BY DEF TypeOK, RequestInv

LEMMA TypeStep ==
  ASSUME TypeOK, \A q \in Requests : RequestInv(q), [Next]_vars
  PROVE  TypeOK'
<1> USE DEF Goto, selection, retries, Stages
<1>1. ASSUME NEW e \in Pool, NEW h \in {"Healthy", "Degraded", "Unhealthy"},
             HealthChange(e, h)
      PROVE  TypeOK'
  BY <1>1 DEF HealthChange, TypeOK
<1>2. ASSUME NEW q \in Requests, Filter(q)
      PROVE  TypeOK'
  BY <1>2 DEF Filter, TypeOK
<1>3. ASSUME NEW q \in Requests, SumWeights(q)
      PROVE  TypeOK'
  <2>1. WeightUpTo(avail[q], Weights, Len(Configured)) \in 0 .. Word - 1
    BY WeightsTyped DEF TypeOK
  <2>2. QED
    BY <1>3, <2>1 DEF SumWeights, TypeOK
<1>4. ASSUME NEW q \in Requests, Pick(q)
      PROVE  TypeOK'
  <2>1. Choice(q) \in avail[q]
    BY <1>4, ChoiceAvailable DEF Pick, RequestInv
  <2>2. Choice(q) \in Pool
    BY <2>1 DEF TypeOK
  <2>3. QED
    BY <1>4, <2>2, WordAssumption DEF Pick, TypeOK
<1>5. ASSUME NEW q \in Requests, Begin(q)
      PROVE  TypeOK'
  <2>1. ep[q] \in Pool
    BY <1>5, ChosenInPool DEF Begin, Chosen
  <2>2. (conns[ep[q]] + 1) % Word \in 0 .. Word - 1
    <3>1. conns[ep[q]] + 1 \in Int
      BY <2>1 DEF TypeOK
    <3>2. QED
      BY <3>1, DivMod, WordAssumption
  <2>3. conns' \in [Pool -> 0 .. Word - 1]
    BY <1>5, <2>2 DEF Begin, TypeOK
  <2>4. QED
    BY <1>5, <2>3 DEF Begin, TypeOK
<1>6. ASSUME NEW q \in Requests, AttemptTimeout(q)
      PROVE  TypeOK'
  BY <1>6 DEF AttemptTimeout, Outcome, TypeOK
<1>7. ASSUME NEW q \in Requests, AttemptError(q)
      PROVE  TypeOK'
  BY <1>7 DEF AttemptError, Outcome, TypeOK
<1>8. ASSUME NEW q \in Requests, RetryStatus(q)
      PROVE  TypeOK'
  <2>1. PICK n \in Nanos :
          sleep' = [sleep EXCEPT ![q] = SleepMs(BaseMs(Backoff, attempt[q]), n)]
    BY <1>8 DEF RetryStatus
  <2>2. BaseMs(Backoff, attempt[q]) \in 0 .. Word - 1
    BY BaseMsWord, UpstreamAssumption DEF TypeOK
  <2>3. SleepMs(BaseMs(Backoff, attempt[q]), n) \in 0 .. Word - 1
    BY <2>2, SleepMsWord, UpstreamAssumption
  <2>4. sleep' \in [Requests -> 0 .. Word - 1]
    BY <2>1, <2>3 DEF TypeOK
  <2>5. QED
    BY <1>8, <2>4 DEF RetryStatus, Outcome, TypeOK
<1>9. ASSUME NEW q \in Requests, Wake(q)
      PROVE  TypeOK'
  BY <1>9, WordAssumption DEF Wake, TypeOK
<1>10. ASSUME NEW q \in Requests, Headers(q)
       PROVE  TypeOK'
  BY <1>10 DEF Headers, Outcome, TypeOK
<1>11. ASSUME NEW q \in Requests, BodyEnds(q)
       PROVE  TypeOK'
  BY <1>11 DEF BodyEnds, TypeOK
<1>12. ASSUME NEW q \in Requests, End(q)
       PROVE  TypeOK'
  <2>1. ep[q] \in Pool
    BY <1>12, ChosenInPool DEF End, Chosen
  <2>2. (conns[ep[q]] - 1 + Word) % Word \in 0 .. Word - 1
    <3>1. conns[ep[q]] - 1 + Word \in Int
      BY <2>1, WordAssumption DEF TypeOK
    <3>2. QED
      BY <3>1, DivMod, WordAssumption
  <2>3. conns' \in [Pool -> 0 .. Word - 1]
    BY <1>12, <2>2 DEF End, TypeOK
  <2>4. QED
    BY <1>12, <2>3 DEF End, TypeOK
<1>13. ASSUME NEW q \in Requests, LoadEwma(q)
       PROVE  TypeOK'
  <2>1. ep[q] \in Pool
    BY <1>13, ChosenInPool DEF LoadEwma, Chosen
  <2>2. QED
    BY <1>13, <2>1 DEF LoadEwma, TypeOK
<1>14. ASSUME NEW q \in Requests, StoreEwma(q)
       PROVE  TypeOK'
  <2>1. PICK s \in Samples : ewma' = [ewma EXCEPT ![ep[q]] = Ewma(old[q], s)]
    BY <1>14 DEF StoreEwma
  <2>2. Ewma(old[q], s) \in Nat
    BY EwmaBetween, UpstreamAssumption DEF TypeOK
  <2>3. QED
    BY <1>14, <2>1, <2>2 DEF StoreEwma, TypeOK
<1>15. ASSUME NEW q \in Requests, Cancel(q)
       PROVE  TypeOK'
  BY <1>15 DEF Cancel, TypeOK
<1>16. CASE UNCHANGED vars
  BY <1>16 DEF vars, TypeOK
<1>17. QED
  BY <1>1, <1>2, <1>3, <1>4, <1>5, <1>6, <1>7, <1>8, <1>9, <1>10, <1>11, <1>12,
     <1>13, <1>14, <1>15, <1>16 DEF Next

\* What a request has selected and sent is changed by its own steps alone.
LEMMA RequestStep ==
  ASSUME TypeOK, NEW r \in Requests, RequestInv(r), [Next]_vars
  PROVE  RequestInv(r)'
<1> USE DEF Goto, selection, retries
<1> DEFINE Same == /\ pc'[r] = pc[r] /\ avail'[r] = avail[r] /\ ep'[r] = ep[r]
                   /\ log'[r] = log[r] /\ attempt'[r] = attempt[r]
<1>0. ASSUME Same PROVE RequestInv(r)'
  BY <1>0 DEF RequestInv
<1>1. ASSUME NEW e \in Pool, NEW h \in {"Healthy", "Degraded", "Unhealthy"},
             HealthChange(e, h)
      PROVE  RequestInv(r)'
  BY <1>0, <1>1 DEF HealthChange
<1>2. ASSUME NEW q \in Requests, Filter(q)
      PROVE  RequestInv(r)'
  <2>1. CASE q = r
    BY <1>2, <2>1 DEF Filter, TypeOK, RequestInv, Chosen
  <2>2. CASE q # r
    <3>1. Same
      BY <1>2, <2>2 DEF Filter, TypeOK
    <3>2. QED
      BY <1>0, <3>1
  <2>3. QED
    BY <2>1, <2>2
<1>3. ASSUME NEW q \in Requests, SumWeights(q)
      PROVE  RequestInv(r)'
  <2>1. CASE q = r
    BY <1>3, <2>1 DEF SumWeights, TypeOK, RequestInv, Chosen
  <2>2. CASE q # r
    <3>1. Same
      BY <1>3, <2>2 DEF SumWeights, TypeOK
    <3>2. QED
      BY <1>0, <3>1
  <2>3. QED
    BY <2>1, <2>2
<1>4. ASSUME NEW q \in Requests, Pick(q)
      PROVE  RequestInv(r)'
  <2>1. CASE q = r
    <3>1. Choice(q) \in avail[q]
      BY <1>4, <2>1, ChoiceAvailable DEF Pick, RequestInv
    <3>2. QED
      BY <1>4, <2>1, <3>1 DEF Pick, TypeOK, RequestInv, Chosen
  <2>2. CASE q # r
    <3>1. Same
      BY <1>4, <2>2, WordAssumption DEF Pick, TypeOK
    <3>2. QED
      BY <1>0, <3>1
  <2>3. QED
    BY <2>1, <2>2
<1>5. ASSUME NEW q \in Requests, Begin(q)
      PROVE  RequestInv(r)'
  <2>1. CASE q = r
    <3>1. log[r] = <<>> /\ attempt[r] = 0 /\ Len(log[r]) = 0
      BY <1>5, <2>1 DEF Begin, RequestInv, Chosen
    <3>2. QED
      BY <1>5, <2>1, <3>1, UpstreamAssumption DEF Begin, TypeOK, RequestInv, Chosen
  <2>2. CASE q # r
    <3>1. Same
      BY <1>5, <2>2 DEF Begin, TypeOK
    <3>2. QED
      BY <1>0, <3>1
  <2>3. QED
    BY <2>1, <2>2
<1>6. ASSUME NEW q \in Requests, NEW what \in {"timeout", "error", "status", "answer"},
             NEW stage \in {"ending", "body", "backoff"},
             pc[q] = "attempt", Outcome(q, what, stage),
             stage = "backoff" => what = "status" /\ attempt[q] + 1 < MaxAttempts,
             UNCHANGED <<avail, ep, attempt>>
      PROVE  RequestInv(r)'
  <2>1. CASE q = r
    <3> DEFINE s == log[r]
               t == log'[r]
    <3>1. s \in Seq({"timeout", "error", "status", "answer"}) /\ t = Append(s, what)
      BY <1>6, <2>1 DEF Outcome, TypeOK
    <3>2. /\ Len(t) = Len(s) + 1 /\ Len(s) \in Nat /\ t[Len(s) + 1] = what
          /\ \A i \in 1 .. Len(s) : t[i] = s[i]
      BY <3>1
    <3>3. /\ attempt[r] = Len(s) /\ Len(s) < MaxAttempts
          /\ \A i \in 1 .. Len(s) : s[i] = "status"
      BY <1>6, <2>1 DEF RequestInv
    <3>4. pc'[r] = stage /\ attempt'[r] = attempt[r] /\ avail'[r] = avail[r] /\ ep'[r] = ep[r]
      BY <1>6, <2>1 DEF Outcome, TypeOK
    <3> HIDE DEF s, t
    <3>5. \A i \in 1 .. Len(t) - 1 : t[i] = "status"
      BY <3>2, <3>3
    <3>6. stage = "backoff" => Len(t) < MaxAttempts /\ \A i \in 1 .. Len(t) : t[i] = "status"
      BY <1>6, <2>1, <3>2, <3>3, <3>5, UpstreamAssumption
    <3>7. Len(t) <= MaxAttempts
      BY <3>2, <3>3, UpstreamAssumption
    <3>8. avail[r] # {} /\ ep[r] \in avail[r]
      BY <1>6, <2>1 DEF RequestInv, Chosen
    <3>9. QED
      BY <1>6, <3>2, <3>3, <3>4, <3>5, <3>6, <3>7, <3>8 DEF RequestInv, Chosen, t
  <2>2. CASE q # r
    <3>1. Same
      BY <1>6, <2>2 DEF Outcome, TypeOK
    <3>2. QED
      BY <1>0, <3>1
  <2>3. QED
    BY <2>1, <2>2
<1>7. ASSUME NEW q \in Requests, AttemptTimeout(q) \/ AttemptError(q) \/ Headers(q)
      PROVE  RequestInv(r)'
  BY <1>6, <1>7 DEF AttemptTimeout, AttemptError, Headers
<1>8. ASSUME NEW q \in Requests, RetryStatus(q)
      PROVE  RequestInv(r)'
  BY <1>6, <1>8 DEF RetryStatus
<1>9. ASSUME NEW q \in Requests, Wake(q)
      PROVE  RequestInv(r)'
  <2>1. CASE q = r
    BY <1>9, <2>1 DEF Wake, TypeOK, RequestInv, Chosen
  <2>2. CASE q # r
    <3>1. Same
      BY <1>9, <2>2 DEF Wake, TypeOK
    <3>2. QED
      BY <1>0, <3>1
  <2>3. QED
    BY <2>1, <2>2
<1>10. ASSUME NEW q \in Requests,
              BodyEnds(q) \/ End(q) \/ LoadEwma(q) \/ StoreEwma(q) \/ Cancel(q)
       PROVE  RequestInv(r)'
  <2>1. /\ pc[q] \in Chosen \ {"picked"}
        /\ \E stage \in Chosen \ {"picked", "attempt", "backoff"} : Goto(q, stage)
        /\ UNCHANGED <<avail, ep, log, attempt>>
    BY <1>10 DEF BodyEnds, End, LoadEwma, StoreEwma, Cancel, Chosen
  <2>2. CASE q = r
    BY <2>1, <2>2 DEF TypeOK, RequestInv, Chosen
  <2>3. CASE q # r
    <3>1. Same
      BY <2>1, <2>3 DEF TypeOK
    <3>2. QED
      BY <1>0, <3>1
  <2>4. QED
    BY <2>2, <2>3
<1>11. CASE UNCHANGED vars
  BY <1>0, <1>11 DEF vars
<1>12. QED
  BY <1>1, <1>2, <1>3, <1>4, <1>5, <1>7, <1>8, <1>9, <1>10, <1>11 DEF Next

\* Averages are computed from averages and samples only.
LEMMA AveragesStep ==
  ASSUME TypeOK, \A q \in Requests : RequestInv(q), AveragesWithin, [Next]_vars
  PROVE  AveragesWithin'
<1> USE DEF Goto, selection, retries
<1>1. ASSUME NEW q \in Requests, LoadEwma(q)
      PROVE  AveragesWithin'
  <2>1. ep[q] \in Pool
    BY <1>1, ChosenInPool DEF LoadEwma, Chosen
  <2>2. ewma' = ewma /\ \A r \in Requests : old'[r] = IF r = q THEN ewma[ep[q]] ELSE old[r]
    BY <1>1 DEF LoadEwma, TypeOK
  <2>3. QED
    BY <2>1, <2>2 DEF AveragesWithin, Within
<1>2. ASSUME NEW q \in Requests, StoreEwma(q)
      PROVE  AveragesWithin'
  <2>1. PICK s \in Samples : ewma' = [ewma EXCEPT ![ep[q]] = Ewma(old[q], s)]
    BY <1>2 DEF StoreEwma
  <2>2. s \in Nat /\ old[q] \in Nat /\ Samples \subseteq Nat
    BY UpstreamAssumption DEF TypeOK
  <2>3. Within(Ewma(old[q], s))
    <3>1. CASE old[q] = 0
      BY <2>2, <3>1, EwmaBetween DEF Within
    <3>2. CASE old[q] # 0
      <4>1. PICK lo, hi \in Samples : lo <= old[q] /\ old[q] <= hi
        BY <3>2 DEF AveragesWithin, Within
      <4>2. /\ Ewma(old[q], s) \in Nat
            /\ \/ lo <= Ewma(old[q], s) /\ Ewma(old[q], s) <= s
               \/ s <= Ewma(old[q], s) /\ Ewma(old[q], s) <= hi
        <5>1. PICK o \in Nat : o = old[q]
          BY <2>2
        <5>2. PICK v : v = Ewma(o, s)
          OBVIOUS
        <5>3. /\ v \in Nat
              /\ \/ o <= v /\ v <= s
                 \/ s <= v /\ v <= o
          <6>1. /\ Ewma(o, s) \in Nat
                /\ o # 0 => \/ o <= Ewma(o, s) /\ Ewma(o, s) <= s
                            \/ s <= Ewma(o, s) /\ Ewma(o, s) <= o
            BY <2>2, EwmaBetween
          <6>2. o # 0
            BY <3>2, <5>1
          <6>3. QED
            BY <5>2, <6>1, <6>2
        <5>4. lo \in Nat /\ hi \in Nat /\ lo <= o /\ o <= hi
          BY <2>2, <4>1, <5>1
        <5>5. \/ lo <= v /\ v <= s
              \/ s <= v /\ v <= hi
          BY <2>2, <5>3, <5>4
        <5>6. QED
          BY <5>1, <5>2, <5>3, <5>5
      <4>3. QED
        BY <4>2 DEF Within
    <3>3. QED
      BY <3>1, <3>2
  <2>4. \A e \in Pool : ewma'[e] = ewma[e] \/ ewma'[e] = Ewma(old[q], s)
    BY <2>1 DEF TypeOK
  <2>5. \A r \in Requests : old'[r] = 0 \/ old'[r] = old[r]
    BY <1>2 DEF StoreEwma, TypeOK
  <2>6. \A e \in Pool : Within(ewma'[e])
    BY <2>3, <2>4 DEF AveragesWithin
  <2>7. \A r \in Requests : Within(old'[r])
    BY <2>5 DEF AveragesWithin, Within
  <2>8. QED
    BY <2>6, <2>7 DEF AveragesWithin, Within
<1>3. ASSUME UNCHANGED <<ewma, old>> PROVE AveragesWithin'
  BY <1>3 DEF AveragesWithin, Within
<1>4. QED
  BY <1>1, <1>2, <1>3 DEF Next, HealthChange, Filter, SumWeights, Pick, Begin,
     AttemptTimeout, AttemptError, RetryStatus, Wake, Headers, BodyEnds, End, Cancel, vars

-----------------------------------------------------------------------------
(* Connections *)

Holding == {"attempt", "backoff", "body", "ending"}

LEMMA HoldersFinite ==
  ASSUME NEW e
  PROVE  /\ IsFiniteSet(InFlightOn(e)) /\ Cardinality(InFlightOn(e)) \in Nat
         /\ IsFiniteSet(CancelledOn(e)) /\ Cardinality(CancelledOn(e)) \in Nat
<1>1. InFlightOn(e) \subseteq Requests /\ CancelledOn(e) \subseteq Requests
  BY DEF InFlightOn, CancelledOn
<1>2. IsFiniteSet(InFlightOn(e)) /\ IsFiniteSet(CancelledOn(e))
  BY <1>1, UpstreamAssumption, FS_Subset
<1>3. QED
  BY <1>2, FS_CardinalityType

\* A step that neither begins nor ends a connection leaves the account alone.
LEMMA ConnsUnmoved ==
  ASSUME ConnsInv, conns' = conns,
         \A r \in Requests :
           /\ pc'[r] \in Holding <=> pc[r] \in Holding
           /\ pc'[r] = "cancelled" <=> pc[r] = "cancelled"
           /\ pc[r] \in Holding \cup {"cancelled"} => ep'[r] = ep[r]
  PROVE  ConnsInv'
<1>1. ASSUME NEW e \in Pool
      PROVE  InFlightOn(e)' = InFlightOn(e) /\ CancelledOn(e)' = CancelledOn(e)
  BY DEF InFlightOn, CancelledOn, Holding
<1>2. QED
  BY <1>1 DEF ConnsInv, CancelledOn

LEMMA ConnsStep ==
  ASSUME TypeOK, \A q \in Requests : RequestInv(q), ConnsInv, [Next]_vars
  PROVE  ConnsInv'
<1> USE DEF Goto, selection, retries
<1>1. ASSUME NEW q \in Requests, Begin(q)
      PROVE  ConnsInv'
  <2> SUFFICES ASSUME NEW e \in Pool
               PROVE  conns'[e] = (Cardinality(InFlightOn(e)')
                                   + Cardinality(CancelledOn(e)')) % Word
    BY DEF ConnsInv, CancelledOn
  <2>1. \A r \in Requests : r # q => pc'[r] = pc[r]
    BY <1>1 DEF Begin, TypeOK
  <2>2. pc[q] = "picked" /\ pc'[q] \in Holding /\ ep' = ep
    BY <1>1 DEF Begin, TypeOK, Holding
  <2>3. CancelledOn(e)' = CancelledOn(e)
    BY <2>1, <2>2 DEF CancelledOn, Holding
  <2>4. CASE ep[q] = e
    <3>1. InFlightOn(e)' = InFlightOn(e) \cup {q} /\ q \notin InFlightOn(e)
      BY <2>1, <2>2, <2>4 DEF InFlightOn, Holding
    <3>2. PICK a, b \in Nat : a = Cardinality(InFlightOn(e)) /\ b = Cardinality(CancelledOn(e))
      BY HoldersFinite
    <3>3. Cardinality(InFlightOn(e)') = a + 1
      BY <3>1, <3>2, HoldersFinite, FS_AddElement
    <3>4. conns[e] = (a + b) % Word
      BY <3>2 DEF ConnsInv, CancelledOn
    <3>5. conns'[e] = (conns[e] + 1) % Word
      BY <1>1, <2>4 DEF Begin, TypeOK
    <3>6. (((a + b) % Word) + 1) % Word = ((a + b) + 1) % Word
      <4>1. PICK c \in Nat : c = a + b
        OBVIOUS
      <4>2. ((c % Word) + 1) % Word = (c + 1) % Word
        BY WrapUp, WordAssumption
      <4>3. QED
        BY <4>1, <4>2
    <3>7. (a + b) + 1 = (a + 1) + b
      OBVIOUS
    <3>8. QED
      BY <2>3, <3>2, <3>3, <3>4, <3>5, <3>6, <3>7
  <2>5. CASE ep[q] # e
    <3>1. InFlightOn(e)' = InFlightOn(e)
      BY <2>1, <2>2, <2>5 DEF InFlightOn
    <3>2. conns'[e] = conns[e]
      BY <1>1, <2>5 DEF Begin, TypeOK
    <3>3. QED
      BY <2>3, <3>1, <3>2 DEF ConnsInv, CancelledOn
  <2>6. QED
    BY <2>4, <2>5
<1>2. ASSUME NEW q \in Requests, End(q)
      PROVE  ConnsInv'
  <2> SUFFICES ASSUME NEW e \in Pool
               PROVE  conns'[e] = (Cardinality(InFlightOn(e)')
                                   + Cardinality(CancelledOn(e)')) % Word
    BY DEF ConnsInv, CancelledOn
  <2>1. \A r \in Requests : r # q => pc'[r] = pc[r]
    BY <1>2 DEF End, TypeOK
  <2>2. pc[q] = "ending" /\ pc'[q] = "load" /\ ep' = ep
    BY <1>2 DEF End, TypeOK
  <2>3. CancelledOn(e)' = CancelledOn(e)
    BY <2>1, <2>2 DEF CancelledOn
  <2>4. CASE ep[q] = e
    <3>1. InFlightOn(e)' = InFlightOn(e) \ {q} /\ q \in InFlightOn(e)
      BY <2>1, <2>2, <2>4 DEF InFlightOn
    <3>2. /\ IsFiniteSet(InFlightOn(e)')
          /\ Cardinality(InFlightOn(e)) = Cardinality(InFlightOn(e)') + 1
          /\ Cardinality(InFlightOn(e)') \in Nat
      <4>1. IsFiniteSet(InFlightOn(e)')
        BY <3>1, HoldersFinite, FS_Subset
      <4>2. Cardinality(InFlightOn(e) \ {q}) = Cardinality(InFlightOn(e)) - 1
        BY <3>1, HoldersFinite, FS_RemoveElement
      <4>3. Cardinality(InFlightOn(e)') \in Nat
        BY <4>1, FS_CardinalityType
      <4>4. QED
        BY <3>1, <4>1, <4>2, <4>3, HoldersFinite
    <3>3. PICK a, b \in Nat : a = Cardinality(InFlightOn(e)') /\ b = Cardinality(CancelledOn(e))
      BY <3>2, HoldersFinite
    <3>4. conns[e] = ((a + b) + 1) % Word
      <4>1. conns[e] = ((a + 1) + b) % Word
        BY <3>2, <3>3 DEF ConnsInv, CancelledOn
      <4>2. (a + 1) + b = (a + b) + 1
        OBVIOUS
      <4>3. QED
        BY <4>1, <4>2
    <3>5. conns'[e] = (conns[e] - 1 + Word) % Word
      BY <1>2, <2>4 DEF End, TypeOK
    <3>6. ((((a + b) + 1) % Word) - 1 + Word) % Word = (a + b) % Word
      <4>1. PICK c \in Nat : c = a + b
        OBVIOUS
      <4>2. (((c + 1) % Word) - 1 + Word) % Word = c % Word
        BY WrapDown, WordAssumption
      <4>3. QED
        BY <4>1, <4>2
    <3>7. QED
      BY <2>3, <3>3, <3>4, <3>5, <3>6
  <2>5. CASE ep[q] # e
    <3>1. InFlightOn(e)' = InFlightOn(e)
      BY <2>1, <2>2, <2>5 DEF InFlightOn
    <3>2. conns'[e] = conns[e]
      BY <1>2, <2>5 DEF End, TypeOK
    <3>3. QED
      BY <2>3, <3>1, <3>2 DEF ConnsInv, CancelledOn
  <2>6. QED
    BY <2>4, <2>5
<1>3. ASSUME NEW q \in Requests, Cancel(q)
      PROVE  ConnsInv'
  <2> SUFFICES ASSUME NEW e \in Pool
               PROVE  conns'[e] = (Cardinality(InFlightOn(e)')
                                   + Cardinality(CancelledOn(e)')) % Word
    BY DEF ConnsInv, CancelledOn
  <2>1. /\ \A r \in Requests : r # q => pc'[r] = pc[r]
        /\ pc[q] \in Holding /\ pc'[q] = "cancelled" /\ ep' = ep
    BY <1>3 DEF Cancel, TypeOK, Holding
  <2>2. conns[e] = (Cardinality(InFlightOn(e)) + Cardinality(CancelledOn(e))) % Word
    BY DEF ConnsInv, CancelledOn
  <2>3. conns' = conns
    BY <1>3 DEF Cancel
  <2>4. CASE ep[q] = e
    <3>1. /\ InFlightOn(e)' = InFlightOn(e) \ {q} /\ q \in InFlightOn(e)
          /\ CancelledOn(e)' = CancelledOn(e) \cup {q} /\ q \notin CancelledOn(e)
      BY <2>1, <2>4 DEF InFlightOn, CancelledOn, Holding
    <3>2. /\ Cardinality(InFlightOn(e) \ {q}) = Cardinality(InFlightOn(e)) - 1
          /\ Cardinality(CancelledOn(e) \cup {q}) = Cardinality(CancelledOn(e)) + 1
      BY <3>1, HoldersFinite, FS_RemoveElement, FS_AddElement
    <3>3. Cardinality(InFlightOn(e)') + Cardinality(CancelledOn(e)')
            = Cardinality(InFlightOn(e)) + Cardinality(CancelledOn(e))
      BY <3>1, <3>2, HoldersFinite
    <3>4. QED
      BY <2>2, <2>3, <3>3
  <2>5. CASE ep[q] # e
    <3>1. InFlightOn(e)' = InFlightOn(e) /\ CancelledOn(e)' = CancelledOn(e)
      BY <2>1, <2>5 DEF InFlightOn, CancelledOn, Holding
    <3>2. QED
      BY <2>2, <2>3, <3>1
  <2>6. QED
    BY <2>4, <2>5
<1>4. ASSUME NEW q \in Requests,
             Filter(q) \/ SumWeights(q) \/ Pick(q)
             \/ AttemptTimeout(q) \/ AttemptError(q) \/ RetryStatus(q) \/ Wake(q)
             \/ Headers(q) \/ BodyEnds(q) \/ LoadEwma(q) \/ StoreEwma(q)
      PROVE  ConnsInv'
  <2>1. conns' = conns
    BY <1>4 DEF Filter, SumWeights, Pick, AttemptTimeout, AttemptError, RetryStatus, Wake,
       Headers, BodyEnds, LoadEwma, StoreEwma
  <2>2. \E stage : /\ Goto(q, stage) /\ pc[q] # "cancelled" /\ stage # "cancelled"
                   /\ pc[q] \in Holding <=> stage \in Holding
                   /\ pc[q] \in Holding \cup {"cancelled"} => ep' = ep
                   /\ \A r \in Requests : r # q => ep'[r] = ep[r]
    BY <1>4 DEF Filter, SumWeights, Pick, AttemptTimeout, AttemptError, RetryStatus, Wake,
       Headers, BodyEnds, LoadEwma, StoreEwma, Outcome, Holding, TypeOK
  <2>3. \A r \in Requests :
          /\ pc'[r] \in Holding <=> pc[r] \in Holding
          /\ pc'[r] = "cancelled" <=> pc[r] = "cancelled"
          /\ pc[r] \in Holding \cup {"cancelled"} => ep'[r] = ep[r]
    BY <2>2 DEF TypeOK
  <2>4. QED
    BY <2>1, <2>3, ConnsUnmoved
<1>5. ASSUME NEW e \in Pool, NEW h \in {"Healthy", "Degraded", "Unhealthy"},
             HealthChange(e, h)
      PROVE  ConnsInv'
  BY <1>5, ConnsUnmoved DEF HealthChange
<1>6. CASE UNCHANGED vars
  BY <1>6, ConnsUnmoved DEF vars
<1>7. QED
  BY <1>1, <1>2, <1>3, <1>4, <1>5, <1>6 DEF Next

-----------------------------------------------------------------------------
(* Theorems *)

LEMMA UpstreamInit == Init => UpstreamInv
<1> SUFFICES ASSUME Init PROVE UpstreamInv
  OBVIOUS
<1>1. TypeOK
  <2>1. log \in [Requests -> Seq({"timeout", "error", "status", "answer"})]
    BY DEF Init
  <2>2. avail \in [Requests -> SUBSET Pool]
    BY DEF Init
  <2>3. 0 \in 0 .. Word - 1
    BY WordAssumption
  <2>4. QED
    BY <2>1, <2>2, <2>3 DEF Init, TypeOK, Stages
<1>2. \A q \in Requests : RequestInv(q)
  BY UpstreamAssumption DEF Init, RequestInv, Chosen
<1>3. AveragesWithin
  BY DEF Init, AveragesWithin, Within
<1>4. ConnsInv
  <2>1. \A e \in Pool : InFlightOn(e) = {} /\ CancelledOn(e) = {}
    BY DEF Init, InFlightOn, CancelledOn
  <2>2. (0 + 0) % Word = 0
    BY WordAssumption
  <2>3. QED
    BY <2>1, <2>2, FS_EmptySet DEF Init, ConnsInv, CancelledOn
<1>5. QED
  BY <1>1, <1>2, <1>3, <1>4 DEF UpstreamInv

\* The invariant holds in every state that requests, health tasks and cancelled
\* clients can bring a pool into.
THEOREM UpstreamInvariant == Spec => []UpstreamInv
<1>1. UpstreamInv /\ [Next]_vars => UpstreamInv'
  BY TypeStep, RequestStep, AveragesStep, ConnsStep DEF UpstreamInv
<1>2. QED
  BY <1>1, UpstreamInit, PTL DEF Spec

\* The state of a pool keeps its type: in particular every selection yields an
\* endpoint of the pool, active_conns stays a machine integer whatever order
\* requests begin and end in, and so does every sleep before a retry.
THEOREM UpstreamTypes == Spec => []TypeOK
BY UpstreamInvariant, PTL DEF UpstreamInv

\* active_conns of an endpoint counts the requests in flight on it, modulo the
\* machine word, as long as none was cancelled there (send).
THEOREM ConnectionsCounted == Spec => []ConnsAccounted
<1>1. UpstreamInv => ConnsAccounted
  <2> SUFFICES ASSUME UpstreamInv, NEW e \in Pool,
                      \A q \in Requests : ep[q] = e => pc[q] # "cancelled"
               PROVE  conns[e] = Cardinality(InFlightOn(e)) % Word
    BY DEF ConnsAccounted
  <2>1. CancelledOn(e) = {}
    BY DEF CancelledOn
  <2>2. Cardinality(CancelledOn(e)) = 0
    BY <2>1, FS_EmptySet
  <2>3. Cardinality(InFlightOn(e)) \in Nat
    BY HoldersFinite
  <2>4. QED
    BY <2>2, <2>3 DEF UpstreamInv, ConnsInv
<1>2. QED
  BY <1>1, UpstreamInvariant, PTL

\* No algorithm chooses an endpoint that the selection had filtered out, however
\* health, connections and averages change while it runs (select_endpoint).
THEOREM PicksAvailable == Spec => []NeverPicksFiltered
<1>1. UpstreamInv => NeverPicksFiltered
  BY DEF UpstreamInv, RequestInv, NeverPicksFiltered
<1>2. QED
  BY <1>1, UpstreamInvariant, PTL

\* A request is repeated only after an answer with a retryable status, and at
\* most max_attempts times (send_with_retry).
THEOREM RetriesAreSafe == Spec => []ResentOnlyAfterAnswer
<1>1. UpstreamInv => ResentOnlyAfterAnswer
  BY DEF UpstreamInv, RequestInv, ResentOnlyAfterAnswer
<1>2. QED
  BY <1>1, UpstreamInvariant, PTL

\* The moving average lies within the response times measured, although its
\* load and its store are separate steps (update_ewma).
THEOREM AverageIsBounded == Spec => []EwmaWithinSamples
<1>1. UpstreamInv => EwmaWithinSamples
  BY DEF UpstreamInv, AveragesWithin, Within, EwmaWithinSamples
<1>2. QED
  BY <1>1, UpstreamInvariant, PTL
=============================================================================
