-------------------------- MODULE ConcurrencyProofs --------------------------
(***************************************************************************)
(* Proofs about the concurrency gate, for every set of requests, every set *)
(* of capped routes and every capacity.  First what the three semaphore    *)
(* operations do to one semaphore, then that GateInv is inductive, then    *)
(* the safety properties and the refinement of Admission that follow.      *)
(***************************************************************************)
EXTENDS Concurrency, FiniteSetTheorems, TLAPS

\* What an operation on semaphore s leaves alone.
Frame(s) ==
  \A t \in Semaphores \ {s} :
    avail'[t] = avail[t] /\ held'[t] = held[t] /\ waiters'[t] = waiters[t]

AllSemaphores == \A s \in Semaphores : SemaphoreInv(s)

\* The semaphore part of TypeOK.
SemaphoreTypes ==
  /\ avail \in [Semaphores -> Nat]
  /\ held \in [Semaphores -> SUBSET Requests]
  /\ waiters \in [Semaphores -> Seq(Requests)]

\* A semaphore that an operation did not touch stays sound.
LEMMA FrameSound ==
  ASSUME NEW s \in Semaphores, Frame(s), AllSemaphores, SemaphoreInv(s)'
  PROVE  AllSemaphores'
BY DEF Frame, AllSemaphores, SemaphoreInv, Queued

\* Acquire adds exactly the caller to a semaphore's members.
LEMMA AcquireSound ==
  ASSUME NEW s \in Semaphores, NEW r \in Requests,
         SemaphoreTypes, AllSemaphores, r \notin Members(s), Acquire(s, r)
  PROVE  /\ SemaphoreTypes'
         /\ AllSemaphores'
         /\ Frame(s)
         /\ Members(s)' = Members(s) \cup {r}
         /\ held[s] \subseteq held'[s]
         /\ avail[s] > 0 => r \in held'[s]
<1> USE DEF SemaphoreTypes
<1>0. Limit[s] \in Nat
  BY ConcurrencyAssumption
<1>1. SemaphoreInv(s)
  BY DEF AllSemaphores
<1>2. CASE /\ avail[s] > 0
           /\ avail' = [avail EXCEPT ![s] = @ - 1]
           /\ held' = [held EXCEPT ![s] = @ \cup {r}]
           /\ UNCHANGED waiters
  <2>1. SemaphoreTypes'
    BY <1>2
  <2>2. Frame(s)
    BY <1>2 DEF Frame
  <2>3. /\ IsFiniteSet(held'[s])
        /\ Cardinality(held'[s]) = Cardinality(held[s]) + 1
        /\ Cardinality(held[s]) \in Nat
    BY <1>1, <1>2, FS_AddElement, FS_CardinalityType DEF SemaphoreInv, Members
  <2>4. waiters[s] = <<>> /\ Queued(s) = {}
    BY <1>1, <1>2 DEF SemaphoreInv, Queued
  <2>5. Queued(s)' = {}
    BY <2>4, <1>2 DEF Queued
  <2>6. SemaphoreInv(s)'
    BY <1>0, <1>1, <1>2, <2>3, <2>4, <2>5 DEF SemaphoreInv
  <2> QED
    BY <1>2, <2>1, <2>2, <2>4, <2>5, <2>6, FrameSound DEF Members
<1>3. CASE /\ avail[s] = 0
           /\ waiters' = [waiters EXCEPT ![s] = Append(@, r)]
           /\ UNCHANGED <<avail, held>>
  <2>1. SemaphoreTypes'
    BY <1>3
  <2>2. Frame(s)
    BY <1>3 DEF Frame
  <2>3. /\ Len(waiters'[s]) = Len(waiters[s]) + 1
        /\ Len(waiters[s]) \in Nat
        /\ \A i \in 1 .. Len(waiters[s]) : waiters'[s][i] = waiters[s][i]
        /\ waiters'[s][Len(waiters[s]) + 1] = r
    BY <1>3
  <2>4. Queued(s)' = Queued(s) \cup {r}
    <3>1. Queued(s)' \subseteq Queued(s) \cup {r}
      BY <2>3 DEF Queued
    <3>2. Queued(s) \subseteq Queued(s)'
      BY <2>3 DEF Queued
    <3>3. r \in Queued(s)'
      BY <2>3 DEF Queued
    <3> QED
      BY <3>1, <3>2, <3>3
  <2>5. SemaphoreInv(s)'
    BY <1>1, <1>3, <2>3, <2>4 DEF SemaphoreInv, Queued, Members
  <2> QED
    BY <1>3, <2>1, <2>2, <2>4, <2>5, FrameSound DEF Members
<1> QED
  BY <1>2, <1>3 DEF Acquire

\* Release removes exactly the caller from a semaphore's members; nobody else
\* loses a permit.
LEMMA ReleaseSound ==
  ASSUME NEW s \in Semaphores, NEW r \in Requests,
         SemaphoreTypes, AllSemaphores, r \in held[s], Release(s, r)
  PROVE  /\ SemaphoreTypes'
         /\ AllSemaphores'
         /\ Frame(s)
         /\ Members(s)' = Members(s) \ {r}
         /\ held[s] \ {r} \subseteq held'[s]
<1> USE DEF SemaphoreTypes
<1>0. Limit[s] \in Nat
  BY ConcurrencyAssumption
<1>1. SemaphoreInv(s)
  BY DEF AllSemaphores
<1>2. /\ IsFiniteSet(held[s] \ {r})
      /\ Cardinality(held[s] \ {r}) = Cardinality(held[s]) - 1
      /\ Cardinality(held[s]) \in Nat
  BY <1>1, FS_RemoveElement, FS_CardinalityType DEF SemaphoreInv
<1>3. CASE /\ waiters[s] # <<>>
           /\ held' = [held EXCEPT ![s] = (@ \ {r}) \cup {Head(waiters[s])}]
           /\ waiters' = [waiters EXCEPT ![s] = Tail(@)]
           /\ UNCHANGED avail
  <2> DEFINE h == Head(waiters[s])
  <2>1. /\ Len(waiters[s]) \in Nat \ {0}
        /\ h = waiters[s][1]
        /\ Len(waiters'[s]) = Len(waiters[s]) - 1
        /\ \A i \in 1 .. Len(waiters[s]) - 1 : waiters'[s][i] = waiters[s][i + 1]
    BY <1>3
  <2>2. h \in Queued(s) /\ h \notin held[s] /\ h \in Requests
    BY <1>1, <1>3, <2>1 DEF SemaphoreInv, Queued
  <2>3. SemaphoreTypes'
    BY <1>3, <2>2
  <2>4. Frame(s)
    BY <1>3 DEF Frame
  <2>5. held'[s] = (held[s] \ {r}) \cup {h}
    BY <1>3
  <2>6. IsFiniteSet(held'[s]) /\ Cardinality(held'[s]) = Cardinality(held[s])
    <3> DEFINE T == held[s] \ {r}
    <3>1. h \notin T /\ IsFiniteSet(T)
      BY <1>2, <2>2
    <3>2. IsFiniteSet(T \cup {h}) /\ Cardinality(T \cup {h}) = Cardinality(T) + 1
      BY <3>1, FS_AddElement
    <3> QED
      BY <1>2, <2>5, <3>2
  <2>7. Queued(s)' = Queued(s) \ {h}
    <3>1. \A i \in 2 .. Len(waiters[s]) : waiters[s][i] # h
      BY <1>1, <2>1 DEF SemaphoreInv
    <3>2. Queued(s) \ {h} \subseteq Queued(s)'
      <4> SUFFICES ASSUME NEW i \in 1 .. Len(waiters[s]), waiters[s][i] # h
                   PROVE  waiters[s][i] \in Queued(s)'
        BY DEF Queued
      <4>1. i - 1 \in 1 .. Len(waiters'[s]) /\ waiters'[s][i - 1] = waiters[s][i]
        BY <2>1
      <4> QED
        BY <4>1 DEF Queued
    <3>3. Queued(s)' \subseteq Queued(s) \ {h}
      BY <2>1, <3>1 DEF Queued
    <3> QED
      BY <3>2, <3>3
  <2>8. SemaphoreInv(s)'
    <3>1. \A i, j \in 1 .. Len(waiters'[s]) :
             waiters'[s][i] = waiters'[s][j] => i = j
      BY <1>1, <2>1 DEF SemaphoreInv
    <3>2. avail'[s] = 0
      BY <1>1, <1>3 DEF SemaphoreInv
    <3>3. held'[s] \cap Queued(s)' = {}
      BY <1>1, <2>5, <2>7 DEF SemaphoreInv
    <3> QED
      BY <1>1, <1>3, <2>6, <3>1, <3>2, <3>3 DEF SemaphoreInv
  <2>9. r \notin Queued(s)
    BY <1>1 DEF SemaphoreInv
  <2> QED
    BY <1>3, <2>2, <2>3, <2>4, <2>5, <2>7, <2>8, <2>9, FrameSound DEF Members
<1>4. CASE /\ waiters[s] = <<>>
           /\ held' = [held EXCEPT ![s] = @ \ {r}]
           /\ avail' = [avail EXCEPT ![s] = @ + 1]
           /\ UNCHANGED waiters
  <2>1. SemaphoreTypes'
    BY <1>4
  <2>2. Frame(s)
    BY <1>4 DEF Frame
  <2>3. Queued(s) = {} /\ Queued(s)' = {}
    BY <1>4 DEF Queued
  <2>4. SemaphoreInv(s)'
    <3>1. held'[s] = held[s] \ {r} /\ avail'[s] = avail[s] + 1 /\ waiters'[s] = <<>>
      BY <1>4
    <3>2. avail'[s] + Cardinality(held'[s]) = Limit[s]
      BY <1>0, <1>1, <1>2, <3>1 DEF SemaphoreInv
    <3> QED
      BY <1>2, <2>3, <3>1, <3>2 DEF SemaphoreInv
  <2> QED
    BY <1>4, <2>1, <2>2, <2>3, <2>4, FrameSound DEF Members
<1> QED
  BY <1>3, <1>4 DEF Release

\* Dequeue removes exactly the caller from a semaphore's queue.
LEMMA DequeueSound ==
  ASSUME NEW s \in Semaphores, NEW r \in Requests,
         SemaphoreTypes, AllSemaphores, Dequeue(s, r)
  PROVE  /\ SemaphoreTypes'
         /\ AllSemaphores'
         /\ Frame(s)
         /\ Members(s)' = Members(s) \ {r}
         /\ held'[s] = held[s]
<1> USE DEF SemaphoreTypes
<1>1. SemaphoreInv(s)
  BY DEF AllSemaphores
<1>2. PICK i \in 1 .. Len(waiters[s]) :
         /\ waiters[s][i] = r
         /\ waiters' = [waiters EXCEPT ![s] = Without(@, i)]
  BY DEF Dequeue
<1>3. avail' = avail /\ held' = held /\ r \notin held[s]
  BY DEF Dequeue
<1> DEFINE q == waiters[s]
           w == waiters'[s]
<1>4. Len(q) \in Nat /\ q \in Seq(Requests)
  OBVIOUS
<1>5. w = [j \in 1 .. Len(q) - 1 |-> IF j < i THEN q[j] ELSE q[j + 1]]
  BY <1>2 DEF Without
<1>6. /\ w \in Seq(Requests)
      /\ Len(w) = Len(q) - 1
      /\ \A j \in 1 .. Len(w) : w[j] = IF j < i THEN q[j] ELSE q[j + 1]
  <2>1. \A j \in 1 .. Len(q) - 1 : (IF j < i THEN q[j] ELSE q[j + 1]) \in Requests
    BY <1>4
  <2> QED
    BY <1>4, <1>5, <2>1
<1> DEFINE K(j) == IF j < i THEN j ELSE j + 1
<1>k. ASSUME NEW j \in 1 .. Len(w)
      PROVE  K(j) \in 1 .. Len(q) /\ K(j) # i /\ w[j] = q[K(j)]
  <2>1. j \in Int /\ i \in Int /\ 1 <= j /\ j <= Len(q) - 1 /\ 1 <= i /\ i <= Len(q)
    BY <1>4, <1>6
  <2>2. w[j] = IF j < i THEN q[j] ELSE q[j + 1]
    BY <1>6
  <2>3. CASE j < i
    BY <1>4, <2>1, <2>2, <2>3
  <2>4. CASE ~(j < i)
    BY <1>4, <2>1, <2>2, <2>4
  <2> QED
    BY <2>3, <2>4
<1>7. SemaphoreTypes'
  BY <1>2, <1>3, <1>6
<1>8. Frame(s)
  BY <1>2, <1>3 DEF Frame
<1>9. Queued(s)' = Queued(s) \ {r}
  <2>1. ASSUME NEW j \in 1 .. Len(w) PROVE w[j] \in Queued(s) /\ w[j] # r
    <3>1. K(j) \in 1 .. Len(q) /\ K(j) # i /\ w[j] = q[K(j)]
      BY <1>k
    <3> HIDE DEF K
    <3> QED
      BY <1>1, <1>2, <3>1 DEF SemaphoreInv, Queued
  <2>2. Queued(s)' \subseteq Queued(s) \ {r}
    BY <2>1 DEF Queued
  <2>3. ASSUME NEW j \in 1 .. Len(q), q[j] # r
        PROVE  q[j] \in Queued(s)'
    <3>1. CASE j < i
      <4>1. j \in 1 .. Len(w) /\ w[j] = q[j]
        BY <1>4, <1>6, <3>1
      <4> QED
        BY <4>1 DEF Queued
    <3>2. CASE j > i
      <4>1. j - 1 \in 1 .. Len(w) /\ w[j - 1] = q[j]
        BY <1>4, <1>6, <3>2
      <4> QED
        BY <4>1 DEF Queued
    <3> QED
      BY <1>2, <1>4, <2>3, <3>1, <3>2
  <2> QED
    BY <2>2, <2>3 DEF Queued
<1>10. SemaphoreInv(s)'
  <2>1. ASSUME NEW j \in 1 .. Len(w), NEW k \in 1 .. Len(w), w[j] = w[k]
        PROVE  j = k
    <3>1. K(j) \in 1 .. Len(q) /\ K(k) \in 1 .. Len(q) /\ q[K(j)] = q[K(k)]
      BY <1>k, <2>1
    <3>2. K(j) = K(k)
      <4> HIDE DEF K
      <4> QED
        BY <1>1, <3>1 DEF SemaphoreInv
    <3> QED
      BY <3>2, <1>4, <1>6
  <2>2. avail'[s] = 0
    BY <1>1, <1>2, <1>3, <1>4 DEF SemaphoreInv
  <2> QED
    BY <1>1, <1>3, <1>9, <2>1, <2>2 DEF SemaphoreInv
<1> QED
  BY <1>1, <1>3, <1>7, <1>8, <1>9, <1>10, FrameSound DEF Members

\* Either way, an abandoned acquire leaves no trace.
LEMMA AbandonSound ==
  ASSUME NEW s \in Semaphores, NEW r \in Requests,
         SemaphoreTypes, AllSemaphores, Abandon(s, r)
  PROVE  /\ SemaphoreTypes'
         /\ AllSemaphores'
         /\ Frame(s)
         /\ Members(s)' = Members(s) \ {r}
         /\ held[s] \ {r} \subseteq held'[s]
BY DequeueSound, ReleaseSound DEF Abandon

-----------------------------------------------------------------------------
\* A fresh gate satisfies the invariant: every permit in, nobody queued.
LEMMA GateInvInit == Init => GateInv
<1> SUFFICES ASSUME Init PROVE GateInv
  OBVIOUS
<1> USE ConcurrencyAssumption DEF Init
<1>1. TypeOK
  BY DEF TypeOK, Stages
<1>2. ASSUME NEW s \in Semaphores PROVE held[s] = {} /\ Queued(s) = {} /\ waiters[s] = <<>>
  BY DEF Queued
<1>3. ASSUME NEW s \in Semaphores PROVE SemaphoreInv(s)
  BY <1>2, FS_EmptySet DEF SemaphoreInv
<1>4. PlacementInv
  BY <1>2 DEF PlacementInv, Members, Semaphores
<1> QED
  BY <1>1, <1>3, <1>4 DEF GateInv

\* Every step of every request preserves the invariant.
LEMMA GateInvNext == GateInv /\ [Next]_vars => GateInv'
<1> SUFFICES ASSUME GateInv, [Next]_vars PROVE GateInv'
  OBVIOUS
<1> USE ConcurrencyAssumption
<1>1. SemaphoreTypes /\ AllSemaphores /\ PlacementInv /\ pc \in [Requests -> Stages]
  BY DEF GateInv, TypeOK, SemaphoreTypes, AllSemaphores
<1> DEFINE Goal == SemaphoreTypes' /\ AllSemaphores' /\ PlacementInv'
                   /\ pc' \in [Requests -> Stages]
<1> SUFFICES Goal
  BY DEF GateInv, TypeOK, SemaphoreTypes, AllSemaphores
<1>g. Global \in Semaphores /\ Global \notin Capped
  BY DEF Semaphores
<1>c. \A s \in Capped : s \in Semaphores /\ s # Global
  BY DEF Semaphores
<1>2. CASE UNCHANGED vars
  BY <1>1, <1>2 DEF vars, SemaphoreTypes, AllSemaphores, SemaphoreInv,
     PlacementInv, Members, Queued
<1>3. ASSUME NEW r \in Requests, Arrive(r)
      PROVE  Goal
  <2>1. r \notin Members(Global)
    BY <1>1, <1>3 DEF PlacementInv, Arrive
  <2>2. /\ pc' = [pc EXCEPT ![r] = IF avail[Global] > 0 THEN "granted" ELSE "global"]
        /\ pc[r] = "idle"
    BY <1>3 DEF Arrive, Goto
  <2>3. /\ SemaphoreTypes' /\ AllSemaphores' /\ Frame(Global)
        /\ Members(Global)' = Members(Global) \cup {r}
        /\ held[Global] \subseteq held'[Global]
        /\ avail[Global] > 0 => r \in held'[Global]
    BY <1>1, <1>3, <1>g, <2>1, AcquireSound DEF Arrive
  <2>4. \A s \in Capped : Members(s)' = Members(s) /\ held'[s] = held[s]
    BY <1>c, <2>3 DEF Frame, Members, Queued
  <2>5. PlacementInv'
    BY <1>1, <2>2, <2>3, <2>4 DEF PlacementInv, HasRouteLimit
  <2> QED
    BY <1>1, <2>2, <2>3, <2>5 DEF Stages
<1>4. ASSUME NEW r \in Requests, AcquireRoute(r)
      PROVE  Goal
  <2>1. RouteOf[r] \in Capped /\ r \notin Members(RouteOf[r]) /\ r \in held[Global]
    BY <1>1, <1>4 DEF PlacementInv, HasRouteLimit, AcquireRoute, HasGlobal
  <2>2. /\ pc' = [pc EXCEPT ![r] = IF avail[RouteOf[r]] > 0 THEN "running" ELSE "route"]
        /\ pc[r] \in {"global", "granted"}
    BY <1>4 DEF AcquireRoute, HasGlobal, Goto
  <2>3. /\ SemaphoreTypes' /\ AllSemaphores' /\ Frame(RouteOf[r])
        /\ Members(RouteOf[r])' = Members(RouteOf[r]) \cup {r}
        /\ held[RouteOf[r]] \subseteq held'[RouteOf[r]]
        /\ avail[RouteOf[r]] > 0 => r \in held'[RouteOf[r]]
    BY <1>1, <1>4, <1>c, <2>1, AcquireSound DEF AcquireRoute
  <2>4. \A s \in Semaphores \ {RouteOf[r]} :
           Members(s)' = Members(s) /\ held'[s] = held[s]
    BY <2>3 DEF Frame, Members, Queued
  <2>5. PlacementInv'
    BY <1>1, <1>g, <1>c, <2>1, <2>2, <2>3, <2>4 DEF PlacementInv, HasRouteLimit
  <2> QED
    BY <1>1, <2>2, <2>3, <2>5 DEF Stages
<1>5. ASSUME NEW r \in Requests, SkipRoute(r)
      PROVE  Goal
  <2>1. pc' = [pc EXCEPT ![r] = "running"] /\ pc[r] \in {"global", "granted"}
    BY <1>5 DEF SkipRoute, HasGlobal, Goto
  <2>2. UNCHANGED <<avail, held, waiters>>
    BY <1>5 DEF SkipRoute
  <2>3. SemaphoreTypes' /\ AllSemaphores'
    BY <1>1, <2>2 DEF SemaphoreTypes, AllSemaphores, SemaphoreInv, Queued
  <2>4. \A s \in Semaphores : Members(s)' = Members(s) /\ held'[s] = held[s]
    BY <2>2 DEF Members, Queued
  <2>5. PlacementInv'
    BY <1>1, <1>5, <1>g, <1>c, <2>1, <2>4 DEF PlacementInv, HasRouteLimit, SkipRoute, HasGlobal
  <2> QED
    BY <1>1, <2>1, <2>3, <2>5 DEF Stages
<1>6. ASSUME NEW r \in Requests, Enter(r)
      PROVE  Goal
  <2>1. pc' = [pc EXCEPT ![r] = "running"] /\ pc[r] = "route"
    BY <1>6 DEF Enter, Goto
  <2>2. UNCHANGED <<avail, held, waiters>>
    BY <1>6 DEF Enter
  <2>3. SemaphoreTypes' /\ AllSemaphores'
    BY <1>1, <2>2 DEF SemaphoreTypes, AllSemaphores, SemaphoreInv, Queued
  <2>4. \A s \in Semaphores : Members(s)' = Members(s) /\ held'[s] = held[s]
    BY <2>2 DEF Members, Queued
  <2>5. PlacementInv'
    BY <1>1, <1>6, <1>g, <1>c, <2>1, <2>4 DEF PlacementInv, HasRouteLimit, Enter
  <2> QED
    BY <1>1, <2>1, <2>3, <2>5 DEF Stages
<1>7. ASSUME NEW r \in Requests, TimeoutGlobal(r)
      PROVE  Goal
  <2>2. pc' = [pc EXCEPT ![r] = "rejected"] /\ pc[r] = "global"
    BY <1>7 DEF TimeoutGlobal, Goto
  <2>3. /\ SemaphoreTypes' /\ AllSemaphores' /\ Frame(Global)
        /\ Members(Global)' = Members(Global) \ {r}
        /\ held[Global] \ {r} \subseteq held'[Global]
    BY <1>1, <1>7, <1>g, AbandonSound DEF TimeoutGlobal
  <2>4. \A s \in Capped : Members(s)' = Members(s) /\ held'[s] = held[s]
    BY <1>c, <2>3 DEF Frame, Members, Queued
  <2>5. PlacementInv'
    BY <1>1, <2>2, <2>3, <2>4 DEF PlacementInv, HasRouteLimit
  <2> QED
    BY <1>1, <2>2, <2>3, <2>5 DEF Stages
<1>8. ASSUME NEW r \in Requests, TimeoutRoute(r)
      PROVE  Goal
  <2>1. RouteOf[r] \in Capped
    BY <1>1, <1>8 DEF PlacementInv, HasRouteLimit, TimeoutRoute
  <2>2. pc' = [pc EXCEPT ![r] = "unwind"] /\ pc[r] = "route"
    BY <1>8 DEF TimeoutRoute, Goto
  <2>3. /\ SemaphoreTypes' /\ AllSemaphores' /\ Frame(RouteOf[r])
        /\ Members(RouteOf[r])' = Members(RouteOf[r]) \ {r}
        /\ held[RouteOf[r]] \ {r} \subseteq held'[RouteOf[r]]
    BY <1>1, <1>8, <1>c, <2>1, AbandonSound DEF TimeoutRoute
  <2>4. \A s \in Semaphores \ {RouteOf[r]} :
           Members(s)' = Members(s) /\ held'[s] = held[s]
    BY <2>3 DEF Frame, Members, Queued
  <2>5. PlacementInv'
    BY <1>1, <1>8, <1>g, <1>c, <2>1, <2>2, <2>3, <2>4 DEF PlacementInv, HasRouteLimit, TimeoutRoute
  <2> QED
    BY <1>1, <2>2, <2>3, <2>5 DEF Stages
<1>9. ASSUME NEW r \in Requests, CancelGlobal(r)
      PROVE  Goal
  <2>2. pc' = [pc EXCEPT ![r] = "idle"] /\ pc[r] = "global"
    BY <1>9 DEF CancelGlobal, Goto
  <2>3. /\ SemaphoreTypes' /\ AllSemaphores' /\ Frame(Global)
        /\ Members(Global)' = Members(Global) \ {r}
        /\ held[Global] \ {r} \subseteq held'[Global]
    BY <1>1, <1>9, <1>g, AbandonSound DEF CancelGlobal
  <2>4. \A s \in Capped : Members(s)' = Members(s) /\ held'[s] = held[s]
    BY <1>c, <2>3 DEF Frame, Members, Queued
  <2>5. PlacementInv'
    BY <1>1, <2>2, <2>3, <2>4 DEF PlacementInv, HasRouteLimit
  <2> QED
    BY <1>1, <2>2, <2>3, <2>5 DEF Stages
<1>10. ASSUME NEW r \in Requests, CancelRoute(r)
      PROVE  Goal
  <2>1. RouteOf[r] \in Capped
    BY <1>1, <1>10 DEF PlacementInv, HasRouteLimit, CancelRoute
  <2>2. pc' = [pc EXCEPT ![r] = "abort"] /\ pc[r] = "route"
    BY <1>10 DEF CancelRoute, Goto
  <2>3. /\ SemaphoreTypes' /\ AllSemaphores' /\ Frame(RouteOf[r])
        /\ Members(RouteOf[r])' = Members(RouteOf[r]) \ {r}
        /\ held[RouteOf[r]] \ {r} \subseteq held'[RouteOf[r]]
    BY <1>1, <1>10, <1>c, <2>1, AbandonSound DEF CancelRoute
  <2>4. \A s \in Semaphores \ {RouteOf[r]} :
           Members(s)' = Members(s) /\ held'[s] = held[s]
    BY <2>3 DEF Frame, Members, Queued
  <2>5. PlacementInv'
    BY <1>1, <1>10, <1>g, <1>c, <2>1, <2>2, <2>3, <2>4 DEF PlacementInv, HasRouteLimit, CancelRoute
  <2> QED
    BY <1>1, <2>2, <2>3, <2>5 DEF Stages
<1>11. ASSUME NEW r \in Requests, Unwind(r)
      PROVE  Goal
  <2>1. r \in held[Global]
    BY <1>1, <1>11 DEF PlacementInv, Unwind
  <2>2. pc' = [pc EXCEPT ![r] = IF pc[r] = "unwind" THEN "rejected" ELSE "idle"] /\ pc[r] \in {"unwind", "abort"}
    BY <1>11 DEF Unwind, Goto
  <2>3. /\ SemaphoreTypes' /\ AllSemaphores' /\ Frame(Global)
        /\ Members(Global)' = Members(Global) \ {r}
        /\ held[Global] \ {r} \subseteq held'[Global]
    BY <1>1, <1>11, <1>g, <2>1, ReleaseSound DEF Unwind
  <2>4. \A s \in Capped : Members(s)' = Members(s) /\ held'[s] = held[s]
    BY <1>c, <2>3 DEF Frame, Members, Queued
  <2>5. PlacementInv'
    BY <1>1, <2>2, <2>3, <2>4 DEF PlacementInv, HasRouteLimit
  <2> QED
    BY <1>1, <2>2, <2>3, <2>5 DEF Stages
<1>12. ASSUME NEW r \in Requests, Finish(r)
      PROVE  Goal
  <2>1. r \in held[Global]
    BY <1>1, <1>12 DEF PlacementInv, Finish
  <2>2. pc' = [pc EXCEPT ![r] = IF HasRouteLimit(r) THEN "drop" ELSE "idle"] /\ pc[r] = "running"
    BY <1>12 DEF Finish, Goto
  <2>3. /\ SemaphoreTypes' /\ AllSemaphores' /\ Frame(Global)
        /\ Members(Global)' = Members(Global) \ {r}
        /\ held[Global] \ {r} \subseteq held'[Global]
    BY <1>1, <1>12, <1>g, <2>1, ReleaseSound DEF Finish
  <2>4. \A s \in Capped : Members(s)' = Members(s) /\ held'[s] = held[s]
    BY <1>c, <2>3 DEF Frame, Members, Queued
  <2>5. PlacementInv'
    BY <1>1, <2>2, <2>3, <2>4 DEF PlacementInv, HasRouteLimit
  <2> QED
    BY <1>1, <2>2, <2>3, <2>5 DEF Stages
<1>13. ASSUME NEW r \in Requests, DropRoute(r)
      PROVE  Goal
  <2>1. RouteOf[r] \in Capped /\ r \in held[RouteOf[r]]
    BY <1>1, <1>13 DEF PlacementInv, HasRouteLimit, DropRoute
  <2>2. pc' = [pc EXCEPT ![r] = "idle"] /\ pc[r] = "drop"
    BY <1>13 DEF DropRoute, Goto
  <2>3. /\ SemaphoreTypes' /\ AllSemaphores' /\ Frame(RouteOf[r])
        /\ Members(RouteOf[r])' = Members(RouteOf[r]) \ {r}
        /\ held[RouteOf[r]] \ {r} \subseteq held'[RouteOf[r]]
    BY <1>1, <1>13, <1>c, <2>1, ReleaseSound DEF DropRoute
  <2>4. \A s \in Semaphores \ {RouteOf[r]} :
           Members(s)' = Members(s) /\ held'[s] = held[s]
    BY <2>3 DEF Frame, Members, Queued
  <2>5. PlacementInv'
    BY <1>1, <1>13, <1>g, <1>c, <2>1, <2>2, <2>3, <2>4 DEF PlacementInv, HasRouteLimit, DropRoute
  <2> QED
    BY <1>1, <2>2, <2>3, <2>5 DEF Stages
<1>14. ASSUME NEW r \in Requests, Answer503(r)
      PROVE  Goal
  <2>1. pc' = [pc EXCEPT ![r] = "idle"] /\ pc[r] = "rejected"
    BY <1>14 DEF Answer503, Goto
  <2>2. UNCHANGED <<avail, held, waiters>>
    BY <1>14 DEF Answer503
  <2>3. SemaphoreTypes' /\ AllSemaphores'
    BY <1>1, <2>2 DEF SemaphoreTypes, AllSemaphores, SemaphoreInv, Queued
  <2>4. \A s \in Semaphores : Members(s)' = Members(s) /\ held'[s] = held[s]
    BY <2>2 DEF Members, Queued
  <2>5. PlacementInv'
    BY <1>1, <1>14, <1>g, <1>c, <2>1, <2>4 DEF PlacementInv, HasRouteLimit, Answer503
  <2> QED
    BY <1>1, <2>1, <2>3, <2>5 DEF Stages
<1> QED
  BY <1>2, <1>3, <1>4, <1>5, <1>6, <1>7, <1>8, <1>9, <1>10, <1>11, <1>12, <1>13,
     <1>14 DEF Next

\* The inductive invariant holds of the gate.
THEOREM GateInvariant == Spec => []GateInv
BY GateInvInit, GateInvNext, PTL DEF Spec

\* Every semaphore and every request keeps its type.
THEOREM GateTypes == Spec => []TypeOK
BY GateInvariant, PTL DEF GateInv

\* Permits are neither lost nor made, and a request that is over holds and
\* waits for nothing, for every set of requests and every configuration of
\* limits (zero included).
THEOREM GateSafety == Spec => [](PermitConservation /\ NothingLeftBehind)
<1>1. GateInv => PermitConservation
  BY DEF GateInv, SemaphoreInv, PermitConservation
<1>2. GateInv => NothingLeftBehind
  BY DEF GateInv, PlacementInv, NothingLeftBehind, Members, Semaphores
<1> QED
  BY <1>1, <1>2, GateInvariant, PTL

-----------------------------------------------------------------------------
(* The refinement of Admission *)

Running == {r \in Requests : pc[r] = "running"}

\* Holders of permits are never more than the ceilings allow: a (permits in) and
\* h (permits out) stand for the semaphores before or after a step.
LEMMA HeldAdmissible ==
  ASSUME NEW a, NEW h, NEW S \in SUBSET Requests,
         \A s \in Semaphores : IsFiniteSet(h[s]) /\ a[s] \in Nat
                               /\ a[s] + Cardinality(h[s]) = Limit[s],
         S \subseteq h[Global],
         \A r \in S : HasRouteLimit(r) => r \in h[RouteOf[r]]
  PROVE  Gate!Admissible(S)
<1> USE ConcurrencyAssumption
<1>1. ASSUME NEW s \in Semaphores, NEW T \in SUBSET h[s]
      PROVE  Cardinality(T) <= Limit[s]
  <2>2. /\ Cardinality(h[s]) \in Nat
        /\ Cardinality(T) \in Nat
        /\ Cardinality(T) <= Cardinality(h[s])
    BY FS_Subset, FS_CardinalityType
  <2> QED
    BY <2>2
<1>2. Cardinality(S) <= Limit[Global]
  BY <1>1 DEF Semaphores
<1>3. ASSUME NEW rt \in Capped PROVE Cardinality(Gate!OnRoute(S, rt)) <= Limit[rt]
  <2>1. Gate!OnRoute(S, rt) \in SUBSET h[rt]
    BY DEF Gate!OnRoute, HasRouteLimit
  <2> QED
    BY <1>1, <2>1 DEF Semaphores
<1> QED
  BY <1>2, <1>3 DEF Gate!Admissible, Gate!Cardinality, Cardinality

\* Every step of the gate is an admission, a departure or invisible.
LEMMA GateStep == GateInv /\ [Next]_vars => [Gate!Next]_Running
<1> SUFFICES ASSUME GateInv, [Next]_vars PROVE [Gate!Next]_Running
  OBVIOUS
<1> USE ConcurrencyAssumption
<1>0. pc \in [Requests -> Stages] /\ PlacementInv
  BY DEF GateInv, TypeOK
<1>1. ASSUME NEW r \in Requests, NEW stage, Goto(r, stage),
             pc[r] # "running", stage # "running"
      PROVE  Running' = Running
  BY <1>0, <1>1 DEF Running, Goto
<1>2. ASSUME NEW r \in Requests, SkipRoute(r) \/ Enter(r)
      PROVE  Gate!Next
  <2>1. Running' = Running \cup {r} /\ r \notin Running
    BY <1>0, <1>2 DEF Running, SkipRoute, Enter, HasGlobal, Goto
  <2>2. /\ Running \cup {r} \in SUBSET Requests
        /\ Running \cup {r} \subseteq held[Global]
        /\ \A q \in Running \cup {r} : HasRouteLimit(q) => q \in held[RouteOf[q]]
    BY <1>0, <1>2 DEF PlacementInv, Running, HasRouteLimit, SkipRoute, Enter, HasGlobal
  <2>3. Gate!Admissible(Running \cup {r})
    <3>1. \A s \in Semaphores : IsFiniteSet(held[s]) /\ avail[s] \in Nat
                                /\ avail[s] + Cardinality(held[s]) = Limit[s]
      BY DEF GateInv, SemaphoreInv, TypeOK
    <3> QED
      BY <2>2, <3>1, HeldAdmissible
  <2>4. Gate!Admit(r)
    BY <2>1, <2>3 DEF Gate!Admit, Running
  <2> QED
    BY <2>4 DEF Gate!Next
<1>3. ASSUME NEW r \in Requests, Finish(r)
      PROVE  Gate!Next
  <2>1. Running' = Running \ {r} /\ r \in Running
    BY <1>0, <1>3 DEF Running, Finish, Goto
  <2>2. Gate!Leave(r)
    BY <2>1 DEF Gate!Leave, Running
  <2> QED
    BY <2>2 DEF Gate!Next
<1>4. ASSUME NEW r \in Requests,
             \/ Arrive(r) \/ TimeoutGlobal(r) \/ TimeoutRoute(r)
             \/ CancelGlobal(r) \/ CancelRoute(r) \/ Unwind(r) \/ DropRoute(r)
             \/ Answer503(r)
      PROVE  Running' = Running
  BY <1>1, <1>4 DEF Arrive, TimeoutGlobal, TimeoutRoute,
     CancelGlobal, CancelRoute, Unwind, DropRoute, Answer503
<1>5. ASSUME NEW r \in Requests, AcquireRoute(r)
      PROVE  [Gate!Next]_Running
  <2>0. pc[r] # "running"
    BY <1>5 DEF AcquireRoute, HasGlobal
  <2>1. CASE avail[RouteOf[r]] > 0
    <3>0. GateInv'
      BY GateInvNext
    <3>1. Running' = Running \cup {r} /\ r \notin Running
      BY <1>0, <1>5, <2>0, <2>1 DEF Running, AcquireRoute, Goto
    <3>2. /\ Running' \in SUBSET Requests
          /\ Running' \subseteq held'[Global]
          /\ \A q \in Running' : HasRouteLimit(q) => q \in held'[RouteOf[q]]
      BY <3>0 DEF GateInv, PlacementInv, Running, HasRouteLimit
    <3>3. Gate!Admissible(Running \cup {r})
      <4>1. \A s \in Semaphores : IsFiniteSet(held'[s]) /\ avail'[s] \in Nat
                                  /\ avail'[s] + Cardinality(held'[s]) = Limit[s]
        BY <3>0 DEF GateInv, SemaphoreInv, TypeOK
      <4> QED
        BY <3>1, <3>2, <4>1, HeldAdmissible
    <3>4. Gate!Admit(r)
      BY <3>1, <3>3 DEF Gate!Admit, Running
    <3> QED
      BY <3>4 DEF Gate!Next
  <2>2. CASE ~(avail[RouteOf[r]] > 0)
    BY <1>1, <1>5, <2>0, <2>2 DEF AcquireRoute
  <2> QED
    BY <2>1, <2>2
<1>6. CASE UNCHANGED vars
  BY <1>6 DEF vars, Running
<1> QED
  BY <1>2, <1>3, <1>4, <1>5, <1>6 DEF Next

\* The gate implements its abstract specification: for every configuration the
\* requests past it stay within the global and the per-route ceilings.
THEOREM GateRefinesAdmission == Spec => ImplementsAdmission
<1>1. Init => Gate!Init
  BY DEF Init, Gate!Init
<1>2. GateInv /\ [Next]_vars => [Gate!Next]_Running
  BY GateStep
<1> QED
  BY <1>1, <1>2, GateInvariant, PTL DEF Spec, ImplementsAdmission, Gate!Spec, Running
=============================================================================
