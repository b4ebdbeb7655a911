----------------------------- MODULE CacheProofs -----------------------------
(***************************************************************************)
(* Proofs about the response cache, for any number of gateways and         *)
(* requests, every clock skew and whatever the upstream answers.           *)
(*                                                                         *)
(* The two properties speak of the stores and of what is served.  They are *)
(* inductive only with the entries that requests have in hand between two  *)
(* awaits: who may hold a private one, and how old one may be on its way   *)
(* to Redis and back.  What a request does with a key also depends on      *)
(* a fact of its own: what is under the base key never varies, so that a   *)
(* request works with an extended key only to store under it.              *)
(***************************************************************************)
EXTENDS Cache, TLAPS

Storing == {"store", "store_insert", "l2_put"}
Promoting == {"promote", "promote_insert"}

\* The stamp of an entry is the fetching gateway's time.
Stamped(e) == e.created <= time /\ e.stored_at = e.created + Skew[e.by]

\* L1 of a gateway: well-formed, nothing under the base key varies, and what is
\* private was fetched here.
L1Inv(g) ==
  /\ DOMAIN l1[g] \subseteq Keys
  /\ \A k \in DOMAIN l1[g] :
       /\ l1[g][k] \in Entry /\ Stamped(l1[g][k])
       /\ k = Base => ~l1[g][k].varies
       /\ l1[g][k].private => l1[g][k].by = g

\* Redis: the same, nothing is private, and a ttl counts from when Redis got the
\* entry.
L2Inv ==
  /\ DOMAIN l2 \subseteq Keys
  /\ \A k \in DOMAIN l2 :
       /\ l2[k] \in [entry : Entry, expires : Nat] /\ Stamped(l2[k].entry)
       /\ k = Base => ~l2[k].entry.varies
       /\ ~l2[k].entry.private
       /\ time < l2[k].expires
       /\ l2[k].expires <= l2[k].entry.created + l2[k].entry.ttl + MaxDelay

\* What Redis returns for the base key is public and varies on nothing.
Returned(e) == e \in Entry /\ Stamped(e) /\ ~e.varies /\ ~e.private

\* What a request has in hand.  It works with the base key unless it stores; on
\* its way to Redis an entry is at home and as old as the await; on its way from
\* Redis it is public and older than its ttl by no more than both ways take.
RequestInv(r) ==
  /\ pc[r] \notin {"idle", "l2_del"} => at[r] \in Gateways
  /\ pc[r] \notin {"l2_full", "l2_full_reply"}
  /\ pc[r] \notin Storing => key[r] = Base
  /\ pc[r] \in Storing \cup Promoting =>
       /\ entry[r] \in Entry /\ Stamped(entry[r])
       /\ key[r] = Base => ~entry[r].varies
  /\ pc[r] \in Storing => entry[r].by = at[r]
  /\ pc[r] \in {"store", "store_insert"} => entry[r].created = time
  /\ pc[r] = "l2_put" => time - entry[r].created <= wait[r]
  /\ pc[r] = "l2_base_reply" /\ reply[r] # None =>
       /\ Returned(reply[r])
       /\ time < reply[r].created + reply[r].ttl + MaxDelay + wait[r]
  /\ pc[r] \in Promoting =>
       ~entry[r].private /\ time < entry[r].created + entry[r].ttl + 2 * MaxDelay
  /\ pc[r] = "hit" => ~entry[r].varies

\* The variables other than the stores have their types.
Shape ==
  /\ time \in 0 .. MaxTime /\ DOMAIN l1 = Gateways
  /\ pc \in [Requests -> Stages]
  /\ at \in [Requests -> Gateways \cup {None}]
  /\ value \in [Requests -> Values \cup {None}]
  /\ key \in [Requests -> Keys]
  /\ entry \in [Requests -> Entry \cup {None}]
  /\ reply \in [Requests -> Entry \cup {None}]
  /\ victim \in [Requests -> Keys \cup {None}]
  /\ wait \in [Requests -> 0 .. MaxDelay]
  /\ changes \in 0 .. MaxChanges

CacheInv ==
  /\ Shape
  /\ \A g \in Gateways : L1Inv(g)
  /\ L2Inv
  /\ \A r \in Requests : RequestInv(r)

-----------------------------------------------------------------------------
(* The maps *)

\* Removing a key leaves the others alone.
LEMMA WithoutKey ==
  ASSUME NEW f, NEW k
  PROVE  /\ DOMAIN Without(f, k) = DOMAIN f \ {k}
         /\ \A x \in DOMAIN f \ {k} : Without(f, k)[x] = f[x]
BY DEF Without, RestrictDomain, Restrict

-----------------------------------------------------------------------------
(* Steps of one request *)

\* A step of request r at a moment leaves the other requests alone.
OnlyBy(r) ==
  /\ time' = time
  /\ \A q \in Requests \ {r} :
       UNCHANGED <<pc[q], at[q], key[q], entry[q], reply[q], wait[q]>>

LEMMA OthersKept ==
  ASSUME CacheInv, NEW r \in Requests, OnlyBy(r)
  PROVE  \A q \in Requests \ {r} : RequestInv(q)'
BY DEF CacheInv, OnlyBy, RequestInv, Returned, Stamped

LEMMA L1Kept ==
  ASSUME CacheInv, NEW g \in Gateways, l1'[g] = l1[g], time' = time
  PROVE  L1Inv(g)'
BY DEF CacheInv, L1Inv, Stamped

LEMMA L2Kept ==
  ASSUME CacheInv, UNCHANGED l2, time' = time
  PROVE  L2Inv'
BY DEF CacheInv, L2Inv, Stamped

\* A step that only moves request r.
LEMMA RequestStep ==
  ASSUME CacheInv, NEW r \in Requests, OnlyBy(r), UNCHANGED <<l1, l2>>,
         Shape', RequestInv(r)'
  PROVE  CacheInv'
<1>1. \A q \in Requests : RequestInv(q)'
  BY OthersKept
<1>2. \A g \in Gateways : L1Inv(g)'
  BY L1Kept DEF OnlyBy
<1>3. L2Inv'
  BY L2Kept DEF OnlyBy
<1>4. QED
  BY <1>1, <1>2, <1>3 DEF CacheInv

\* A key removed from L1 or L2 is all that changes.
LEMMA DropKept ==
  ASSUME CacheInv, NEW g \in Gateways, NEW k, time' = time,
         l1' = [l1 EXCEPT ![g] = Without(@, k)]
  PROVE  DOMAIN l1' = Gateways /\ \A h \in Gateways : L1Inv(h)'
<1>1. DOMAIN l1' = Gateways /\ l1'[g] = Without(l1[g], k)
      /\ \A h \in Gateways \ {g} : l1'[h] = l1[h]
  BY DEF CacheInv, Shape
<1>2. L1Inv(g)'
  <2>1. /\ DOMAIN l1'[g] \subseteq DOMAIN l1[g]
        /\ \A x \in DOMAIN l1'[g] : l1'[g][x] = l1[g][x]
    <3>1. /\ DOMAIN Without(l1[g], k) = DOMAIN l1[g] \ {k}
          /\ \A x \in DOMAIN l1[g] \ {k} : Without(l1[g], k)[x] = l1[g][x]
      BY WithoutKey
    <3>2. QED
      BY <1>1, <3>1
  <2>2. L1Inv(g)
    BY DEF CacheInv
  <2>3. QED
    BY <2>1, <2>2 DEF L1Inv, Stamped
<1>3. QED
  BY <1>1, <1>2, L1Kept

\* The request is over.
LEMMA DoneSound ==
  ASSUME CacheInv, NEW r \in Requests, Done(r), UNCHANGED time,
         DOMAIN l1' = Gateways, changes' \in 0 .. MaxChanges
  PROVE  Shape' /\ RequestInv(r)' /\ OnlyBy(r)
<1>1. /\ pc' = [pc EXCEPT ![r] = "idle"] /\ wait' = [wait EXCEPT ![r] = 0]
      /\ key' = [key EXCEPT ![r] = Base] /\ entry' = [entry EXCEPT ![r] = None]
      /\ at' = [at EXCEPT ![r] = None] /\ value' = [value EXCEPT ![r] = None]
      /\ victim' = [victim EXCEPT ![r] = None] /\ reply' = [reply EXCEPT ![r] = None]
  BY DEF Done, Goto, Hold
<1>2. Shape'
  BY <1>1, CacheAssumption DEF CacheInv, Shape, Stages, Keys
<1>3. pc'[r] = "idle" /\ key'[r] = Base
  BY <1>1 DEF CacheInv, Shape
<1>4. RequestInv(r)'
  BY <1>3 DEF RequestInv, Storing, Promoting
<1>5. QED
  BY <1>1, <1>2, <1>4 DEF OnlyBy, CacheInv, Shape

-----------------------------------------------------------------------------
(* lookup *)

LEMMA ArriveSound ==
  ASSUME CacheInv, NEW r \in Requests, NEW g \in Gateways, NEW v \in Values,
         Lookup(r, g, v) \/ Bypass(r, g, v)
  PROVE  CacheInv'
<1>0. PICK stage \in {"l1_base", "upstream"} :
        /\ pc[r] = "idle" /\ pc' = [pc EXCEPT ![r] = stage]
        /\ wait' = [wait EXCEPT ![r] = 0] /\ at' = [at EXCEPT ![r] = g]
        /\ value' = [value EXCEPT ![r] = v]
        /\ UNCHANGED <<time, l1, l2, key, entry, reply, victim, changes>>
  BY DEF Lookup, Bypass, Goto
<1>1. Shape'
  BY <1>0, CacheAssumption DEF CacheInv, Shape, Stages, Awaiting
<1>2. OnlyBy(r)
  BY <1>0 DEF OnlyBy, CacheInv, Shape
<1>3. pc'[r] = stage /\ at'[r] = g /\ key'[r] = Base
  BY <1>0 DEF CacheInv, Shape, RequestInv, Storing
<1>4. RequestInv(r)'
  BY <1>3 DEF RequestInv, Storing, Promoting
<1>5. QED
  BY <1>0, <1>1, <1>2, <1>4, RequestStep

\* A step to a stage in which the request has the base key and no entry.
LEMMA SearchSound ==
  ASSUME CacheInv, NEW r \in Requests,
         pc[r] \notin {"idle", "l2_del"},
         NEW stage \in {"l1_full", "l1_drop", "l2_base", "upstream"},
         Goto(r, stage), key' = [key EXCEPT ![r] = Base],
         reply' = reply \/ reply' = [reply EXCEPT ![r] = None],
         DOMAIN l1' = Gateways, UNCHANGED <<time, at, value, entry, victim, changes>>
  PROVE  Shape' /\ RequestInv(r)' /\ OnlyBy(r)
<1>1. Shape'
  BY CacheAssumption DEF CacheInv, Shape, Stages, Awaiting, Keys, Goto
<1>2. OnlyBy(r)
  BY DEF OnlyBy, CacheInv, Shape, Goto
<1>3. pc'[r] = stage /\ at'[r] \in Gateways /\ key'[r] = Base
  BY DEF CacheInv, Shape, RequestInv, Goto
<1>4. RequestInv(r)'
  BY <1>3 DEF RequestInv, Storing, Promoting
<1>5. QED
  BY <1>1, <1>2, <1>4

\* A key that already is the base key.
LEMMA KeyIsBase ==
  ASSUME CacheInv, NEW r \in Requests, pc[r] \notin Storing
  PROVE  key[r] = Base /\ key = [key EXCEPT ![r] = Base]
<1>1. key[r] = Base
  BY DEF CacheInv, RequestInv
<1>2. QED
  BY <1>1 DEF CacheInv, Shape

LEMMA GetL1MissSound ==
  ASSUME CacheInv, NEW r \in Requests, GetL1Miss(r)
  PROVE  CacheInv'
<1>1. PICK stage \in {"l1_drop", "l2_base"} :
        Goto(r, stage) /\ key' = [key EXCEPT ![r] = Base]
  BY KeyIsBase DEF GetL1Miss, Storing
<1>2. /\ pc[r] \notin {"idle", "l2_del"} /\ DOMAIN l1' = Gateways
      /\ UNCHANGED <<time, l1, l2, at, value, entry, reply, victim, changes>>
  BY DEF GetL1Miss, CacheInv, Shape
<1>3. Shape' /\ RequestInv(r)' /\ OnlyBy(r)
  BY <1>1, <1>2, SearchSound
<1>4. QED
  BY <1>2, <1>3, RequestStep

LEMMA DropExpiredSound ==
  ASSUME CacheInv, NEW r \in Requests, DropExpired(r)
  PROVE  CacheInv'
<1>1. /\ pc[r] = "l1_drop" /\ Goto(r, "l2_base") /\ key' = [key EXCEPT ![r] = Base]
      /\ l1' = [l1 EXCEPT ![at[r]] = Without(@, key[r])]
      /\ UNCHANGED <<time, l2, at, value, entry, reply, victim, changes>>
  BY DEF DropExpired
<1>2. at[r] \in Gateways
  BY <1>1 DEF CacheInv, RequestInv
<1>3. DOMAIN l1' = Gateways /\ \A h \in Gateways : L1Inv(h)'
  BY <1>1, <1>2, DropKept
<1>4. Shape' /\ RequestInv(r)' /\ OnlyBy(r)
  BY <1>1, <1>3, SearchSound
<1>5. QED
  BY <1>1, <1>3, <1>4, OthersKept, L2Kept DEF CacheInv

LEMMA GetL1BaseSound ==
  ASSUME CacheInv, NEW r \in Requests, GetL1Base(r)
  PROVE  CacheInv'
<1>1. /\ pc[r] = "l1_base" /\ Goto(r, "l1_full") /\ Found(r)
      /\ key' = [key EXCEPT ![r] = with_vary(l1[at[r]][key[r]].varies, value[r])]
      /\ UNCHANGED <<time, l1, l2, at, value, entry, reply, victim, changes>>
  BY DEF GetL1Base
<1>2. at[r] \in Gateways /\ key[r] = Base
  BY <1>1 DEF CacheInv, RequestInv, Storing
<1>3. ~l1[at[r]][key[r]].varies
  BY <1>1, <1>2 DEF CacheInv, L1Inv, Found
<1>4. key' = [key EXCEPT ![r] = Base]
  BY <1>1, <1>3 DEF with_vary
<1>5. Shape' /\ RequestInv(r)' /\ OnlyBy(r)
  BY <1>1, <1>4, SearchSound DEF CacheInv, Shape
<1>6. QED
  BY <1>1, <1>5, RequestStep

LEMMA GetL1FullSound ==
  ASSUME CacheInv, NEW r \in Requests, GetL1Full(r)
  PROVE  CacheInv'
<1>1. /\ pc[r] = "l1_full" /\ Found(r)
      /\ pc' = [pc EXCEPT ![r] = "hit"] /\ wait' = [wait EXCEPT ![r] = 0]
      /\ key' = [key EXCEPT ![r] = key[r]]
      /\ entry' = [entry EXCEPT ![r] = l1[at[r]][key[r]]]
      /\ UNCHANGED <<time, l1, l2, at, value, reply, victim, changes>>
  BY DEF GetL1Full, Hold, Goto
<1>2. at[r] \in Gateways /\ key[r] = Base
  BY <1>1 DEF CacheInv, RequestInv, Storing
<1>3. l1[at[r]][key[r]] \in Entry /\ ~l1[at[r]][key[r]].varies
  BY <1>1, <1>2 DEF CacheInv, L1Inv, Found
<1>4. Shape'
  BY <1>1, <1>3, CacheAssumption DEF CacheInv, Shape, Stages
<1>5. OnlyBy(r)
  BY <1>1 DEF OnlyBy, CacheInv, Shape
<1>6. /\ pc'[r] = "hit" /\ at'[r] \in Gateways /\ key'[r] = Base
      /\ entry'[r] = l1[at[r]][key[r]]
  BY <1>1, <1>2 DEF CacheInv, Shape
<1>7. RequestInv(r)'
  BY <1>3, <1>6 DEF RequestInv, Storing, Promoting
<1>8. QED
  BY <1>1, <1>4, <1>5, <1>7, RequestStep

\* What Redis has under the base key is not much older than its ttl,
LEMMA GetL2Sound ==
  ASSUME CacheInv, NEW r \in Requests, GetL2(r)
  PROVE  CacheInv'
<1> DEFINE e == IF key[r] \in DOMAIN l2 THEN l2[key[r]].entry ELSE None
<1>1. pc[r] = "l2_base" /\ at[r] \in Gateways /\ key[r] = Base
  BY DEF GetL2, CacheInv, RequestInv, Storing
<1>2. e # None => Returned(e) /\ time < e.created + e.ttl + MaxDelay
  <2> SUFFICES ASSUME key[r] \in DOMAIN l2, e = l2[Base].entry
               PROVE  Returned(e) /\ time < e.created + e.ttl + MaxDelay
    BY <1>1
  <2>1. /\ l2[Base].expires \in Nat /\ Returned(e)
        /\ time < l2[Base].expires
        /\ l2[Base].expires <= e.created + e.ttl + MaxDelay
    BY <1>1 DEF CacheInv, L2Inv, Returned
  <2> HIDE DEF e
  <2>2. time \in Nat /\ e.created \in Nat /\ e.ttl \in Nat
    BY <2>1, CacheAssumption DEF CacheInv, Shape, Entry, Returned
  <2>3. QED
    BY <2>1, <2>2, CacheAssumption
<1>3. e \in Entry \cup {None}
  BY <1>2 DEF Returned
<1>4. /\ pc' = [pc EXCEPT ![r] = "l2_base_reply"] /\ wait' = [wait EXCEPT ![r] = 0]
      /\ reply' = [reply EXCEPT ![r] = e]
      /\ UNCHANGED <<time, l1, l2, at, value, key, entry, victim, changes>>
  BY <1>1 DEF GetL2, Goto
<1> HIDE DEF e
<1>5. Shape'
  BY <1>3, <1>4, CacheAssumption DEF CacheInv, Shape, Stages, Awaiting
<1>6. OnlyBy(r)
  BY <1>4 DEF OnlyBy, CacheInv, Shape
<1>7. /\ pc'[r] = "l2_base_reply" /\ at'[r] \in Gateways /\ key'[r] = Base
      /\ reply'[r] = e /\ wait'[r] = 0
  BY <1>1, <1>4 DEF CacheInv, Shape
<1>8. e # None => e.created + e.ttl + MaxDelay + 0 = e.created + e.ttl + MaxDelay
  BY <1>2, CacheAssumption DEF Returned, Entry
<1>9. RequestInv(r)'
  BY <1>2, <1>4, <1>7, <1>8 DEF RequestInv, Storing, Promoting, Returned, Stamped
<1>10. QED
  BY <1>4, <1>5, <1>6, <1>9, RequestStep

\* and it is promoted when it arrives: it varies on nothing.
LEMMA GetL2HitSound ==
  ASSUME CacheInv, NEW r \in Requests, GetL2Hit(r)
  PROVE  CacheInv'
<1> DEFINE e == reply[r]
<1>1. /\ pc[r] = "l2_base_reply" /\ at[r] \in Gateways /\ key[r] = Base /\ e # None
      /\ Returned(e) /\ time < e.created + e.ttl + MaxDelay + wait[r]
  BY DEF GetL2Hit, CacheInv, RequestInv, Storing
<1> HIDE DEF e
<1>2. time < e.created + e.ttl + 2 * MaxDelay
  <2>1. time \in Nat /\ wait[r] \in 0 .. MaxDelay /\ e.created \in Nat /\ e.ttl \in Nat
    BY <1>1, CacheAssumption DEF CacheInv, Shape, Entry, Returned
  <2>2. QED
    BY <1>1, <2>1, CacheAssumption
<1>3. /\ pc' = [pc EXCEPT ![r] = "promote"] /\ wait' = [wait EXCEPT ![r] = 0]
      /\ key' = [key EXCEPT ![r] = Base] /\ entry' = [entry EXCEPT ![r] = e]
      /\ reply' = [reply EXCEPT ![r] = None]
      /\ UNCHANGED <<time, l1, l2, at, value, victim, changes>>
  BY <1>1 DEF GetL2Hit, Hold, Goto, with_vary, Returned, e
<1>4. Shape'
  BY <1>1, <1>3, CacheAssumption DEF CacheInv, Shape, Stages, Keys, Returned
<1>5. OnlyBy(r)
  BY <1>3 DEF OnlyBy, CacheInv, Shape
<1>6. pc'[r] = "promote" /\ at'[r] \in Gateways /\ key'[r] = Base /\ entry'[r] = e
  BY <1>1, <1>3 DEF CacheInv, Shape
<1>7. RequestInv(r)'
  BY <1>1, <1>2, <1>3, <1>6 DEF RequestInv, Storing, Promoting, Returned, Stamped
<1>8. QED
  BY <1>3, <1>4, <1>5, <1>7, RequestStep

LEMMA GetL2MissSound ==
  ASSUME CacheInv, NEW r \in Requests, GetL2Miss(r)
  PROVE  CacheInv'
<1>1. /\ pc[r] \in {"l2_base", "l2_base_reply"} /\ Goto(r, "upstream") /\ key' = key
      /\ reply' = [reply EXCEPT ![r] = None]
      /\ UNCHANGED <<time, l1, l2, at, value, entry, victim, changes>>
  BY DEF GetL2Miss, CacheInv, RequestInv
<1>2. key' = [key EXCEPT ![r] = Base]
  BY <1>1, KeyIsBase DEF Storing
<1>3. Shape' /\ RequestInv(r)' /\ OnlyBy(r)
  BY <1>1, <1>2, SearchSound DEF CacheInv, Shape
<1>4. QED
  BY <1>1, <1>3, RequestStep

-----------------------------------------------------------------------------
(* L1Cache::put *)

\* A request that moves on with the entry and the key in hand.
LEMMA CarrySound ==
  ASSUME CacheInv, NEW r \in Requests,
         NEW from, NEW to, pc[r] = from, Goto(r, to),
         \/ from = "promote" /\ to = "promote_insert"
         \/ from = "promote_insert" /\ to = "hit"
         \/ from = "store" /\ to = "store_insert"
         \/ from = "store_insert" /\ to = "l2_put",
         UNCHANGED <<time, at, value, key, entry, reply, changes>>,
         victim' \in [Requests -> Keys \cup {None}], DOMAIN l1' = Gateways
  PROVE  Shape' /\ RequestInv(r)' /\ OnlyBy(r)
<1>1. Shape'
  <2>1. to \in Stages
    BY DEF Stages, Awaiting
  <2>2. pc' \in [Requests -> Stages] /\ wait' \in [Requests -> 0 .. MaxDelay]
    BY <2>1, CacheAssumption DEF CacheInv, Shape, Goto
  <2>3. QED
    BY <2>2 DEF CacheInv, Shape
<1>2. OnlyBy(r)
  BY DEF OnlyBy, CacheInv, Shape, Goto
<1>3. pc'[r] = to /\ wait'[r] = 0 /\ RequestInv(r) /\ time \in Nat
  BY DEF CacheInv, Shape, Goto
<1>4. RequestInv(r)'
  <2>1. CASE to \in {"promote_insert", "hit"}
    BY <1>3, <2>1 DEF RequestInv, Storing, Promoting, Stamped
  <2>2. CASE to \in {"store_insert", "l2_put"}
    BY <1>3, <2>2 DEF RequestInv, Storing, Promoting, Stamped
  <2>3. QED
    BY <2>1, <2>2
<1>5. QED
  BY <1>1, <1>2, <1>4

LEMMA PutCheckSound ==
  ASSUME CacheInv, NEW r \in Requests, PromoteCheck(r) \/ StoreCheck(r)
  PROVE  CacheInv'
<1>1. PICK from, to :
        /\ PutCheck(r, from, to)
        /\ \/ from = "promote" /\ to = "promote_insert"
           \/ from = "store" /\ to = "store_insert"
  BY DEF PromoteCheck, StoreCheck
<1>2. /\ pc[r] = from /\ Goto(r, to)
      /\ UNCHANGED <<time, l1, l2, at, value, key, entry, reply, changes>>
  BY <1>1 DEF PutCheck
<1>3. at[r] \in Gateways /\ DOMAIN l1[at[r]] \subseteq Keys
  BY <1>1, <1>2 DEF CacheInv, RequestInv, L1Inv
<1>4. victim' \in [Requests -> Keys \cup {None}]
  BY <1>1, <1>3 DEF PutCheck, CacheInv, Shape
<1>5. Shape' /\ RequestInv(r)' /\ OnlyBy(r)
  BY <1>1, <1>2, <1>4, CarrySound DEF CacheInv, Shape
<1>6. QED
  BY <1>2, <1>5, RequestStep

LEMMA PutInsertSound ==
  ASSUME CacheInv, NEW r \in Requests, PromoteInsert(r) \/ StoreInsert(r)
  PROVE  CacheInv'
<1>1. PICK from, to :
        /\ PutInsert(r, from, to)
        /\ \/ from = "promote_insert" /\ to = "hit"
           \/ from = "store_insert" /\ to = "l2_put"
  BY DEF PromoteInsert, StoreInsert
<1> DEFINE g == at[r]
           kept == Without(l1[g], victim[r])
<1>2. /\ pc[r] = from /\ Goto(r, to)
      /\ l1' = [l1 EXCEPT ![g] = With(kept, key[r], entry[r])]
      /\ victim' = [victim EXCEPT ![r] = None]
      /\ UNCHANGED <<time, l2, at, value, key, entry, reply, changes>>
  BY <1>1 DEF PutInsert, Inserted
<1>3. /\ g \in Gateways /\ key[r] \in Keys /\ entry[r] \in Entry /\ Stamped(entry[r])
      /\ key[r] = Base => ~entry[r].varies
      /\ entry[r].private => entry[r].by = g
  BY <1>1, <1>2 DEF CacheInv, Shape, RequestInv, Storing, Promoting
<1>4. /\ DOMAIN l1' = Gateways /\ l1'[g] = With(kept, key[r], entry[r])
      /\ \A h \in Gateways \ {g} : l1'[h] = l1[h]
  BY <1>2, <1>3 DEF CacheInv, Shape
<1>5. /\ DOMAIN kept \subseteq DOMAIN l1[g]
      /\ \A x \in DOMAIN kept : kept[x] = l1[g][x]
  <2>1. /\ DOMAIN kept = DOMAIN l1[g] \ {victim[r]}
        /\ \A x \in DOMAIN l1[g] \ {victim[r]} : kept[x] = l1[g][x]
    BY WithoutKey
  <2>2. QED
    BY <2>1
<1>6. /\ DOMAIN l1'[g] = DOMAIN kept \cup {key[r]}
      /\ l1'[g][key[r]] = entry[r]
      /\ \A x \in DOMAIN kept \ {key[r]} : l1'[g][x] = kept[x]
  <2> HIDE DEF kept
  <2>1. /\ DOMAIN With(kept, key[r], entry[r]) = DOMAIN kept \cup {key[r]}
        /\ With(kept, key[r], entry[r])[key[r]] = entry[r]
        /\ \A x \in DOMAIN kept \ {key[r]} : With(kept, key[r], entry[r])[x] = kept[x]
    BY DEF With
  <2>2. QED
    BY <1>4, <2>1
<1> HIDE DEF kept
<1>7. L1Inv(g)'
  <2>1. L1Inv(g)
    BY <1>3 DEF CacheInv
  <2>2. DOMAIN l1'[g] \subseteq Keys
    BY <1>3, <1>5, <1>6, <2>1 DEF L1Inv
  <2>3. ASSUME NEW k \in DOMAIN l1'[g]
        PROVE  \/ k = key[r] /\ l1'[g][k] = entry[r]
               \/ k \in DOMAIN l1[g] /\ l1'[g][k] = l1[g][k]
    BY <1>5, <1>6
  <2>4. at'[r] = at[r] /\ time' = time
    BY <1>2
  <2>5. QED
    BY <1>3, <2>1, <2>2, <2>3, <2>4 DEF L1Inv, Stamped
<1>8. \A h \in Gateways : L1Inv(h)'
  BY <1>2, <1>4, <1>7, L1Kept
<1>9. victim' \in [Requests -> Keys \cup {None}]
  BY <1>2 DEF CacheInv, Shape
<1>10. Shape' /\ RequestInv(r)' /\ OnlyBy(r)
  BY <1>1, <1>2, <1>4, <1>9, CarrySound
<1>11. QED
  BY <1>2, <1>8, <1>10, OthersKept, L2Kept DEF CacheInv

-----------------------------------------------------------------------------
(* store, and the end of a request *)

\* What store() makes of a response it keeps: no longer than the route's ttl,
\* and under the base key only if it varies on nothing.
LEMMA NewEntrySound ==
  ASSUME CacheInv, NEW r \in Requests, at[r] \in Gateways,
         NEW resp \in Responses, Storable(resp)
  PROVE  /\ NewEntry(r, resp) \in Entry /\ StoreKey(resp) \in Keys
         /\ Stamped(NewEntry(r, resp)) /\ NewEntry(r, resp).created = time
         /\ NewEntry(r, resp).by = at[r]
         /\ StoreKey(resp) = Base => ~NewEntry(r, resp).varies
<1>1. resp \in Response /\ time \in Nat /\ Skew[at[r]] \in Nat
  BY CacheAssumption DEF CacheInv, Shape
<1>2. resolve_ttl(resp) \in 0 .. RouteTtl
  BY <1>1, CacheAssumption DEF Storable, resolve_ttl, shared_ttl, Response
<1>3. parse_vary(resp) \in BOOLEAN
  BY DEF Storable, parse_vary
<1>4. StoreKey(resp) \in Keys /\ (StoreKey(resp) = Base => ~parse_vary(resp))
  <2>1. resp.echo \in Values
    BY <1>1 DEF Response
  <2>2. <<resp.echo>> # <<>>
    OBVIOUS
  <2>3. QED
    BY <1>3, <2>1, <2>2 DEF StoreKey, with_vary, Keys, Base
<1>5. Clock(at[r]) \in Nat /\ Clock(at[r]) = time + Skew[at[r]]
  BY <1>1 DEF Clock
<1>6. NewEntry(r, resp) \in Entry
  BY <1>1, <1>2, <1>3, <1>5 DEF NewEntry, Entry, Response
<1>7. QED
  BY <1>1, <1>4, <1>5, <1>6 DEF NewEntry, Stamped

LEMMA FetchSound ==
  ASSUME CacheInv, NEW r \in Requests, Fetch(r)
  PROVE  CacheInv'
<1>1. at[r] \in Gateways
  BY DEF Fetch, CacheInv, RequestInv
<1>2. PICK resp \in Responses : Storable(resp) /\ Hold(r, StoreKey(resp), NewEntry(r, resp))
  BY DEF Fetch
<1> DEFINE e == NewEntry(r, resp)
           k == StoreKey(resp)
<1>3. /\ e \in Entry /\ k \in Keys /\ Stamped(e) /\ e.created = time /\ e.by = at[r]
      /\ k = Base => ~e.varies
  BY <1>1, <1>2, NewEntrySound
<1> HIDE DEF e, k
<1>4. /\ pc[r] = "upstream" /\ pc' = [pc EXCEPT ![r] = "store"]
      /\ wait' = [wait EXCEPT ![r] = 0] /\ key' = [key EXCEPT ![r] = k]
      /\ entry' = [entry EXCEPT ![r] = e] /\ value' = [value EXCEPT ![r] = None]
      /\ changes < MaxChanges /\ changes' = changes + 1
      /\ UNCHANGED <<time, l1, l2, at, reply, victim>>
  BY <1>2 DEF Fetch, Goto, Hold, e, k
<1>5. Shape'
  BY <1>3, <1>4, CacheAssumption DEF CacheInv, Shape, Stages
<1>6. OnlyBy(r)
  BY <1>4 DEF OnlyBy, CacheInv, Shape
<1>7. pc'[r] = "store" /\ at'[r] = at[r] /\ key'[r] = k /\ entry'[r] = e
  BY <1>4 DEF CacheInv, Shape
<1>8. RequestInv(r)'
  BY <1>1, <1>3, <1>4, <1>7 DEF RequestInv, Storing, Promoting, Stamped
<1>9. QED
  BY <1>4, <1>5, <1>6, <1>8, RequestStep

LEMMA EndSound ==
  ASSUME CacheInv, NEW r \in Requests,
         Respond(r) \/ FetchUnstored(r) \/ PutL2Skipped(r) \/ Cancel(r)
  PROVE  CacheInv'
<1>1. Done(r) /\ UNCHANGED <<time, l1, l2, changes>>
  BY DEF Respond, FetchUnstored, PutL2Skipped, Cancel
<1>2. QED
  BY <1>1, DoneSound, RequestStep DEF CacheInv, Shape

LEMMA PutL2Sound ==
  ASSUME CacheInv, NEW r \in Requests, PutL2(r)
  PROVE  CacheInv'
<1> DEFINE item == [entry |-> entry[r], expires |-> time + entry[r].ttl]
<1>1. /\ pc[r] = "l2_put" /\ Shareable(entry[r]) /\ l2' = With(l2, key[r], item)
      /\ Done(r) /\ UNCHANGED <<time, l1, changes>>
  BY DEF PutL2
<1>2. /\ entry[r] \in Entry /\ Stamped(entry[r]) /\ key[r] \in Keys
      /\ key[r] = Base => ~entry[r].varies
      /\ time - entry[r].created <= wait[r]
      /\ wait[r] \in 0 .. MaxDelay /\ time \in Nat
  BY <1>1 DEF CacheInv, Shape, RequestInv, Storing
<1>3. /\ item \in [entry : Entry, expires : Nat] /\ item.entry = entry[r]
      /\ time < item.expires
      /\ item.expires <= entry[r].created + entry[r].ttl + MaxDelay
      /\ ~item.entry.private
  <2>1. entry[r].ttl \in Nat /\ entry[r].created \in Nat
    BY <1>2, CacheAssumption DEF Entry
  <2>2. QED
    BY <1>1, <1>2, <2>1, CacheAssumption DEF Shareable
<1> HIDE DEF item
<1>4. /\ DOMAIN l2' = DOMAIN l2 \cup {key[r]} /\ l2'[key[r]] = item
      /\ \A x \in DOMAIN l2 \ {key[r]} : l2'[x] = l2[x]
  BY <1>1 DEF With
<1>5. L2Inv'
  <2>1. L2Inv
    BY DEF CacheInv
  <2>2. DOMAIN l2' \subseteq Keys
    BY <1>2, <1>4, <2>1 DEF L2Inv
  <2>3. ASSUME NEW k \in DOMAIN l2'
        PROVE  \/ k = key[r] /\ l2'[k] = item
               \/ k \in DOMAIN l2 /\ l2'[k] = l2[k]
    BY <1>4
  <2>4. time' = time
    BY <1>1
  <2>5. QED
    BY <1>2, <1>3, <2>1, <2>2, <2>3, <2>4 DEF L2Inv, Stamped
<1>6. Shape' /\ RequestInv(r)' /\ OnlyBy(r)
  BY <1>1, DoneSound DEF CacheInv, Shape
<1>7. QED
  BY <1>1, <1>5, <1>6, OthersKept, L1Kept DEF CacheInv

-----------------------------------------------------------------------------
(* invalidate, and time *)

LEMMA InvalidateL1Sound ==
  ASSUME CacheInv, NEW r \in Requests, NEW g \in Gateways, InvalidateL1(r, g)
  PROVE  CacheInv'
<1>1. /\ pc[r] = "idle" /\ pc' = [pc EXCEPT ![r] = "l2_del"]
      /\ wait' = [wait EXCEPT ![r] = 0]
      /\ l1' = [l1 EXCEPT ![g] = Without(@, Base)]
      /\ changes < MaxChanges /\ changes' = changes + 1
      /\ UNCHANGED <<time, l2, at, value, key, entry, reply, victim>>
  BY DEF InvalidateL1, Goto
<1>2. DOMAIN l1' = Gateways /\ \A h \in Gateways : L1Inv(h)'
  BY <1>1, DropKept
<1>3. Shape'
  BY <1>1, <1>2, CacheAssumption DEF CacheInv, Shape, Stages, Awaiting
<1>4. OnlyBy(r)
  BY <1>1 DEF OnlyBy, CacheInv, Shape
<1>5. pc'[r] = "l2_del" /\ key'[r] = Base
  BY <1>1 DEF CacheInv, Shape, RequestInv, Storing
<1>6. RequestInv(r)'
  BY <1>5 DEF RequestInv, Storing, Promoting
<1>7. QED
  BY <1>1, <1>2, <1>3, <1>4, <1>6, OthersKept, L2Kept DEF CacheInv

LEMMA InvalidateL2Sound ==
  ASSUME CacheInv, NEW r \in Requests, InvalidateL2(r)
  PROVE  CacheInv'
<1>1. l2' \in {l2, Without(l2, Base)} /\ Done(r) /\ UNCHANGED <<time, l1, changes>>
  BY DEF InvalidateL2
<1>2. DOMAIN l2' \subseteq DOMAIN l2 /\ \A k \in DOMAIN l2' : l2'[k] = l2[k]
  <2>1. /\ DOMAIN Without(l2, Base) = DOMAIN l2 \ {Base}
        /\ \A x \in DOMAIN l2 \ {Base} : Without(l2, Base)[x] = l2[x]
    BY WithoutKey
  <2>2. QED
    BY <1>1, <2>1
<1>3. L2Inv'
  <2>1. L2Inv /\ time' = time
    BY <1>1 DEF CacheInv
  <2>2. QED
    BY <1>2, <2>1 DEF L2Inv, Stamped
<1>4. Shape' /\ RequestInv(r)' /\ OnlyBy(r)
  BY <1>1, DoneSound DEF CacheInv, Shape
<1>5. QED
  BY <1>1, <1>3, <1>4, OthersKept, L1Kept DEF CacheInv

\* Time only passes while nothing is being promoted or put into L1.
LEMMA TickSound ==
  ASSUME CacheInv, Tick
  PROVE  CacheInv'
<1>1. /\ time < MaxTime /\ time' = time + 1 /\ time \in Nat
      /\ \A r \in Requests :
           /\ pc[r] \in Awaiting \cup {"idle"}
           /\ pc[r] \in Holding => wait[r] < MaxDelay
      /\ wait' = [r \in Requests |-> IF pc[r] \in Holding THEN wait[r] + 1 ELSE 0]
      /\ UNCHANGED <<l1, pc, at, value, key, entry, reply, victim, changes>>
  BY DEF Tick, CacheInv, Shape
<1>2. Shape'
  <2>1. wait' \in [Requests -> 0 .. MaxDelay]
    BY <1>1, CacheAssumption DEF CacheInv, Shape
  <2>2. time' \in 0 .. MaxTime
    BY <1>1, CacheAssumption
  <2>3. QED
    BY <1>1, <2>1, <2>2 DEF CacheInv, Shape
<1>3. ASSUME NEW e \in Entry, Stamped(e)
      PROVE  e.created <= time' /\ e.stored_at = e.created + Skew[e.by]
  BY <1>1, <1>3 DEF Stamped, Entry
<1>4. ASSUME NEW g \in Gateways PROVE L1Inv(g)'
  BY <1>1, <1>3 DEF CacheInv, L1Inv, Stamped
<1>5. L2Inv'
  <2>1. /\ DOMAIN l2' \subseteq DOMAIN l2
        /\ \A k \in DOMAIN l2' : l2'[k] = l2[k] /\ time + 1 < l2[k].expires
    BY DEF Tick, RestrictValues, Restrict
  <2>2. L2Inv
    BY DEF CacheInv
  <2>3. QED
    BY <1>1, <1>3, <2>1, <2>2 DEF L2Inv, Stamped
<1>6. ASSUME NEW r \in Requests PROVE RequestInv(r)'
  <2>1. RequestInv(r) /\ pc'[r] = pc[r] /\ pc[r] \in Awaiting \cup {"idle"}
    BY <1>1 DEF CacheInv
  <2>2. CASE pc[r] = "l2_put"
    <3>1. wait'[r] = wait[r] + 1 /\ wait[r] \in Nat
      BY <1>1, <2>2, CacheAssumption DEF Holding, CacheInv, Shape
    <3>2. /\ entry[r] \in Entry /\ Stamped(entry[r])
          /\ time - entry[r].created <= wait[r] /\ entry[r].created \in Nat
      BY <2>1, <2>2 DEF RequestInv, Storing, Entry
    <3>3. time' - entry[r].created <= wait'[r]
      BY <1>1, <3>1, <3>2
    <3>4. Stamped(entry[r])'
      BY <1>1, <1>3, <3>2 DEF Stamped
    <3>5. QED
      BY <1>1, <2>1, <2>2, <3>2, <3>3, <3>4 DEF RequestInv, Storing, Promoting
  <2>3. CASE pc[r] = "l2_base_reply"
    <3>1. wait'[r] = wait[r] + 1 /\ wait[r] \in Nat
      BY <1>1, <2>3, CacheAssumption DEF Holding, CacheInv, Shape
    <3>2. ASSUME reply[r] # None
          PROVE  /\ Returned(reply[r])'
                 /\ time' < reply'[r].created + reply'[r].ttl + MaxDelay + wait'[r]
      <4>1. Returned(reply[r]) /\ time < reply[r].created + reply[r].ttl + MaxDelay + wait[r]
        BY <2>1, <2>3, <3>2 DEF RequestInv
      <4>2. reply[r].created \in Nat /\ reply[r].ttl \in Nat
        BY <4>1, CacheAssumption DEF Returned, Entry
      <4>3. time' < reply[r].created + reply[r].ttl + MaxDelay + wait'[r]
        BY <1>1, <3>1, <4>1, <4>2, CacheAssumption
      <4>4. Returned(reply[r])'
        BY <1>1, <1>3, <4>1 DEF Returned, Stamped
      <4>5. QED
        BY <1>1, <4>3, <4>4
    <3>3. QED
      BY <1>1, <2>1, <2>3, <3>2 DEF RequestInv, Storing, Promoting
  <2>4. CASE pc[r] \notin {"l2_put", "l2_base_reply"}
    BY <1>1, <2>1, <2>4 DEF RequestInv, Storing, Promoting, Awaiting
  <2>5. QED
    BY <2>2, <2>3, <2>4
<1>7. QED
  BY <1>2, <1>4, <1>5, <1>6 DEF CacheInv

-----------------------------------------------------------------------------
LEMMA CacheInductive == CacheInv /\ [Next]_vars => CacheInv'
<1> SUFFICES ASSUME CacheInv, [Next]_vars PROVE CacheInv'
  OBVIOUS
<1>1. CASE Tick
  BY <1>1, TickSound
<1>2. ASSUME NEW r \in Requests,
             \/ \E g \in Gateways, v \in Values : Lookup(r, g, v) \/ Bypass(r, g, v)
             \/ \E g \in Gateways : InvalidateL1(r, g)
      PROVE  CacheInv'
  BY <1>2, ArriveSound, InvalidateL1Sound
<1>3. ASSUME NEW r \in Requests,
             \/ GetL1Miss(r) \/ DropExpired(r) \/ GetL1Base(r) \/ GetL1Full(r)
             \/ GetL2(r) \/ GetL2Hit(r) \/ GetL2Miss(r)
      PROVE  CacheInv'
  BY <1>3, GetL1MissSound, DropExpiredSound, GetL1BaseSound, GetL1FullSound,
     GetL2Sound, GetL2HitSound, GetL2MissSound
<1>4. ASSUME NEW r \in Requests,
             \/ PromoteCheck(r) \/ PromoteInsert(r) \/ StoreCheck(r) \/ StoreInsert(r)
             \/ Respond(r) \/ FetchUnstored(r) \/ PutL2Skipped(r) \/ Cancel(r)
             \/ Fetch(r) \/ PutL2(r) \/ InvalidateL2(r)
      PROVE  CacheInv'
  BY <1>4, PutCheckSound, PutInsertSound, EndSound, FetchSound, PutL2Sound,
     InvalidateL2Sound
<1>5. CASE UNCHANGED vars
  <2>1. /\ UNCHANGED <<time, l1, l2, pc, at, value, key, entry, reply, victim, wait, changes>>
        /\ Shape'
    BY <1>5 DEF vars, CacheInv, Shape
  <2>2. \A r \in Requests : RequestInv(r)'
    BY <2>1 DEF CacheInv, RequestInv, Returned, Stamped
  <2>3. QED
    BY <2>1, <2>2, L1Kept, L2Kept DEF CacheInv
<1>6. QED
  BY <1>1, <1>2, <1>3, <1>4, <1>5 DEF Next

\* The inductive invariant holds of the cache.
THEOREM CacheInvariant == Spec => []CacheInv
<1>1. Init => CacheInv
  <2> SUFFICES ASSUME Init PROVE CacheInv
    OBVIOUS
  <2>1. DOMAIN <<>> = {}
    OBVIOUS
  <2>2. Shape
    BY CacheAssumption DEF Init, Shape, Stages, Keys
  <2>3. (\A g \in Gateways : L1Inv(g)) /\ L2Inv
    BY <2>1 DEF Init, L1Inv, L2Inv
  <2>4. \A r \in Requests : RequestInv(r)
    BY DEF Init, RequestInv, Storing, Promoting
  <2>5. QED
    BY <2>2, <2>3, <2>4 DEF CacheInv
<1>2. QED
  BY <1>1, CacheInductive, PTL DEF Spec

\* Every variable keeps its type; no entry outlives the route's ttl.
THEOREM CacheTypes == Spec => []TypeOK
<1>1. CacheInv => TypeOK
  <2> SUFFICES ASSUME CacheInv PROVE TypeOK
    OBVIOUS
  <2>1. \A g \in Gateways : DOMAIN l1[g] \subseteq Keys /\ Range(l1[g]) \subseteq Entry
    BY DEF CacheInv, L1Inv, Range
  <2>2. DOMAIN l2 \subseteq Keys /\ Range(l2) \subseteq [entry : Entry, expires : Nat]
    BY DEF CacheInv, L2Inv, Range
  <2>3. QED
    BY <2>1, <2>2 DEF CacheInv, Shape, TypeOK
<1>2. QED
  BY <1>1, CacheInvariant, PTL

\* A private response never leaves the gateway that fetched it, through Redis or
\* through any promotion, for any number of gateways.
THEOREM PrivateAtHome == Spec => []PrivateStaysHome
<1>1. CacheInv => PrivateStaysHome
  BY DEF CacheInv, L1Inv, L2Inv, PrivateStaysHome
<1>2. QED
  BY <1>1, CacheInvariant, PTL

\* A response that varies on a header is never served from the cache:
\* lookup starts from the base key, under which store() puts only what varies on
\* nothing.
ServesNoVariant == \A r \in Requests : pc[r] = "hit" => ~entry[r].varies

\* For whatever the upstream answers, what is served from the cache varies on
\* nothing: entries under an extended key are stored and never found.
THEOREM VariantsNeverServed == Spec => []ServesNoVariant
<1>1. CacheInv => ServesNoVariant
  BY DEF CacheInv, RequestInv, ServesNoVariant
<1>2. QED
  BY <1>1, CacheInvariant, PTL

-----------------------------------------------------------------------------
\* Only the end of a lookup in L1 and that of a promotion serve an entry.
LEMMA OnlyHits ==
  ASSUME CacheInv, [Next]_vars, NEW r \in Requests, pc[r] # "hit", pc'[r] = "hit"
  PROVE  GetL1Full(r) \/ PromoteInsert(r)
<1> SUFFICES ASSUME ~GetL1Full(r), ~PromoteInsert(r) PROVE FALSE
  OBVIOUS
<1>1. pc \in [Requests -> Stages]
  BY DEF CacheInv, Shape
<1> USE DEF Goto, Done
<1>2. CASE Tick \/ UNCHANGED vars
  BY <1>2 DEF Tick, vars
<1>3. ASSUME NEW q \in Requests, NEW g \in Gateways, NEW v \in Values,
             Lookup(q, g, v) \/ Bypass(q, g, v)
      PROVE  FALSE
  BY <1>1, <1>3 DEF Lookup, Bypass
<1>4. ASSUME NEW q \in Requests, NEW g \in Gateways, InvalidateL1(q, g)
      PROVE  FALSE
  BY <1>1, <1>4 DEF InvalidateL1
<1>5. ASSUME NEW q \in Requests,
             \/ GetL1Miss(q) \/ DropExpired(q) \/ GetL1Base(q)
             \/ GetL2(q) \/ GetL2Hit(q) \/ GetL2Miss(q)
      PROVE  FALSE
  BY <1>1, <1>5 DEF GetL1Miss, DropExpired, GetL1Base, GetL2, GetL2Hit, GetL2Miss
<1>6. ASSUME NEW q \in Requests,
             \/ PromoteCheck(q) \/ StoreCheck(q) \/ StoreInsert(q) \/ Fetch(q)
      PROVE  FALSE
  BY <1>1, <1>6
  DEF PromoteCheck, StoreCheck, StoreInsert, PutCheck, PutInsert, Fetch
<1>7. ASSUME NEW q \in Requests,
             \/ Respond(q) \/ FetchUnstored(q) \/ PutL2(q) \/ PutL2Skipped(q)
             \/ InvalidateL2(q) \/ Cancel(q)
      PROVE  FALSE
  BY <1>1, <1>7 DEF Respond, FetchUnstored, PutL2, PutL2Skipped, InvalidateL2, Cancel
<1>8. ASSUME NEW q \in Requests, GetL1Full(q) \/ PromoteInsert(q)
      PROVE  FALSE
  BY <1>1, <1>8 DEF GetL1Full, PromoteInsert, PutInsert
<1>9. QED
  BY <1>2, <1>3, <1>4, <1>5, <1>6, <1>7, <1>8 DEF Next

\* What is served is within its ttl, up to the time of its way to Redis and back or
\* the difference of the two gateways' clocks, for every skew and every delay.
THEOREM ServedFresh == Spec => FreshEnough
<1> DEFINE Fresh(r) ==
      LET e == entry'[r]
          overdue == time - e.created - e.ttl
      IN  overdue < 2 * MaxDelay \/ overdue < Skew[e.by] - Skew[at[r]]
<1>1. CacheInv /\ [Next]_vars
        => [\A r \in Requests : pc[r] # "hit" /\ pc'[r] = "hit" => Fresh(r)]_vars
  <2> SUFFICES ASSUME CacheInv, [Next]_vars,
                      NEW r \in Requests, pc[r] # "hit", pc'[r] = "hit"
               PROVE  Fresh(r)
    BY DEF vars
  <2>0. time \in Nat
    BY DEF CacheInv, Shape
  <2>1. CASE GetL1Full(r)
    <3> DEFINE e == l1[at[r]][key[r]]
               g == at[r]
    <3>1. entry'[r] = e /\ Found(r) /\ pc[r] = "l1_full"
      BY <2>1 DEF GetL1Full, Hold, CacheInv, Shape
    <3>2. g \in Gateways
      BY <3>1 DEF CacheInv, RequestInv
    <3>3. e \in Entry /\ Stamped(e) /\ ~is_expired(e, g)
      BY <3>1, <3>2 DEF CacheInv, L1Inv, Found
    <3> HIDE DEF e, g
    <3>4. /\ e.created \in Nat /\ e.ttl \in Nat /\ e.by \in Gateways
          /\ Skew[g] \in Nat /\ Skew[e.by] \in Nat
          /\ e.stored_at = e.created + Skew[e.by]
      BY <3>2, <3>3, CacheAssumption DEF Entry, Stamped
    <3>5. time - e.created - e.ttl < Skew[e.by] - Skew[g]
      BY <2>0, <3>3, <3>4 DEF is_expired, Clock
    <3>6. QED
      BY <3>1, <3>5 DEF g
  <2>2. CASE PromoteInsert(r)
    <3>1. entry' = entry /\ pc[r] = "promote_insert"
      BY <2>2 DEF PromoteInsert, PutInsert
    <3>2. /\ entry[r] \in Entry
          /\ time < entry[r].created + entry[r].ttl + 2 * MaxDelay
      BY <3>1 DEF CacheInv, RequestInv, Promoting
    <3>3. entry[r].created \in Nat /\ entry[r].ttl \in Nat
      BY <3>2, CacheAssumption DEF Entry
    <3>4. QED
      BY <2>0, <3>1, <3>2, <3>3, CacheAssumption
  <2>3. QED
    BY <2>1, <2>2, OnlyHits
<1>2. QED
  BY <1>1, CacheInvariant, PTL DEF Spec, FreshEnough
=============================================================================
