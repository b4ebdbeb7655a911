-------------------------------- MODULE Cache --------------------------------
(***************************************************************************)
(* The two-tier response cache, for one resource: a map in each gateway    *)
(* (L1) and Redis (L2).  A request looks in L1 under the base key and then *)
(* under the key extended with the values of the headers the entry varies  *)
(* on, does the same in L2, copies what it finds to L1, and otherwise asks *)
(* the upstream and stores the answer.  Every call to Redis is an await:   *)
(* it takes time, may fail, and other requests run in between; an L1 put   *)
(* is itself several steps on a concurrent map.                            *)
(*                                                                         *)
(* A tick stands for a second, the granularity of the code's clocks.       *)
(***************************************************************************)
EXTENDS Integers, FiniteSets, Functions

CONSTANTS Gateways,    \* gateway processes
          Requests,    \* requests under way at once
          Values,      \* values of the header that responses vary on
          Responses,   \* what the upstream may answer
          RouteTtl,    \* CacheMiddlewareConfig.ttl
          Capacity,    \* CacheConfig.l1_capacity
          Skew,        \* how far each gateway's system clock is ahead
          None,
          MaxDelay,    \* bound: ticks a call to Redis takes either way
          MaxChanges,  \* bound: responses stored and invalidations in a behaviour
          MaxTime      \* bound: ticks in a behaviour

\* An upstream response as from_headers and parse_vary read it; no_store stands
\* for no-cache too.  echo is the response's own value of the header it names in
\* Vary.
Response ==
  [success : BOOLEAN, no_store : BOOLEAN, private : BOOLEAN,
   s_maxage : Nat \cup {None}, max_age : Nat \cup {None},
   vary : {"absent", "star", "nothing", "header"}, echo : Values]

ASSUME CacheAssumption ==
  /\ Responses \subseteq Response
  /\ Skew \in [Gateways -> Nat]
  /\ RouteTtl \in Nat /\ Capacity \in Nat
  /\ MaxDelay \in Nat /\ MaxChanges \in Nat /\ MaxTime \in Nat

VARIABLES time,    \* real time, which Redis's own clock follows
          l1,      \* L1Cache.store of each gateway: key -> entry
          l2,      \* Redis: key -> entry and expiry
          pc,      \* how far each request is
          at,      \* the gateway it has arrived at
          value,   \* its value of the header
          key,     \* the key it is working with
          entry,   \* the entry it has in hand
          reply,   \* what Redis has answered and is on its way, or None
          victim,  \* the key evict_one has chosen, or None
          wait,    \* ticks it has awaited Redis with an entry on its way
          changes  \* responses stored and invalidations so far

vars == <<time, l1, l2, pc, at, value, key, entry, reply, victim, wait, changes>>

\* Stages in which the request awaits Redis or the upstream; with an entry in
\* hand or on its way back, for at most MaxDelay.
Awaiting == {"l2_base", "l2_base_reply", "l2_full", "l2_full_reply", "upstream",
             "l2_put", "l2_del"}
Holding == {"l2_base_reply", "l2_full", "l2_full_reply", "l2_put"}
Stages == Awaiting \cup {"idle", "l1_base", "l1_full", "l1_drop",
                         "promote", "promote_insert", "store", "store_insert", "hit"}

Clock(g) == time + Skew[g]

-----------------------------------------------------------------------------
(* Keys, freshness and Cache-Control *)

\* CacheKey::new
Base == <<>>

Keys == {Base} \cup {<<v>> : v \in Values}

\* CacheKey::with_vary, for an entry that varies on the header or on nothing.
with_vary(varies, v) == IF varies THEN <<v>> ELSE Base

\* CachedResponse::is_expired, with its saturating subtraction.
is_expired(e, g) ==
  LET age == Clock(g) - e.stored_at
  IN  (IF age < 0 THEN 0 ELSE age) >= e.ttl

\* CacheControl::shared_ttl
shared_ttl(resp) == IF resp.s_maxage # None THEN resp.s_maxage ELSE resp.max_age

\* Mutant: the upstream's directive overrides the route's ceiling.
resolve_ttl_upstream(resp) ==
  IF resp.no_store THEN None
  ELSE IF shared_ttl(resp) # None THEN shared_ttl(resp) ELSE RouteTtl

\* None: not to be stored.
resolve_ttl(resp) ==
  IF resp.no_store THEN None
  ELSE IF shared_ttl(resp) # None /\ shared_ttl(resp) < RouteTtl
       THEN shared_ttl(resp) ELSE RouteTtl

\* parse_vary: None for "Vary: *" and for a response without the header.
parse_vary(resp) == IF resp.vary \in {"absent", "star"} THEN None ELSE resp.vary = "header"

\* What store() keeps of a response.
Storable(resp) == resp.success /\ resolve_ttl(resp) # None /\ parse_vary(resp) # None

\* CachedResponse::new.  The last three fields are history: who fetched the
\* response, when, and whether it is private.
NewEntry(r, resp) ==
  [ttl |-> resolve_ttl(resp), stored_at |-> Clock(at[r]), varies |-> parse_vary(resp),
   by |-> at[r], created |-> time, private |-> resp.private]

\* handle() passes the response's headers where store() expects the request's.
StoreKey(resp) == with_vary(parse_vary(resp), resp.echo)

-----------------------------------------------------------------------------
Init ==
  /\ time = 0
  /\ l1 = [g \in Gateways |-> <<>>]
  /\ l2 = <<>>
  /\ pc = [r \in Requests |-> "idle"]
  /\ at = [r \in Requests |-> None]
  /\ value = [r \in Requests |-> None]
  /\ key = [r \in Requests |-> Base]
  /\ entry = [r \in Requests |-> None]
  /\ reply = [r \in Requests |-> None]
  /\ victim = [r \in Requests |-> None]
  /\ wait = [r \in Requests |-> 0]
  /\ changes = 0

Without(f, k) == RestrictDomain(f, LAMBDA x : x # k)
With(f, k, e) == [x \in DOMAIN f \cup {k} |-> IF x = k THEN e ELSE f[x]]

Goto(r, stage) ==
  /\ pc' = [pc EXCEPT ![r] = stage]
  /\ wait' = [wait EXCEPT ![r] = 0]

\* The request works with key k and entry e from here on.
Hold(r, k, e) == key' = [key EXCEPT ![r] = k] /\ entry' = [entry EXCEPT ![r] = e]

\* The request is over and its locals are gone.
Done(r) ==
  /\ Goto(r, "idle")
  /\ Hold(r, Base, None)
  /\ at' = [at EXCEPT ![r] = None]
  /\ value' = [value EXCEPT ![r] = None]
  /\ reply' = [reply EXCEPT ![r] = None]
  /\ victim' = [victim EXCEPT ![r] = None]

-----------------------------------------------------------------------------
(* lookup *)

Lookup(r, g, v) ==
  /\ pc[r] = "idle"
  /\ at' = [at EXCEPT ![r] = g]
  /\ value' = [value EXCEPT ![r] = v]
  /\ Goto(r, "l1_base")
  /\ UNCHANGED <<time, l1, l2, key, entry, reply, victim, changes>>

\* no-store or no-cache on the request, or a method other than GET and HEAD:
\* the cache is not read, but what the upstream answers is stored.
Bypass(r, g, v) ==
  /\ pc[r] = "idle"
  /\ at' = [at EXCEPT ![r] = g]
  /\ value' = [value EXCEPT ![r] = v]
  /\ Goto(r, "upstream")
  /\ UNCHANGED <<time, l1, l2, key, entry, reply, victim, changes>>

\* The entry L1Cache::get returns for the key in hand.
Found(r) ==
  /\ key[r] \in DOMAIN l1[at[r]]
  /\ ~is_expired(l1[at[r]][key[r]], at[r])

GetL1Miss(r) ==
  /\ pc[r] \in {"l1_base", "l1_full"}
  /\ ~Found(r)
  /\ IF key[r] \in DOMAIN l1[at[r]]
     THEN Goto(r, "l1_drop") /\ UNCHANGED key
     ELSE Goto(r, "l2_base") /\ key' = [key EXCEPT ![r] = Base]
  /\ UNCHANGED <<time, l1, l2, at, value, entry, reply, victim, changes>>

\* Lazy eviction: what is under the key by now is removed.
DropExpired(r) ==
  /\ pc[r] = "l1_drop"
  /\ l1' = [l1 EXCEPT ![at[r]] = Without(@, key[r])]
  /\ Goto(r, "l2_base")
  /\ key' = [key EXCEPT ![r] = Base]
  /\ UNCHANGED <<time, l2, at, value, entry, reply, victim, changes>>

GetL1Base(r) ==
  /\ pc[r] = "l1_base" /\ Found(r)
  /\ key' = [key EXCEPT ![r] = with_vary(l1[at[r]][key[r]].varies, value[r])]
  /\ Goto(r, "l1_full")
  /\ UNCHANGED <<time, l1, l2, at, value, entry, reply, victim, changes>>

GetL1Full(r) ==
  /\ pc[r] = "l1_full" /\ Found(r)
  /\ Hold(r, key[r], l1[at[r]][key[r]])
  /\ Goto(r, "hit")
  /\ UNCHANGED <<time, l1, l2, at, value, reply, victim, changes>>

\* L2Cache::get, first for the base key and, if its entry varies, again for the
\* extended key: Redis executes GET
GetL2(r) ==
  /\ pc[r] \in {"l2_base", "l2_full"}
  /\ reply' = [reply EXCEPT ![r] = IF key[r] \in DOMAIN l2 THEN l2[key[r]].entry ELSE None]
  /\ Goto(r, IF pc[r] = "l2_base" THEN "l2_base_reply" ELSE "l2_full_reply")
  /\ UNCHANGED <<time, l1, l2, at, value, key, entry, victim, changes>>

\* and its reply arrives.  Nobody looks at its stamp.
GetL2Hit(r) ==
  /\ pc[r] \in {"l2_base_reply", "l2_full_reply"} /\ reply[r] # None
  /\ LET full == IF pc[r] = "l2_base_reply" THEN with_vary(reply[r].varies, value[r])
                                            ELSE key[r]
     IN  /\ Hold(r, full, reply[r])
         /\ Goto(r, IF full = key[r] THEN "promote" ELSE "l2_full")
  /\ reply' = [reply EXCEPT ![r] = None]
  /\ UNCHANGED <<time, l1, l2, at, value, victim, changes>>

\* Redis had nothing or cannot be reached: a miss, or, for the extended key,
\* unwrap_or(entry): the request gets what is under the base key.
GetL2Miss(r) ==
  /\ pc[r] \in {"l2_base", "l2_base_reply", "l2_full", "l2_full_reply"}
  /\ Goto(r, IF pc[r] \in {"l2_base", "l2_base_reply"} THEN "upstream" ELSE "promote")
  /\ reply' = [reply EXCEPT ![r] = None]
  /\ UNCHANGED <<time, l1, l2, at, value, key, entry, victim, changes>>

-----------------------------------------------------------------------------
(* L1Cache::put, on the way back from L2 and after a fetch *)

\* The length is checked and evict_one picks the first entry it finds.
PutCheck(r, from, to) ==
  /\ pc[r] = from
  /\ LET store == l1[at[r]]
     IN  \/ /\ Cardinality(DOMAIN store) >= Capacity
            /\ \E k \in DOMAIN store : victim' = [victim EXCEPT ![r] = k]
         \/ /\ Cardinality(DOMAIN store) < Capacity \/ DOMAIN store = {}
            /\ UNCHANGED victim
  /\ Goto(r, to)
  /\ UNCHANGED <<time, l1, l2, at, value, key, entry, reply, changes>>

\* Mutant: the entry is stamped anew when it enters L1.
InsertedRestamped(r) == [entry[r] EXCEPT !.stored_at = Clock(at[r])]

\* The entry as it enters L1: a copy.
Inserted(r) == entry[r]

\* The victim is removed, if it is still there, and the entry inserted.
PutInsert(r, from, to) ==
  /\ pc[r] = from
  /\ l1' = [l1 EXCEPT ![at[r]] = With(Without(@, victim[r]), key[r], Inserted(r))]
  /\ victim' = [victim EXCEPT ![r] = None]
  /\ Goto(r, to)
  /\ UNCHANGED <<time, l2, at, value, key, entry, reply, changes>>

PromoteCheck(r) == PutCheck(r, "promote", "promote_insert")
PromoteInsert(r) == PutInsert(r, "promote_insert", "hit")

\* The cached response is sent.
Respond(r) ==
  /\ pc[r] = "hit"
  /\ Done(r)
  /\ UNCHANGED <<time, l1, l2, changes>>

-----------------------------------------------------------------------------
(* store *)

\* The upstream's answer is not to be stored: an error, no-store, or its Vary.
FetchUnstored(r) ==
  /\ pc[r] = "upstream"
  /\ \E resp \in Responses : ~Storable(resp)
  /\ Done(r)
  /\ UNCHANGED <<time, l1, l2, changes>>

Fetch(r) ==
  /\ pc[r] = "upstream" /\ changes < MaxChanges
  /\ \E resp \in Responses :
        /\ Storable(resp)
        /\ Hold(r, StoreKey(resp), NewEntry(r, resp))
  /\ Goto(r, "store")
  /\ value' = [value EXCEPT ![r] = None]
  /\ changes' = changes + 1
  /\ UNCHANGED <<time, l1, l2, at, reply, victim>>

StoreCheck(r) == PutCheck(r, "store", "store_insert")
StoreInsert(r) == PutInsert(r, "store_insert", "l2_put")

\* Mutant: private responses go to Redis like the others.
ShareableAll(e) == e.ttl > 0

Shareable(e) == ~e.private /\ e.ttl > 0

\* SETEX
PutL2(r) ==
  /\ pc[r] = "l2_put" /\ Shareable(entry[r])
  /\ l2' = With(l2, key[r], [entry |-> entry[r], expires |-> time + entry[r].ttl])
  /\ Done(r)
  /\ UNCHANGED <<time, l1, changes>>

\* Nothing to put, or Redis failed: the error is swallowed.
PutL2Skipped(r) ==
  /\ pc[r] = "l2_put"
  /\ Done(r)
  /\ UNCHANGED <<time, l1, l2, changes>>

-----------------------------------------------------------------------------
(* invalidate: the base key, here and in Redis *)

InvalidateL1(r, g) ==
  /\ pc[r] = "idle" /\ changes < MaxChanges
  /\ l1' = [l1 EXCEPT ![g] = Without(@, Base)]
  /\ Goto(r, "l2_del")
  /\ changes' = changes + 1
  /\ UNCHANGED <<time, l2, at, value, key, entry, reply, victim>>

InvalidateL2(r) ==
  /\ pc[r] = "l2_del"
  /\ l2' \in {l2, Without(l2, Base)}
  /\ Done(r)
  /\ UNCHANGED <<time, l1, changes>>

-----------------------------------------------------------------------------
\* The client goes away while the request awaits Redis or the upstream.
Cancel(r) ==
  /\ pc[r] \in Awaiting
  /\ Done(r)
  /\ UNCHANGED <<time, l1, l2, changes>>

\* Time passes while requests await something, and not in between; Redis drops
\* what has expired.
Tick ==
  /\ time < MaxTime
  /\ \A r \in Requests :
        /\ pc[r] \in Awaiting \cup {"idle"}
        /\ pc[r] \in Holding => wait[r] < MaxDelay
  /\ time' = time + 1
  /\ l2' = RestrictValues(l2, LAMBDA e : time + 1 < e.expires)
  /\ wait' = [r \in Requests |-> IF pc[r] \in Holding THEN wait[r] + 1 ELSE 0]
  /\ UNCHANGED <<l1, pc, at, value, key, entry, reply, victim, changes>>

Next ==
  \/ Tick
  \/ \E r \in Requests :
       \/ \E g \in Gateways, v \in Values : Lookup(r, g, v) \/ Bypass(r, g, v)
       \/ \E g \in Gateways : InvalidateL1(r, g)
       \/ GetL1Miss(r) \/ DropExpired(r) \/ GetL1Base(r) \/ GetL1Full(r)
       \/ GetL2(r) \/ GetL2Hit(r) \/ GetL2Miss(r)
       \/ PromoteCheck(r) \/ PromoteInsert(r) \/ Respond(r)
       \/ FetchUnstored(r) \/ Fetch(r) \/ StoreCheck(r) \/ StoreInsert(r)
       \/ PutL2(r) \/ PutL2Skipped(r) \/ InvalidateL2(r) \/ Cancel(r)

Spec == Init /\ [][Next]_vars

-----------------------------------------------------------------------------
(* Properties *)

Entry == [ttl : 0 .. RouteTtl, stored_at : Nat, varies : BOOLEAN,
          by : Gateways, created : Nat, private : BOOLEAN]

\* Every variable has its type; no entry outlives the route's ttl.
TypeOK ==
  /\ time \in 0 .. MaxTime
  /\ \A g \in Gateways : DOMAIN l1[g] \subseteq Keys /\ Range(l1[g]) \subseteq Entry
  /\ DOMAIN l2 \subseteq Keys /\ Range(l2) \subseteq [entry : Entry, expires : Nat]
  /\ pc \in [Requests -> Stages]
  /\ at \in [Requests -> Gateways \cup {None}]
  /\ value \in [Requests -> Values \cup {None}]
  /\ key \in [Requests -> Keys]
  /\ entry \in [Requests -> Entry \cup {None}]
  /\ reply \in [Requests -> Entry \cup {None}]
  /\ victim \in [Requests -> Keys \cup {None}]
  /\ wait \in [Requests -> 0 .. MaxDelay]
  /\ changes \in 0 .. MaxChanges

\* "Private responses go into L1 only (per-process, not shared across
\* replicas)": through whatever promotions, no other gateway ever has one.
PrivateStaysHome ==
  /\ \A k \in DOMAIN l2 : ~l2[k].entry.private
  /\ \A g \in Gateways : \A k \in DOMAIN l1[g] :
        l1[g][k].private => l1[g][k].by = g

\* "Entry found and fresh": a response is served from the cache only within its
\* ttl, give or take the time it took on its way to Redis and back, or by how much
\* the clock of the gateway that fetched it is ahead of the one that serves it;
\* copying it from tier to tier gives it no new life.
FreshEnough ==
  [][\A r \in Requests : pc[r] # "hit" /\ pc'[r] = "hit" =>
       LET e == entry'[r]
           overdue == time - e.created - e.ttl
       IN  overdue < 2 * MaxDelay \/ overdue < Skew[e.by] - Skew[at[r]]]_vars
=============================================================================
