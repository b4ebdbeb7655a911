---------------------------- MODULE ShutdownProofs ----------------------------
(***************************************************************************)
(* Proofs about the serving process, for every number of connections and   *)
(* requests, every body limit, set of replies and drain timeout.  The      *)
(* connections and the counters that shadow them come first, then the      *)
(* requests and the series that count them.                                *)
(***************************************************************************)
EXTENDS Shutdown, FiniteSetTheorems, TLAPS

-----------------------------------------------------------------------------
(* Connections *)

ConnStates == {"none", "accepted", "handshake", "h1", "h2", "closing", "killed"}

\* A request belongs to a connection only while that is open, so nobody waits for
\* an answer once no task is inside serve_connection.
ServingInv ==
  /\ conn \in [Connections -> ConnStates]
  /\ connOf \in [Requests -> SUBSET Connections]
  /\ CountersMatch
  /\ \A q \in Requests : \A c \in connOf[q] : conn[c] \in Open

\* The sets the counters shadow are finite.
LEMMA ServedFinite ==
  /\ IsFiniteSet(Served) /\ IsFiniteSet(Served \cup Closing)
  /\ Cardinality(Served) \in Nat /\ Cardinality(Served \cup Closing) \in Nat
<1>1. Served \subseteq Connections /\ Served \cup Closing \subseteq Connections
  BY DEF Served, Closing
<1>2. IsFiniteSet(Served) /\ IsFiniteSet(Served \cup Closing)
  BY <1>1, ShutdownAssumption, FS_Subset
<1>3. QED
  BY <1>2, FS_CardinalityType

\* A request keeps its connection only if that stays open.
LEMMA ReleaseKeepsOpen ==
  ASSUME ServingInv, Release
  PROVE  /\ connOf' \in [Requests -> SUBSET Connections]
         /\ \A q \in Requests : \A c \in connOf'[q] : conn'[c] \in Open
BY DEF ServingInv, Release

LEMMA PerishServing ==
  ASSUME Perish, up' = FALSE
  PROVE  ServingInv'
<1>1. conn' \in [Connections -> ConnStates]
  BY DEF Perish, ConnStates
<1>2. \A q \in Requests : connOf'[q] = {}
  BY DEF Perish
<1>3. connOf' \in [Requests -> SUBSET Connections]
  BY DEF Perish
<1>4. QED
  BY <1>1, <1>2, <1>3 DEF ServingInv, CountersMatch

LEMMA ServingStep ==
  ASSUME ServingInv, [Next]_vars
  PROVE  ServingInv'
<1> USE DEF connections, exchanges, startupVars
<1>1. ASSUME UNCHANGED connections, UNCHANGED connOf \/ Release, up' => up
      PROVE  ServingInv'
  <2>1. Served' = Served /\ Closing' = Closing
    BY <1>1 DEF Served, Closing
  <2>2. CountersMatch'
    BY <1>1, <2>1 DEF ServingInv, CountersMatch
  <2>3. /\ connOf' \in [Requests -> SUBSET Connections]
        /\ \A q \in Requests : \A c \in connOf'[q] : conn'[c] \in Open
    BY <1>1, ReleaseKeepsOpen DEF ServingInv
  <2>4. QED
    BY <1>1, <2>2, <2>3 DEF ServingInv
<1>2. CASE Startup
  <2>1. CASE BootFails \/ KilledEarly \/ \E readable \in SUBSET TlsFiles : AcceptorFails(readable)
    <3>1. up' = FALSE
      BY <2>1 DEF BootFails, KilledEarly, AcceptorFails, Fail
    <3>2. Perish \/ UNCHANGED <<elapsed, connections, exchanges>>
      BY <1>2 DEF Startup
    <3>3. QED
      BY <1>1, <3>1, <3>2, PerishServing
  <2>2. CASE ~(BootFails \/ KilledEarly \/ \E readable \in SUBSET TlsFiles : AcceptorFails(readable))
    <3>1. UNCHANGED <<elapsed, connections, exchanges>> /\ up' = up
      BY <1>2, <2>2 DEF Startup, Load, BuildAuth, LimitersBuilt, BuildCache, SpawnTasks,
         BuildLimiter, Bind, RegisterHandlers, Signal, Boot
    <3>2. QED
      BY <1>1, <3>1
  <2>3. QED
    BY <2>1, <2>2
<1>3. CASE AcceptError \/ BackoffOver \/ StopAccepting \/ DrainPoll
  BY <1>1, <1>3 DEF AcceptError, BackoffOver, StopAccepting, DrainPoll
<1>4. CASE Exit
  BY <1>4, PerishServing DEF Exit
<1>5. ASSUME NEW c \in Connections, Accept(c)
      PROVE  ServingInv'
  <2>1. \A d \in Connections : conn'[d] = IF d = c THEN "accepted" ELSE conn[d]
    BY <1>5 DEF Accept, ServingInv
  <2>2. Served' = Served /\ Closing' = Closing
    BY <1>5, <2>1 DEF Accept, Served, Closing, Open
  <2>3. QED
    BY <1>5, <2>1, <2>2 DEF Accept, ServingInv, ConnStates, CountersMatch, Open
<1>6. ASSUME NEW c \in Connections, Spawn(c)
      PROVE  ServingInv'
  <2>1. PICK first \in Open \cup {"handshake"} : conn' = [conn EXCEPT ![c] = first]
    BY <1>6 DEF Spawn
  <2>2. \A d \in Connections : conn'[d] = IF d = c THEN first ELSE conn[d]
    BY <2>1 DEF ServingInv
  <2>3. /\ Served' = Served \cup {c} /\ c \notin Served
        /\ (Served \cup Closing)' = (Served \cup Closing) \cup {c} /\ c \notin Served \cup Closing
    BY <1>6, <2>2 DEF Spawn, Served, Closing, Open
  <2>4. /\ Cardinality(Served') = Cardinality(Served) + 1
        /\ Cardinality((Served \cup Closing)') = Cardinality(Served \cup Closing) + 1
    BY <2>3, ServedFinite, FS_AddElement
  <2>5. CountersMatch'
    BY <1>6, <2>4 DEF Spawn, CountersMatch, ServingInv
  <2>6. conn' \in [Connections -> ConnStates]
    BY <2>1 DEF ServingInv, ConnStates, Open
  <2>7. \A q \in Requests : \A d \in connOf'[q] : conn'[d] \in Open
    <3>1. connOf' = connOf /\ conn[c] \notin Open
      BY <1>6 DEF Spawn, Open
    <3>2. QED
      BY <2>2, <3>1 DEF ServingInv
  <2>8. QED
    BY <1>6, <2>5, <2>6, <2>7 DEF Spawn, ServingInv
<1>7. ASSUME NEW c \in Connections, HandshakeOk(c)
      PROVE  ServingInv'
  <2>1. PICK protocol \in Open : conn' = [conn EXCEPT ![c] = protocol]
    BY <1>7 DEF HandshakeOk
  <2>2. \A d \in Connections : conn'[d] = IF d = c THEN protocol ELSE conn[d]
    BY <2>1 DEF ServingInv
  <2>3. Served' = Served /\ Closing' = Closing
    BY <1>7, <2>2 DEF HandshakeOk, Served, Closing, Open
  <2>4. conn' \in [Connections -> ConnStates]
    BY <2>1 DEF ServingInv, ConnStates, Open
  <2>5. QED
    BY <1>7, <2>2, <2>3, <2>4 DEF HandshakeOk, ServingInv, CountersMatch
<1>8. ASSUME NEW c \in Connections, ServeEnds(c)
      PROVE  ServingInv'
  <2>1. conn' \in [Connections -> ConnStates]
    BY <1>8 DEF ServeEnds, ServingInv, ConnStates
  <2>2. \A d \in Connections : conn'[d] = IF d = c THEN "closing" ELSE conn[d]
    BY <1>8 DEF ServeEnds, ServingInv
  <2>3. /\ Served' = Served \ {c} /\ c \in Served
        /\ (Served \cup Closing)' = Served \cup Closing
    BY <1>8, <2>2 DEF ServeEnds, Served, Closing, Open
  <2>4. Cardinality(Served') = Cardinality(Served) - 1
    BY <2>3, ServedFinite, FS_RemoveElement
  <2>5. CountersMatch'
    BY <1>8, <2>3, <2>4 DEF ServeEnds, CountersMatch, ServingInv
  <2>6. QED
    BY <1>8, <2>1, <2>5, ReleaseKeepsOpen DEF ServeEnds, ServingInv
<1>9. ASSUME NEW c \in Connections, ConnectionClose(c)
      PROVE  ServingInv'
  <2>1. conn' \in [Connections -> ConnStates]
    BY <1>9 DEF ConnectionClose, ServingInv, ConnStates
  <2>2. \A d \in Connections : conn'[d] = IF d = c THEN "none" ELSE conn[d]
    BY <1>9 DEF ConnectionClose, ServingInv
  <2>3. /\ Served' = Served
        /\ (Served \cup Closing)' = (Served \cup Closing) \ {c} /\ c \in Served \cup Closing
    BY <1>9, <2>2 DEF ConnectionClose, Served, Closing, Open
  <2>4. Cardinality((Served \cup Closing)') = Cardinality(Served \cup Closing) - 1
    BY <2>3, ServedFinite, FS_RemoveElement
  <2>5. CountersMatch'
    BY <1>9, <2>3, <2>4 DEF ConnectionClose, CountersMatch, ServingInv
  <2>6. \A q \in Requests : \A d \in connOf'[q] : conn'[d] \in Open
    <3>1. connOf' = connOf /\ conn[c] \notin Open
      BY <1>9 DEF ConnectionClose, Open
    <3>2. QED
      BY <2>2, <3>1 DEF ServingInv
  <2>7. QED
    BY <1>9, <2>1, <2>5, <2>6 DEF ConnectionClose, ServingInv
<1>10. ASSUME NEW c \in Connections, NEW q \in Requests, StartRequest(c, q)
       PROVE  ServingInv'
  <2>1. Served' = Served /\ Closing' = Closing
    BY <1>10 DEF StartRequest, Served, Closing
  <2>2. /\ connOf' \in [Requests -> SUBSET Connections]
        /\ \A r \in Requests : connOf'[r] \subseteq connOf[r] \/ connOf'[r] = {c}
    BY <1>10 DEF StartRequest, ServingInv
  <2>3. conn' = conn /\ conn[c] \in Open
    BY <1>10 DEF StartRequest
  <2>4. QED
    BY <1>10, <2>1, <2>2, <2>3 DEF StartRequest, ServingInv, CountersMatch
<1>11. ASSUME NEW q \in Requests, ServeRequest(q) \/ DropStream(q)
       PROVE  ServingInv'
  BY <1>1, <1>11 DEF ServeRequest, DropStream
<1>12. CASE UNCHANGED vars
  BY <1>1, <1>12 DEF vars
<1>13. QED
  BY <1>2, <1>3, <1>4, <1>5, <1>6, <1>7, <1>8, <1>9, <1>10, <1>11, <1>12 DEF Next

-----------------------------------------------------------------------------
(* Requests *)

RequestStates ==
  [at : Awaits \cup {"none", "answered", "dropped", "cut"}, len : Nat, got : Nat,
   upstream : Replies \cup {None}, told : [status : Nat, by : Sources] \cup {None},
   lost : {None, "sending", "storing"}]

\* Told, lost and upstream are set exactly where the handler sets them, and no more
\* has been read of a body than is allowed.
Shape(r) ==
  /\ r.told # None <=> r.at = "answered"
  /\ r.lost # None => r.at = "dropped"
  /\ "storing" \in {r.at, r.lost} => r.upstream \in Replies
  /\ r.at = "none" => r.got = 0
  /\ r.at = "reading" => r.got <= r.len /\ r.got <= MaxBody

By(r, sources) == r.told # None /\ r.told.by \in sources

Seen(r) == {r.at, r.lost} \cap {"sending", "storing"} # {}

\* A request is one that a series counts.
Counted(r, family, label) ==
  CASE family = "concurrency_rejected_total" -> By(r, {"gate"})
    [] family = "rate_limit_denied_total" -> By(r, {label})
    [] family = "auth_failures_total" -> By(r, {e \in AuthErrors : mechanism(e) = label})
    [] family = "cache_lookups_total" /\ label = "hit" -> By(r, {"cache"})
    [] family = "cache_lookups_total" /\ label # "hit" ->
         By(r, {"pool", "send", "upstream"}) \/ Seen(r)
    [] family = "requests_total" ->
         By(r, {"upstream"}) /\ status_class(r.told.status) = label
    [] family = "upstream_requests_total" ->
         \/ By(r, {"upstream"}) /\ status_class(r.told.status) = label
         \/ "storing" \in {r.at, r.lost} /\ status_class(r.upstream.status) = label

CountedIn(family, label) == {q \in Requests : Counted(req[q], family, label)}

Tally(family, label) == Value(family, label) = Cardinality(CountedIn(family, label))

\* A lookup that did not hit is a miss or a bypass.
NoHits == Value("cache_lookups_total", "miss") + Value("cache_lookups_total", "bypass")

\* Every series has the value of the number of requests that it counts.
Tallied ==
  /\ Tally("concurrency_rejected_total", "limit")
  /\ \A layer \in Layers : Tally("rate_limit_denied_total", layer)
  /\ \A m \in Mechanisms : Tally("auth_failures_total", m)
  /\ Tally("cache_lookups_total", "hit")
  /\ NoHits = Cardinality(CountedIn("cache_lookups_total", "miss"))
  /\ \A c \in Classes : Tally("requests_total", c) /\ Tally("upstream_requests_total", c)

ExchangeInv ==
  /\ req \in [Requests -> RequestStates]
  /\ \A q \in Requests : Shape(req[q])
  /\ \A s \in DOMAIN registry : registry[s] \in Nat
  /\ Tallied

-----------------------------------------------------------------------------
(* What is counted of one request *)

\* A request without an answer is counted for its lookup and its upstream only.
LEMMA CountedPending ==
  ASSUME NEW r, r.told = None
  PROVE  /\ \A l : ~Counted(r, "concurrency_rejected_total", l)
         /\ \A l : ~Counted(r, "rate_limit_denied_total", l)
         /\ \A l : ~Counted(r, "auth_failures_total", l)
         /\ ~Counted(r, "cache_lookups_total", "hit")
         /\ Counted(r, "cache_lookups_total", "miss") <=> Seen(r)
         /\ \A l : ~Counted(r, "requests_total", l)
         /\ \A l : Counted(r, "upstream_requests_total", l) <=>
                     "storing" \in {r.at, r.lost} /\ status_class(r.upstream.status) = l
BY DEF Counted, By

\* One with an answer is counted for what that came from.
LEMMA CountedAnswered ==
  ASSUME NEW r, r.told # None, r.at = "answered", r.lost = None, NEW b, b = r.told.by
  PROVE  /\ \A l : Counted(r, "concurrency_rejected_total", l) <=> b = "gate"
         /\ \A l : Counted(r, "rate_limit_denied_total", l) <=> b = l
         /\ \A l : Counted(r, "auth_failures_total", l) <=>
                     b \in AuthErrors /\ mechanism(b) = l
         /\ Counted(r, "cache_lookups_total", "hit") <=> b = "cache"
         /\ Counted(r, "cache_lookups_total", "miss") <=> b \in {"pool", "send", "upstream"}
         /\ \A l : Counted(r, "requests_total", l) <=>
                     b = "upstream" /\ status_class(r.told.status) = l
         /\ \A l : Counted(r, "upstream_requests_total", l) <=>
                     b = "upstream" /\ status_class(r.told.status) = l
<1>1. ~Seen(r) /\ "storing" \notin {r.at, r.lost}
  BY ExchangeAssumption DEF Seen
<1>2. \A sources : By(r, sources) <=> b \in sources
  BY DEF By
<1>3. QED
  BY <1>1, <1>2 DEF Counted

\* A request that goes from one state to another is newly counted exactly in the
\* series that record an event.
Fits(before, after, series, f, l) ==
  /\ Counted(after, f, l) <=> Counted(before, f, l) \/ <<f, l>> \in series
  /\ <<f, l>> \in series => ~Counted(before, f, l)

LookupFits(before, after, series) ==
  LET miss == <<"cache_lookups_total", "miss">> \in series
      bypass == <<"cache_lookups_total", "bypass">> \in series
  IN  /\ Counted(after, "cache_lookups_total", "miss") <=>
            Counted(before, "cache_lookups_total", "miss") \/ miss \/ bypass
      /\ miss \/ bypass => ~Counted(before, "cache_lookups_total", "miss")
      /\ ~(miss /\ bypass)

AllFit(before, after, series) ==
  /\ Fits(before, after, series, "concurrency_rejected_total", "limit")
  /\ \A layer \in Layers : Fits(before, after, series, "rate_limit_denied_total", layer)
  /\ \A m \in Mechanisms : Fits(before, after, series, "auth_failures_total", m)
  /\ Fits(before, after, series, "cache_lookups_total", "hit")
  /\ LookupFits(before, after, series)
  /\ \A c \in Classes : /\ Fits(before, after, series, "requests_total", c)
                        /\ Fits(before, after, series, "upstream_requests_total", c)

\* What a recording call does to a series.
LEMMA CountAdds ==
  ASSUME NEW r, \A s \in DOMAIN r : r[s] \in Nat, NEW series, NEW t
  PROVE  /\ ValueOf(r, t) \in Nat
         /\ ValueOf(Count(r, series), t) = ValueOf(r, t) + (IF t \in series THEN 1 ELSE 0)
         /\ \A s \in DOMAIN Count(r, series) : Count(r, series)[s] \in Nat
BY DEF ValueOf, Count

LEMMA RegistryAdds ==
  ASSUME \A s \in DOMAIN registry : registry[s] \in Nat,
         NEW series, registry' = Count(registry, series), NEW f, NEW l
  PROVE  /\ Value(f, l) \in Nat
         /\ Value(f, l)' = Value(f, l) + (IF <<f, l>> \in series THEN 1 ELSE 0)
BY CountAdds DEF Value

LEMMA CountedFinite ==
  ASSUME NEW f, NEW l
  PROVE  IsFiniteSet(CountedIn(f, l)) /\ Cardinality(CountedIn(f, l)) \in Nat
<1>1. CountedIn(f, l) \subseteq Requests
  BY DEF CountedIn
<1>2. QED
  BY <1>1, ExchangeAssumption, FS_Subset, FS_CardinalityType

\* The requests counted in a series, when one request takes a step.
LEMMA CountedMoves ==
  ASSUME NEW q \in Requests, \A p \in Requests : p # q => req'[p] = req[p],
         NEW f, NEW l
  PROVE  /\ (Counted(req'[q], f, l) <=> Counted(req[q], f, l)) =>
              Cardinality(CountedIn(f, l)') = Cardinality(CountedIn(f, l))
         /\ Counted(req'[q], f, l) /\ ~Counted(req[q], f, l) =>
              Cardinality(CountedIn(f, l)') = Cardinality(CountedIn(f, l)) + 1
<1>1. ASSUME Counted(req'[q], f, l) <=> Counted(req[q], f, l)
      PROVE  CountedIn(f, l)' = CountedIn(f, l)
  BY <1>1 DEF CountedIn
<1>2. ASSUME Counted(req'[q], f, l), ~Counted(req[q], f, l)
      PROVE  CountedIn(f, l)' = CountedIn(f, l) \cup {q} /\ q \notin CountedIn(f, l)
  BY <1>2 DEF CountedIn
<1>3. QED
  BY <1>1, <1>2, CountedFinite, FS_AddElement

\* The step of one request keeps the tallies.
LEMMA TallyStep ==
  ASSUME NEW q \in Requests, \A p \in Requests : p # q => req'[p] = req[p],
         \A s \in DOMAIN registry : registry[s] \in Nat,
         NEW series, registry' = Count(registry, series),
         AllFit(req[q], req'[q], series), Tallied
  PROVE  Tallied'
<1> DEFINE Inc(f, l) == IF <<f, l>> \in series THEN 1 ELSE 0
<1>1. ASSUME NEW f, NEW l
      PROVE  Value(f, l) \in Nat /\ Value(f, l)' = Value(f, l) + Inc(f, l)
  BY RegistryAdds
<1>2. ASSUME NEW f, NEW l, Tally(f, l), Fits(req[q], req'[q], series, f, l)
      PROVE  Tally(f, l)'
  <2>1. Cardinality(CountedIn(f, l)') = Cardinality(CountedIn(f, l)) + Inc(f, l)
    BY <1>2, CountedMoves, CountedFinite DEF Fits
  <2>2. QED
    BY <1>1, <1>2, <2>1 DEF Tally
<1>3. NoHits' = Cardinality(CountedIn("cache_lookups_total", "miss")')
  <2> DEFINE C == "cache_lookups_total"
  <2>1. Cardinality(CountedIn(C, "miss")')
          = Cardinality(CountedIn(C, "miss")) + Inc(C, "miss") + Inc(C, "bypass")
    BY CountedMoves, CountedFinite DEF AllFit, LookupFits
  <2>2. /\ Value(C, "miss") \in Nat /\ Value(C, "bypass") \in Nat
        /\ Value(C, "miss")' = Value(C, "miss") + Inc(C, "miss")
        /\ Value(C, "bypass")' = Value(C, "bypass") + Inc(C, "bypass")
    BY <1>1
  <2>3. Value(C, "miss") + Value(C, "bypass") = Cardinality(CountedIn(C, "miss"))
    BY DEF Tallied, NoHits
  <2>4. NoHits' = Value(C, "miss")' + Value(C, "bypass")'
    BY DEF NoHits
  <2>5. Inc(C, "miss") \in Nat /\ Inc(C, "bypass") \in Nat
    OBVIOUS
  <2> HIDE DEF Inc
  <2>6. QED
    BY <2>1, <2>2, <2>3, <2>4, <2>5, CountedFinite
<1> HIDE DEF Inc
<1>4. /\ Tally("concurrency_rejected_total", "limit")'
      /\ \A layer \in Layers : Tally("rate_limit_denied_total", layer)'
      /\ \A m \in Mechanisms : Tally("auth_failures_total", m)'
      /\ Tally("cache_lookups_total", "hit")'
      /\ \A c \in Classes : Tally("requests_total", c)' /\ Tally("upstream_requests_total", c)'
  BY <1>2 DEF Tallied, AllFit
<1>5. QED
  BY <1>3, <1>4 DEF Tallied

\* Requests that change without being counted anew keep them too.
LEMMA TallySame ==
  ASSUME Tallied, registry' = registry, \A q \in Requests : AllFit(req[q], req'[q], {})
  PROVE  Tallied'
<1>1. ASSUME NEW f, NEW l, \A q \in Requests : Fits(req[q], req'[q], {}, f, l), Tally(f, l)
      PROVE  Tally(f, l)'
  <2>1. CountedIn(f, l)' = CountedIn(f, l)
    BY <1>1 DEF CountedIn, Fits
  <2>2. QED
    BY <1>1, <2>1 DEF Tally, Value
<1>2. NoHits' = Cardinality(CountedIn("cache_lookups_total", "miss")')
  <2>1. CountedIn("cache_lookups_total", "miss")' = CountedIn("cache_lookups_total", "miss")
    BY DEF CountedIn, AllFit, LookupFits
  <2>2. QED
    BY <2>1 DEF Tallied, NoHits, Value
<1>3. QED
  <2>1. Tally("concurrency_rejected_total", "limit")' /\ Tally("cache_lookups_total", "hit")'
    BY <1>1 DEF Tallied, AllFit
  <2>2. \A layer \in Layers : Tally("rate_limit_denied_total", layer)'
    BY <1>1 DEF Tallied, AllFit
  <2>3. \A m \in Mechanisms : Tally("auth_failures_total", m)'
    BY <1>1 DEF Tallied, AllFit
  <2>4. \A c \in Classes : Tally("requests_total", c)' /\ Tally("upstream_requests_total", c)'
    BY <1>1 DEF Tallied, AllFit
  <2>5. QED
    BY <1>2, <2>1, <2>2, <2>3, <2>4 DEF Tallied

\* A step of a request that gets no answer, or one that nothing counts.
LEMMA FitPending ==
  ASSUME NEW r, NEW t, r.told = None, t.told = None, Seen(r) <=> Seen(t),
         "storing" \in {r.at, r.lost} <=> "storing" \in {t.at, t.lost},
         "storing" \in {t.at, t.lost} => t.upstream = r.upstream
  PROVE  AllFit(r, t, {})
BY CountedPending DEF AllFit, Fits, LookupFits

LEMMA FitSame ==
  ASSUME NEW r
  PROVE  AllFit(r, r, {})
BY DEF AllFit, Fits, LookupFits

\* One request takes a step.
LEMMA OneStep ==
  ASSUME ExchangeInv, NEW q \in Requests, NEW new \in RequestStates, Shape(new),
         req' = [req EXCEPT ![q] = new],
         NEW series,
         registry' = Count(registry, series) \/ (series = {} /\ registry' = registry),
         AllFit(req[q], new, series)
  PROVE  ExchangeInv'
<1>1. /\ req'[q] = new /\ req' \in [Requests -> RequestStates]
      /\ \A p \in Requests : p # q => req'[p] = req[p]
  BY DEF ExchangeInv
<1>2. \A p \in Requests : Shape(req'[p])
  BY <1>1 DEF ExchangeInv
<1>3. \A s \in DOMAIN registry : registry[s] \in Nat
  BY DEF ExchangeInv
<1>4. \A s \in DOMAIN registry' : registry'[s] \in Nat
  BY <1>3, CountAdds
<1>5. Tallied'
  <2>1. CASE registry' = Count(registry, series)
    BY <1>1, <1>3, <2>1, TallyStep DEF ExchangeInv
  <2>2. CASE series = {} /\ registry' = registry
    <3>1. \A p \in Requests : AllFit(req[p], req'[p], {})
      BY <1>1, <2>2, FitSame
    <3>2. QED
      BY <2>2, <3>1, TallySame DEF ExchangeInv
  <2>3. QED
    BY <2>1, <2>2
<1>6. QED
  BY <1>1, <1>2, <1>4, <1>5 DEF ExchangeInv, Shape

\* A request that has not been sent.
LEMMA UnsentShape ==
  /\ Unsent \in RequestStates /\ Shape(Unsent)
  /\ Unsent.at = "none" /\ Unsent.len = 0 /\ Unsent.got = 0 /\ Unsent.upstream = None
  /\ Unsent.told = None /\ Unsent.lost = None
BY ExchangeAssumption DEF Unsent, RequestStates, Shape

\* Setting some of its fields.
LEMMA UnsentTold ==
  ASSUME NEW told \in [status : Nat, by : Sources] \cup {None}, NEW new,
         new = [Unsent EXCEPT !.at = "answered", !.told = told]
  PROVE  new \in RequestStates /\ new.at = "answered" /\ new.told = told /\ new.lost = None
BY UnsentShape DEF RequestStates

\* The answers a handler gives.
Answered(status, by) ==
  [Unsent EXCEPT !.at = "answered", !.told = [status |-> status, by |-> by]]

LEMMA AnsweredShape ==
  ASSUME NEW status \in Nat, NEW by \in Sources
  PROVE  /\ Answered(status, by) \in RequestStates /\ Shape(Answered(status, by))
         /\ Answered(status, by).told = [status |-> status, by |-> by]
         /\ Answered(status, by).told # None
         /\ Answered(status, by).at = "answered" /\ Answered(status, by).lost = None
<1> DEFINE new == Answered(status, by)
           told == [status |-> status, by |-> by]
<1>1. told \in [status : Nat, by : Sources] /\ told # None
  BY ExchangeAssumption
<1> HIDE DEF told
<1>2. new = [Unsent EXCEPT !.at = "answered", !.told = told]
  BY DEF Answered, told
<1> HIDE DEF new
<1>3. /\ new \in RequestStates /\ new.at = "answered" /\ new.told = told /\ new.lost = None
  BY <1>1, <1>2, UnsentTold
<1>4. Shape(new)
  BY <1>1, <1>3, ExchangeAssumption DEF Shape
<1>5. QED
  BY <1>1, <1>3, <1>4 DEF new, told

\* A handler that is dropped had given no answer, and is counted as before.
LEMMA DroppedFits ==
  ASSUME NEW r \in RequestStates, Shape(r), r.at \in Awaits
  PROVE  /\ Dropped(r, "dropped") \in RequestStates /\ Shape(Dropped(r, "dropped"))
         /\ AllFit(r, Dropped(r, "dropped"), {})
<1> DEFINE new == Dropped(r, "dropped")
           lost == IF r.at \in {"sending", "storing"} THEN r.at ELSE None
<1>1. new = [Unsent EXCEPT !.at = "dropped", !.upstream = r.upstream, !.lost = lost]
  BY DEF Dropped
<1>2. r.told = None /\ r.lost = None
  BY DEF Shape, Awaits
<1>3. /\ lost \in {None, "sending", "storing"} /\ r.upstream \in Replies \cup {None}
      /\ lost = "storing" <=> r.at = "storing"
      /\ lost = "sending" <=> r.at = "sending"
  BY ExchangeAssumption DEF RequestStates
<1> HIDE DEF new, lost
<1>4. PICK upstream \in Replies \cup {None} : upstream = r.upstream
  BY <1>3
<1>5. /\ new.told = None /\ new.at = "dropped" /\ new.lost = lost
      /\ new.upstream = r.upstream /\ new \in RequestStates
  <2>1. new = [Unsent EXCEPT !.at = "dropped", !.upstream = upstream, !.lost = lost]
    BY <1>1, <1>4
  <2>2. /\ new.told = None /\ new.at = "dropped" /\ new.lost = lost
        /\ new.upstream = upstream /\ new \in RequestStates
    BY <1>3, <2>1, UnsentShape DEF RequestStates
  <2>3. QED
    BY <1>4, <2>2
<1>6. Shape(new)
  BY <1>2, <1>3, <1>5 DEF Shape
<1>7. /\ Seen(r) <=> Seen(new)
      /\ "storing" \in {r.at, r.lost} <=> "storing" \in {new.at, new.lost}
  BY <1>2, <1>3, <1>5, ExchangeAssumption DEF Seen
<1>8. AllFit(r, new, {})
  BY <1>2, <1>5, <1>7, FitPending
<1>9. QED
  BY <1>5, <1>6, <1>8 DEF new

\* When the process is gone nothing is counted, and the registry is new.
LEMMA PerishExchange ==
  ASSUME Perish
  PROVE  ExchangeInv'
<1>1. /\ Unsent \in RequestStates /\ Shape(Unsent) /\ Unsent.told = None
      /\ Unsent.at = "none" /\ Unsent.lost = None
  BY UnsentShape
<1> DEFINE cut == Dropped(Unsent, "cut")
<1>2. cut = [Unsent EXCEPT !.at = "cut", !.upstream = None, !.lost = None]
  BY UnsentShape DEF Dropped
<1>3. cut \in RequestStates /\ Shape(cut) /\ cut.told = None /\ cut.at = "cut" /\ cut.lost = None
  <2> HIDE DEF cut
  <2>1. cut \in RequestStates /\ cut.told = None /\ cut.at = "cut" /\ cut.lost = None
    BY <1>2, UnsentShape DEF RequestStates
  <2>2. QED
    BY <2>1, ExchangeAssumption DEF Shape
<1>4. \A q \in Requests : req'[q] \in {Unsent, cut}
  BY DEF Perish
<1>5. req' \in [Requests -> RequestStates] /\ \A q \in Requests : Shape(req'[q])
  <2>1. req' = [q \in Requests |-> req'[q]]
    BY DEF Perish
  <2> HIDE DEF cut
  <2>2. QED
    BY <1>1, <1>3, <1>4, <2>1
<1>6. registry' = NewRegistry /\ \A f, l : Value(f, l)' = 0
  BY DEF Perish, NewRegistry, Value, ValueOf
<1>7. \A r \in {Unsent, cut} :
        /\ \A l : ~Counted(r, "concurrency_rejected_total", l)
        /\ \A l : ~Counted(r, "rate_limit_denied_total", l)
        /\ \A l : ~Counted(r, "auth_failures_total", l)
        /\ ~Counted(r, "cache_lookups_total", "hit") /\ ~Counted(r, "cache_lookups_total", "miss")
        /\ \A l : ~Counted(r, "requests_total", l)
        /\ \A l : ~Counted(r, "upstream_requests_total", l)
  <2> HIDE DEF cut
  <2>1. ASSUME NEW r \in {Unsent, cut}
        PROVE  r.told = None /\ ~Seen(r) /\ "storing" \notin {r.at, r.lost}
    BY <1>1, <1>3, ExchangeAssumption DEF Seen
  <2>2. QED
    BY <2>1, CountedPending
<1> HIDE DEF cut
<1>8. ASSUME NEW f, NEW l, \A r \in {Unsent, cut} : ~Counted(r, f, l)
      PROVE  Cardinality(CountedIn(f, l)') = 0 /\ Tally(f, l)'
  <2>1. CountedIn(f, l)' = {}
    BY <1>4, <1>8 DEF CountedIn
  <2>2. QED
    BY <1>6, <2>1, FS_EmptySet DEF Tally
<1>9. Tallied'
  <2>1. NoHits' = 0
    BY <1>6 DEF NoHits
  <2>2. Cardinality(CountedIn("cache_lookups_total", "miss")') = 0
    BY <1>7, <1>8
  <2>3. QED
    BY <1>7, <1>8, <2>1, <2>2 DEF Tallied
<1>10. QED
  BY <1>5, <1>6, <1>9 DEF ExchangeInv, NewRegistry, Shape

-----------------------------------------------------------------------------
(* The steps of a handler *)

\* The series recorded with an answer are those of what it comes from.
Explained(r, by, series) ==
  /\ <<"concurrency_rejected_total", "limit">> \in series <=> by = "gate"
  /\ \A layer \in Layers : <<"rate_limit_denied_total", layer>> \in series <=> by = layer
  /\ \A m \in Mechanisms : <<"auth_failures_total", m>> \in series <=>
                             by \in AuthErrors /\ mechanism(by) = m
  /\ <<"cache_lookups_total", "hit">> \in series <=> by = "cache"
  /\ LET miss == <<"cache_lookups_total", "miss">> \in series
         bypass == <<"cache_lookups_total", "bypass">> \in series
     IN  /\ by \in {"pool", "send", "upstream"} <=> Seen(r) \/ miss \/ bypass
         /\ miss \/ bypass => ~Seen(r)
         /\ ~(miss /\ bypass)
  /\ \A c \in Classes : /\ <<"requests_total", c>> \notin series
                        /\ <<"upstream_requests_total", c>> \notin series

LEMMA FitAnswer ==
  ASSUME NEW r, r.told = None, r.at # "storing", r.lost # "storing",
         NEW new, new.told # None, new.at = "answered", new.lost = None,
         NEW by, by = new.told.by, by # "upstream", NEW series, Explained(r, by, series)
  PROVE  AllFit(r, new, series)
<1>1. /\ Fits(r, new, series, "concurrency_rejected_total", "limit")
      /\ Fits(r, new, series, "cache_lookups_total", "hit")
  BY CountedPending, CountedAnswered DEF Fits, Explained
<1>2. \A layer \in Layers : Fits(r, new, series, "rate_limit_denied_total", layer)
  BY CountedPending, CountedAnswered DEF Fits, Explained
<1>3. ASSUME NEW m \in Mechanisms
      PROVE  Fits(r, new, series, "auth_failures_total", m)
  <2>1. ~Counted(r, "auth_failures_total", m)
    BY CountedPending
  <2>2. Counted(new, "auth_failures_total", m) <=> by \in AuthErrors /\ mechanism(by) = m
    BY CountedAnswered
  <2>3. <<"auth_failures_total", m>> \in series <=> by \in AuthErrors /\ mechanism(by) = m
    BY DEF Explained
  <2>4. QED
    BY <2>1, <2>2, <2>3 DEF Fits
<1>4. LookupFits(r, new, series)
  BY CountedPending, CountedAnswered DEF LookupFits, Explained
<1>5. \A c \in Classes : /\ Fits(r, new, series, "requests_total", c)
                        /\ Fits(r, new, series, "upstream_requests_total", c)
  BY CountedPending, CountedAnswered DEF Fits, Explained
<1>6. QED
  BY <1>1, <1>2, <1>3, <1>4, <1>5 DEF AllFit

\* An answer that the upstream did not give.
LEMMA AnswerStep ==
  ASSUME ExchangeInv, NEW q \in Requests, InFlight(q), req[q].at # "storing",
         NEW status \in Nat, NEW by \in Sources \ {"upstream"}, Answer(q, status, by),
         NEW series,
         registry' = Count(registry, series) \/ (series = {} /\ registry' = registry),
         Explained(req[q], by, series)
  PROVE  ExchangeInv'
<1> DEFINE new == Answered(status, by)
<1>1. /\ new \in RequestStates /\ Shape(new) /\ new.told = [status |-> status, by |-> by]
      /\ new.told # None /\ new.at = "answered" /\ new.lost = None
  BY AnsweredShape
<1>2. req[q].told = None /\ req[q].lost = None
  BY DEF ExchangeInv, Shape, InFlight, Awaits
<1>3. req' = [req EXCEPT ![q] = new]
  BY DEF Answer, Answered
<1> HIDE DEF new
<1>4. new.told.by = by
  BY <1>1
<1>5. AllFit(req[q], new, series)
  BY <1>1, <1>2, <1>4, FitAnswer, ExchangeAssumption
<1>6. QED
  BY <1>1, <1>3, <1>5, OneStep

\* Nothing recorded, and nothing to record.
LEMMA NothingExplained ==
  ASSUME NEW r, NEW by \in {"body", "router"}, ~Seen(r)
  PROVE  Explained(r, by, {})
BY DEF Explained, Layers, AuthErrors

LEMMA UnseenBefore ==
  ASSUME ExchangeInv, NEW q \in Requests,
         req[q].at \in {"none", "reading", "gate", "auth", "limit", "lookup"}
  PROVE  ~Seen(req[q]) /\ req[q].told = None /\ req[q].lost = None
BY ExchangeAssumption DEF ExchangeInv, Shape, Seen

\* The head of a request arrives.
LEMMA ReceiveStep ==
  ASSUME ExchangeInv, NEW q \in Requests, NEW n \in Nat, NEW declared \in BOOLEAN,
         Receive(q, n, declared)
  PROVE  ExchangeInv'
<1>1. PICK r \in RequestStates : r = req[q]
  BY DEF ExchangeInv
<1>2. /\ ~Seen(r) /\ r.told = None /\ r.lost = None /\ r.at = "none" /\ r.got = 0
      /\ registry' = registry
  BY <1>1, UnseenBefore DEF Receive, ExchangeInv, Shape
<1>3. CASE declared /\ n > MaxBody
  <2> DEFINE told == [status |-> 413, by |-> "body"]
             new == [r EXCEPT !.at = "answered", !.len = n, !.told = told]
  <2>1. told \in [status : Nat, by : Sources] /\ told # None /\ told.by = "body"
    BY ExchangeAssumption DEF Sources
  <2>2. req' = [req EXCEPT ![q] = new]
    BY <1>1, <1>3 DEF Receive
  <2> HIDE DEF told
  <2>3. /\ new \in RequestStates /\ new.at = "answered" /\ new.told = told
        /\ new.lost = None
    BY <1>2, <2>1 DEF RequestStates
  <2> HIDE DEF new
  <2>4. Shape(new)
    BY <2>1, <2>3, ExchangeAssumption DEF Shape
  <2>5. AllFit(req[q], new, {})
    <3>1. Explained(r, "body", {})
      BY <1>2, NothingExplained
    <3>2. QED
      BY <1>1, <1>2, <2>1, <2>3, <3>1, FitAnswer, ExchangeAssumption
  <2>6. QED
    BY <1>2, <2>2, <2>3, <2>4, <2>5, OneStep
<1>4. CASE ~(declared /\ n > MaxBody)
  <2> DEFINE new == [r EXCEPT !.at = "reading", !.len = n]
  <2>1. req' = [req EXCEPT ![q] = new]
    BY <1>1, <1>4 DEF Receive
  <2>2. /\ new \in RequestStates /\ new.at = "reading" /\ new.told = None
        /\ new.lost = None /\ new.got = 0 /\ new.len = n
    BY <1>2 DEF RequestStates, Awaits
  <2> HIDE DEF new
  <2>3. Shape(new)
    BY <2>2, ExchangeAssumption DEF Shape
  <2>4. AllFit(req[q], new, {})
    BY <1>1, <1>2, <2>2, FitPending, ExchangeAssumption DEF Seen
  <2>5. QED
    BY <1>2, <2>1, <2>2, <2>3, <2>4, OneStep
<1>5. QED
  BY <1>3, <1>4

\* The body is read and handed on.
LEMMA MatchStep ==
  ASSUME ExchangeInv, NEW q \in Requests, req[q].at = "reading", NEW bytes \in Nat,
         Match(q, bytes), registry' = registry
  PROVE  ExchangeInv'
<1>1. PICK r \in RequestStates : r = req[q]
  BY DEF ExchangeInv
<1>2. ~Seen(r) /\ r.told = None /\ r.lost = None /\ r.at = "reading"
  BY <1>1, UnseenBefore
<1>3. CASE Answer(q, 404, "router")
  <2>1. Explained(req[q], "router", {})
    BY <1>1, <1>2, NothingExplained
  <2>2. "router" \in Sources \ {"upstream"} /\ 404 \in Nat /\ InFlight(q)
    BY <1>1, <1>2 DEF Sources, InFlight, Awaits
  <2>3. QED
    BY <1>1, <1>2, <1>3, <2>1, <2>2, AnswerStep
<1>4. CASE req' = [req EXCEPT ![q] = [@ EXCEPT !.at = "gate", !.got = bytes, !.len = 0]]
  <2> DEFINE new == [r EXCEPT !.at = "gate", !.got = bytes, !.len = 0]
  <2>1. req' = [req EXCEPT ![q] = new]
    BY <1>1, <1>4
  <2>2. new \in RequestStates /\ new.at = "gate" /\ new.told = None /\ new.lost = None
    BY <1>2 DEF RequestStates, Awaits
  <2> HIDE DEF new
  <2>3. Shape(new)
    BY <2>2, ExchangeAssumption DEF Shape
  <2>4. AllFit(req[q], new, {})
    BY <1>1, <1>2, <2>2, FitPending, ExchangeAssumption DEF Seen
  <2>5. QED
    BY <2>1, <2>2, <2>3, <2>4, OneStep
<1>5. QED
  BY <1>3, <1>4 DEF Match

LEMMA ReadByteStep ==
  ASSUME ExchangeInv, NEW q \in Requests, ReadByte(q)
  PROVE  ExchangeInv'
<1>1. PICK r \in RequestStates : r = req[q]
  BY DEF ExchangeInv
<1>2. /\ ~Seen(r) /\ r.told = None /\ r.lost = None /\ r.at = "reading" /\ r.got < r.len
      /\ r.got <= MaxBody /\ r.got \in Nat /\ r.len \in Nat /\ registry' = registry
  BY <1>1, UnseenBefore DEF ReadByte, ExchangeInv, Shape, RequestStates
<1>3. CASE r.got = MaxBody
  <2> DEFINE told == [status |-> 413, by |-> "body"]
             new == [Unsent EXCEPT !.at = "answered", !.len = r.len, !.told = told]
  <2>1. told \in [status : Nat, by : Sources] /\ told # None /\ told.by = "body"
    BY ExchangeAssumption DEF Sources
  <2>2. req' = [req EXCEPT ![q] = new]
    BY <1>1, <1>3 DEF ReadByte, ExchangeInv
  <2> HIDE DEF told
  <2>3. /\ new \in RequestStates /\ new.at = "answered" /\ new.told = told
        /\ new.lost = None
    BY <1>2, <2>1, UnsentShape DEF RequestStates
  <2> HIDE DEF new
  <2>4. Shape(new)
    BY <2>1, <2>3, ExchangeAssumption DEF Shape
  <2>5. AllFit(req[q], new, {})
    <3>1. Explained(r, "body", {})
      BY <1>2, NothingExplained
    <3>2. QED
      BY <1>1, <1>2, <2>1, <2>3, <3>1, FitAnswer, ExchangeAssumption
  <2>6. QED
    BY <1>2, <2>2, <2>3, <2>4, <2>5, OneStep
<1>4. CASE r.got # MaxBody
  <2> DEFINE new == [r EXCEPT !.got = r.got + 1]
  <2>0. new = [req[q] EXCEPT !.got = req[q].got + 1]
    BY <1>1
  <2>1. req' = [req EXCEPT ![q] = new]
    <3> HIDE DEF new
    <3> QED
      BY <1>1, <1>4, <2>0 DEF ReadByte
  <2>2. /\ new \in RequestStates /\ new.at = "reading" /\ new.told = None /\ new.lost = None
        /\ new.got = r.got + 1 /\ new.len = r.len
    BY <1>2 DEF RequestStates
  <2> HIDE DEF new
  <2>3. Shape(new)
    BY <1>2, <1>4, <2>2, ExchangeAssumption DEF Shape
  <2>4. AllFit(req[q], new, {})
    BY <1>1, <1>2, <2>2, FitPending, ExchangeAssumption DEF Seen
  <2>5. QED
    BY <1>2, <2>1, <2>2, <2>3, <2>4, OneStep
<1>5. QED
  BY <1>3, <1>4

\* From one await to the next, before the upstream is asked.
LEMMA GoOnStep ==
  ASSUME ExchangeInv, NEW q \in Requests, req[q].at \in {"gate", "auth", "limit"},
         NEW stage \in {"auth", "limit", "lookup"}, GoOn(q, stage), registry' = registry
  PROVE  ExchangeInv'
<1>1. PICK r \in RequestStates : r = req[q]
  BY DEF ExchangeInv
<1>2. ~Seen(r) /\ r.told = None /\ r.lost = None
  BY <1>1, UnseenBefore
<1> DEFINE new == [r EXCEPT !.at = stage]
<1>3. req' = [req EXCEPT ![q] = new]
  BY <1>1 DEF GoOn, ExchangeInv
<1>4. new \in RequestStates /\ new.at = stage /\ new.told = None /\ new.lost = None
  BY <1>2 DEF RequestStates, Awaits
<1> HIDE DEF new
<1>5. Shape(new)
  BY <1>4, ExchangeAssumption DEF Shape
<1>6. AllFit(req[q], new, {})
  BY <1>1, <1>2, <1>4, FitPending, ExchangeAssumption DEF Seen
<1>7. QED
  BY <1>3, <1>4, <1>5, <1>6, OneStep

\* The gate, authentication, the limiter and the cache answer themselves.
LEMMA RefusalStep ==
  ASSUME ExchangeInv, NEW q \in Requests,
         \/ GateRefuses(q)
         \/ \E e \in Refusals : AuthRefuses(q, e)
         \/ \E layer \in Layers : LimitDenies(q, layer)
         \/ CacheHit(q)
  PROVE  ExchangeInv'
<1>1. ASSUME NEW status \in Nat, NEW by \in Sources \ {"upstream"}, Answer(q, status, by),
             req[q].at \in {"gate", "auth", "limit", "lookup"}, NEW series,
             registry' = Count(registry, series), Explained(req[q], by, series)
      PROVE  ExchangeInv'
  BY <1>1, AnswerStep DEF InFlight, Awaits
<1>2. CASE GateRefuses(q)
  <2> DEFINE series == {<<"concurrency_rejected_total", "limit">>}
  <2>1. ~Seen(req[q])
    BY <1>2, UnseenBefore DEF GateRefuses
  <2>2. Explained(req[q], "gate", series)
    BY <2>1 DEF Explained, Layers, AuthErrors
  <2>3. registry' = Count(registry, series) /\ Answer(q, 503, "gate")
    BY <1>2 DEF GateRefuses, record_concurrency_rejected
  <2>4. "gate" \in Sources \ {"upstream"} /\ 503 \in Nat /\ req[q].at = "gate"
    BY <1>2 DEF Sources, GateRefuses
  <2> HIDE DEF series
  <2>5. QED
    BY <1>1, <2>2, <2>3, <2>4
<1>3. ASSUME NEW e \in Refusals, AuthRefuses(q, e)
      PROVE  ExchangeInv'
  <2> DEFINE series == {<<"auth_failures_total", mechanism(e)>>}
  <2>1. ~Seen(req[q]) /\ req[q].at = "auth"
    BY <1>3, UnseenBefore DEF AuthRefuses
  <2>2. e \in AuthErrors
    BY ExchangeAssumption
  <2>3. e \notin Layers \cup {"gate", "cache", "pool", "send", "upstream"}
    BY <2>2 DEF AuthErrors, Layers
  <2>4. Explained(req[q], e, series)
    BY <2>1, <2>2, <2>3 DEF Explained
  <2>5. registry' = Count(registry, series) /\ Answer(q, status_code(e), e)
    BY <1>3 DEF AuthRefuses, record_auth_failure
  <2>6. e \in Sources \ {"upstream"} /\ status_code(e) \in Nat
    BY <2>2, <2>3 DEF Sources, status_code
  <2> HIDE DEF series
  <2>7. QED
    BY <1>1, <2>1, <2>4, <2>5, <2>6
<1>4. ASSUME NEW layer \in Layers, LimitDenies(q, layer)
      PROVE  ExchangeInv'
  <2> DEFINE series == {<<"rate_limit_denied_total", layer>>}
  <2>1. ~Seen(req[q]) /\ req[q].at = "limit"
    BY <1>4, UnseenBefore DEF LimitDenies
  <2>2. layer \notin AuthErrors \cup {"gate", "cache", "pool", "send", "upstream"}
    BY DEF AuthErrors, Layers
  <2>3. Explained(req[q], layer, series)
    BY <2>1, <2>2 DEF Explained
  <2>4. registry' = Count(registry, series) /\ Answer(q, 429, layer)
    BY <1>4 DEF LimitDenies, record_rate_limit
  <2>5. layer \in Sources \ {"upstream"} /\ 429 \in Nat
    BY <2>2 DEF Sources
  <2> HIDE DEF series
  <2>6. QED
    BY <1>1, <2>1, <2>3, <2>4, <2>5
<1>5. CASE CacheHit(q)
  <2> DEFINE series == {<<"cache_lookups_total", "hit">>}
  <2>1. ~Seen(req[q]) /\ req[q].at = "lookup"
    BY <1>5, UnseenBefore DEF CacheHit
  <2>2. Explained(req[q], "cache", series)
    BY <2>1 DEF Explained, Layers, AuthErrors
  <2>3. registry' = Count(registry, series)
    BY <1>5 DEF CacheHit, record_cache_lookup
  <2>4. PICK reply \in Replies : Answer(q, reply.status, "cache")
    BY <1>5 DEF CacheHit
  <2>5. "cache" \in Sources \ {"upstream"} /\ reply.status \in Nat
    BY ExchangeAssumption DEF Sources
  <2> HIDE DEF series
  <2>6. QED
    BY <1>1, <2>1, <2>2, <2>3, <2>4, <2>5
<1>6. QED
  BY <1>2, <1>3, <1>4, <1>5

\* A lookup that did not hit.
LEMMA CacheMissStep ==
  ASSUME ExchangeInv, NEW q \in Requests, NEW result \in Lookups \ {"hit"},
         CacheMiss(q, result)
  PROVE  ExchangeInv'
<1> DEFINE series == {<<"cache_lookups_total", result>>}
<1>1. PICK r \in RequestStates : r = req[q]
  BY DEF ExchangeInv
<1>2. ~Seen(r) /\ r.told = None /\ r.lost = None /\ r.at = "lookup"
  BY <1>1, UnseenBefore DEF CacheMiss
<1>3. registry' = Count(registry, series) /\ result \in {"miss", "bypass"}
  BY DEF CacheMiss, record_cache_lookup, Lookups
<1>4. CASE Answer(q, 502, "pool")
  <2>1. Explained(req[q], "pool", series)
    BY <1>1, <1>2, <1>3 DEF Explained, Layers, AuthErrors
  <2>2. "pool" \in Sources \ {"upstream"} /\ 502 \in Nat /\ InFlight(q) /\ req[q].at # "storing"
    BY <1>1, <1>2 DEF Sources, InFlight, Awaits
  <2> HIDE DEF series
  <2>3. QED
    BY <1>3, <1>4, <2>1, <2>2, AnswerStep
<1>5. CASE GoOn(q, "sending")
  <2> DEFINE new == [r EXCEPT !.at = "sending"]
  <2>1. req' = [req EXCEPT ![q] = new]
    BY <1>1, <1>5 DEF GoOn, ExchangeInv
  <2>2. new \in RequestStates /\ new.at = "sending" /\ new.told = None /\ new.lost = None
    BY <1>2 DEF RequestStates, Awaits
  <2> HIDE DEF new
  <2>3. Shape(new)
    BY <2>2, ExchangeAssumption DEF Shape
  <2>4. Seen(new) /\ "storing" \notin {r.at, r.lost} /\ "storing" \notin {new.at, new.lost}
    BY <1>2, <2>2, ExchangeAssumption DEF Seen
  <2>5. LookupFits(r, new, series)
    BY <1>2, <1>3, <2>2, <2>4, CountedPending DEF LookupFits
  <2>6. AllFit(r, new, series)
    BY <1>2, <1>3, <2>2, <2>4, <2>5, CountedPending DEF AllFit, Fits
  <2> HIDE DEF series
  <2>7. QED
    BY <1>1, <1>3, <2>1, <2>2, <2>3, <2>6, OneStep
<1>6. QED
  BY <1>4, <1>5 DEF CacheMiss

LEMMA SendFailsStep ==
  ASSUME ExchangeInv, NEW q \in Requests, SendFails(q)
  PROVE  ExchangeInv'
<1>1. PICK status \in {502, 504} : Answer(q, status, "send")
  BY DEF SendFails
<1>2. Seen(req[q]) /\ req[q].at = "sending" /\ InFlight(q) /\ registry' = registry
  BY DEF SendFails, Seen, InFlight, Awaits
<1>3. Explained(req[q], "send", {})
  BY <1>2 DEF Explained, Layers, AuthErrors
<1>4. "send" \in Sources \ {"upstream"} /\ status \in Nat
  BY DEF Sources
<1>5. QED
  BY <1>1, <1>2, <1>3, <1>4, AnswerStep

LEMMA UpstreamAnswersStep ==
  ASSUME ExchangeInv, NEW q \in Requests, NEW reply \in Replies, UpstreamAnswers(q, reply)
  PROVE  ExchangeInv'
<1> DEFINE series == {<<"upstream_requests_total", status_class(reply.status)>>,
                      <<"upstream_duration_seconds", "all">>}
<1>1. PICK r \in RequestStates : r = req[q]
  BY DEF ExchangeInv
<1>2. r.told = None /\ r.lost = None /\ r.at = "sending"
  BY <1>1 DEF UpstreamAnswers, ExchangeInv, Shape
<1> DEFINE new == [r EXCEPT !.at = "storing", !.upstream = reply]
<1>3. req' = [req EXCEPT ![q] = new] /\ registry' = Count(registry, series)
  BY <1>1 DEF UpstreamAnswers, record_upstream
<1>4. /\ new \in RequestStates /\ new.at = "storing" /\ new.told = None /\ new.lost = None
      /\ new.upstream = reply
  BY <1>2 DEF RequestStates, Awaits
<1> HIDE DEF new
<1>5. Shape(new)
  BY <1>4, ExchangeAssumption DEF Shape
<1>6. Seen(r) /\ Seen(new) /\ "storing" \notin {r.at, r.lost} /\ "storing" \in {new.at, new.lost}
  BY <1>2, <1>4, ExchangeAssumption DEF Seen
<1>7. \A c : Counted(new, "upstream_requests_total", c) <=>
               <<"upstream_requests_total", c>> \in series
  BY <1>4, <1>6, CountedPending
<1>8. LookupFits(r, new, series)
  BY <1>2, <1>4, <1>6, CountedPending DEF LookupFits
<1>9. AllFit(r, new, series)
  BY <1>2, <1>4, <1>6, <1>7, <1>8, CountedPending DEF AllFit, Fits
<1> HIDE DEF series
<1>10. QED
  BY <1>1, <1>3, <1>4, <1>5, <1>9, OneStep

LEMMA StoredStep ==
  ASSUME ExchangeInv, NEW q \in Requests, Stored(q)
  PROVE  ExchangeInv'
<1>1. PICK r \in RequestStates : r = req[q]
  BY DEF ExchangeInv
<1>2. r.told = None /\ r.lost = None /\ r.at = "storing" /\ r.upstream \in Replies
  BY <1>1 DEF Stored, ExchangeInv, Shape
<1>3. PICK status \in Nat : status = r.upstream.status
  BY <1>2, ExchangeAssumption
<1> DEFINE series ==
      {<<"requests_total", status_class(status)>>, <<"request_duration_seconds", "all">>}
        \cup {s \in {<<"request_size_bytes", "all">>} : r.got > 0}
        \cup {s \in {<<"response_size_bytes", "all">>} : r.upstream.bytes > 0}
      new == Answered(status, "upstream")
<1>4. req' = [req EXCEPT ![q] = new] /\ registry' = Count(registry, series)
  BY <1>1, <1>3 DEF Stored, record_request, Answer, Answered
<1>5. /\ new \in RequestStates /\ Shape(new) /\ new.told # None /\ new.at = "answered"
      /\ new.lost = None /\ new.told = [status |-> status, by |-> "upstream"]
  <2>1. "upstream" \in Sources
    BY DEF Sources
  <2>2. QED
    BY <2>1, AnsweredShape
<1> HIDE DEF new
<1>6. new.told.by = "upstream" /\ new.told.status = status
  BY <1>5
<1>7. Seen(r) /\ "storing" \in {r.at, r.lost}
  BY <1>2 DEF Seen
<1>8. PICK b : b = "upstream"
  OBVIOUS
<1>9. /\ \A l : ~Counted(new, "concurrency_rejected_total", l)
      /\ \A l \in Layers : ~Counted(new, "rate_limit_denied_total", l)
      /\ \A l : ~Counted(new, "auth_failures_total", l)
      /\ ~Counted(new, "cache_lookups_total", "hit")
      /\ Counted(new, "cache_lookups_total", "miss")
      /\ \A l : Counted(new, "requests_total", l) <=> status_class(status) = l
      /\ \A l : Counted(new, "upstream_requests_total", l) <=> status_class(status) = l
  <2>1. b \notin Layers \cup AuthErrors /\ b # "gate" /\ b # "cache"
    BY <1>8 DEF Layers, AuthErrors
  <2>2. QED
    BY <1>5, <1>6, <1>8, <2>1, CountedAnswered
<1>10. /\ \A l : <<"concurrency_rejected_total", l>> \notin series
       /\ \A l : <<"rate_limit_denied_total", l>> \notin series
       /\ \A l : <<"auth_failures_total", l>> \notin series
       /\ \A l : <<"cache_lookups_total", l>> \notin series
       /\ \A l : <<"requests_total", l>> \in series <=> status_class(status) = l
       /\ \A l : <<"upstream_requests_total", l>> \notin series
  OBVIOUS
<1> HIDE DEF series
<1>11. /\ \A l : ~Counted(r, "concurrency_rejected_total", l)
       /\ \A l : ~Counted(r, "rate_limit_denied_total", l)
       /\ \A l : ~Counted(r, "auth_failures_total", l)
       /\ ~Counted(r, "cache_lookups_total", "hit")
       /\ Counted(r, "cache_lookups_total", "miss")
       /\ \A l : ~Counted(r, "requests_total", l)
       /\ \A l : Counted(r, "upstream_requests_total", l) <=> status_class(status) = l
  BY <1>2, <1>3, <1>7, CountedPending
<1>12. AllFit(r, new, series)
  BY <1>9, <1>10, <1>11 DEF AllFit, Fits, LookupFits
<1>13. QED
  BY <1>1, <1>4, <1>5, <1>12, OneStep

\* Every step of a handler keeps the requests and the series in agreement.
LEMMA HandleStep ==
  ASSUME ExchangeInv, NEW q \in Requests, Handle(q)
  PROVE  ExchangeInv'
<1>1. CASE BodyEnds(q) \/ BodyBreaks(q)
  <2>1. req[q].got \in Nat /\ 0 \in Nat
    BY DEF ExchangeInv, RequestStates
  <2>2. QED
    BY <1>1, <2>1, MatchStep DEF BodyEnds, BodyBreaks
<1>2. CASE Pass(q)
  BY <1>2, GoOnStep DEF Pass
<1>3. QED
  BY <1>1, <1>2, ReadByteStep, RefusalStep, CacheMissStep, SendFailsStep,
     UpstreamAnswersStep, StoredStep DEF Handle

LEMMA ExchangeStep ==
  ASSUME ExchangeInv, [Next]_vars
  PROVE  ExchangeInv'
<1> USE DEF connections, exchanges, startupVars
<1>1. ASSUME UNCHANGED <<req, registry>>
      PROVE  ExchangeInv'
  <2>1. Tallied'
    BY <1>1, FitSame, TallySame DEF ExchangeInv
  <2>2. QED
    BY <1>1, <2>1 DEF ExchangeInv, Shape
<1>2. CASE Startup
  <2>1. Perish \/ UNCHANGED <<req, registry>>
    BY <1>2 DEF Startup
  <2>2. QED
    BY <1>1, <2>1, PerishExchange
<1>3. CASE AcceptError \/ BackoffOver \/ StopAccepting \/ DrainPoll
  BY <1>1, <1>3 DEF AcceptError, BackoffOver, StopAccepting, DrainPoll
<1>4. CASE Exit
  BY <1>4, PerishExchange DEF Exit
<1>5. ASSUME NEW c \in Connections,
             Accept(c) \/ Spawn(c) \/ HandshakeOk(c) \/ ConnectionClose(c)
      PROVE  ExchangeInv'
  BY <1>1, <1>5 DEF Accept, Spawn, HandshakeOk, ConnectionClose
<1>6. ASSUME NEW c \in Connections, ServeEnds(c)
      PROVE  ExchangeInv'
  <2>1. ASSUME NEW q \in Requests
        PROVE  req'[q] \in RequestStates /\ Shape(req'[q]) /\ AllFit(req[q], req'[q], {})
    <3>1. req[q] \in RequestStates /\ Shape(req[q])
      BY DEF ExchangeInv
    <3>2. \/ req'[q] = req[q]
          \/ req[q].at \in Awaits /\ req'[q] = Dropped(req[q], "dropped")
      BY <1>6 DEF ServeEnds, InFlight
    <3>3. QED
      BY <3>1, <3>2, FitSame, DroppedFits
  <2>2. registry' = registry /\ req' = [q \in Requests |-> req'[q]]
    BY <1>6 DEF ServeEnds
  <2>3. Tallied'
    BY <2>1, <2>2, TallySame DEF ExchangeInv
  <2>4. req' \in [Requests -> RequestStates]
    BY <2>1, <2>2
  <2>5. QED
    BY <2>1, <2>2, <2>3, <2>4 DEF ExchangeInv, Shape
<1>7. ASSUME NEW c \in Connections, NEW q \in Requests, StartRequest(c, q)
      PROVE  ExchangeInv'
  <2>1. PICK n \in 0 .. MaxBody + 1, declared \in BOOLEAN : Receive(q, n, declared)
    BY <1>7 DEF StartRequest
  <2>2. n \in Nat
    BY ExchangeAssumption
  <2>3. QED
    BY <2>1, <2>2, ReceiveStep
<1>8. ASSUME NEW q \in Requests, ServeRequest(q)
      PROVE  ExchangeInv'
  BY <1>8, HandleStep DEF ServeRequest
<1>9. ASSUME NEW q \in Requests, DropStream(q)
      PROVE  ExchangeInv'
  <2>1. PICK r \in RequestStates : r = req[q]
    BY DEF ExchangeInv
  <2>2. Shape(r) /\ r.at \in Awaits
    BY <1>9, <2>1 DEF ExchangeInv, DropStream, InFlight
  <2>3. /\ Dropped(r, "dropped") \in RequestStates /\ Shape(Dropped(r, "dropped"))
        /\ AllFit(r, Dropped(r, "dropped"), {})
    BY <2>2, DroppedFits
  <2>4. req' = [req EXCEPT ![q] = Dropped(r, "dropped")] /\ registry' = registry
    BY <1>9, <2>1 DEF DropStream
  <2>5. QED
    BY <2>1, <2>3, <2>4, OneStep
<1>10. CASE UNCHANGED vars
  BY <1>1, <1>10 DEF vars
<1>11. QED
  BY <1>2, <1>3, <1>4, <1>5, <1>6, <1>7, <1>8, <1>9, <1>10 DEF Next

LEMMA ShutdownInit == Init => ServingInv /\ ExchangeInv
<1> SUFFICES ASSUME Init PROVE ServingInv /\ ExchangeInv
  OBVIOUS
<1>1. ServingInv
  <2>1. Served = {} /\ Served \cup Closing = {}
    BY DEF Init, Served, Closing, Open
  <2>2. connOf \in [Requests -> SUBSET Connections] /\ \A q \in Requests : connOf[q] = {}
    BY DEF Init
  <2>3. counter = 0 /\ gauge = 0 /\ conn \in [Connections -> ConnStates]
    BY DEF Init, ConnStates
  <2>4. QED
    BY <2>1, <2>2, <2>3, FS_EmptySet DEF ServingInv, CountersMatch
<1>2. ExchangeInv
  <2>1. req = [q \in Requests |-> Unsent] /\ registry = NewRegistry
    BY DEF Init, ExchangeInit
  <2>2. /\ \A f, l : Value(f, l) = 0
        /\ \A s \in DOMAIN registry : registry[s] \in Nat
    BY <2>1 DEF NewRegistry, Value, ValueOf
  <2>3. ~Seen(Unsent) /\ "storing" \notin {Unsent.at, Unsent.lost} /\ Unsent.told = None
    BY UnsentShape, ExchangeAssumption DEF Seen
  <2>4. ASSUME NEW f, NEW l, ~Counted(Unsent, f, l)
        PROVE  Cardinality(CountedIn(f, l)) = 0 /\ Tally(f, l)
    <3>1. CountedIn(f, l) = {}
      BY <2>1, <2>4 DEF CountedIn
    <3>2. QED
      BY <2>2, <3>1, FS_EmptySet DEF Tally
  <2>5. Tallied
    <3>1. NoHits = 0
      BY <2>2 DEF NoHits
    <3>2. QED
      BY <2>3, <2>4, <3>1, CountedPending DEF Tallied
  <2>6. QED
    BY <2>1, <2>2, <2>5, UnsentShape DEF ExchangeInv
<1>3. QED
  BY <1>1, <1>2

-----------------------------------------------------------------------------
(* Theorems *)

\* Connections and requests keep their invariants in every state that clients,
\* signals and failures can bring the process into.
THEOREM ShutdownInvariant == Spec => [](ServingInv /\ ExchangeInv)
<1>1. ServingInv /\ ExchangeInv /\ [Next]_vars => (ServingInv /\ ExchangeInv)'
  BY ServingStep, ExchangeStep
<1>2. QED
  BY <1>1, ShutdownInit, PTL DEF Spec

\* While the process lives, the drain counter is the number of tasks inside
\* serve_connection, and the gauge that of connections not yet reported closed.
THEOREM CountersAreExact == Spec => []CountersMatch
BY ShutdownInvariant, PTL DEF ServingInv

\* shutdown() reports a completed drain only when no client waits for an answer
\* (ShutdownCoordinator::shutdown and the guards of the connection tasks).
THEOREM DrainIsReal == Spec => DrainedIsTrue
<1> DEFINE Drained == coord = "draining" /\ coord' = "drained"
                        => \A q \in Requests : ~Awaited(q)
<1>1. ServingInv /\ [Next]_vars => [Drained]_vars
  <2> SUFFICES ASSUME ServingInv, Next, coord = "draining", coord' = "drained"
               PROVE  \A q \in Requests : ~Awaited(q)
    OBVIOUS
  <2>1. up /\ counter = 0
    <3>1. DrainPoll
      BY DEF Next, Startup, Load, BuildAuth, LimitersBuilt, BuildCache, SpawnTasks,
         BuildLimiter, Bind, RegisterHandlers, Signal, Boot, BootFails, KilledEarly,
         AcceptorFails, Fail, AcceptError, BackoffOver, StopAccepting, Exit, Accept, Spawn,
         HandshakeOk, ServeEnds, ConnectionClose, StartRequest, ServeRequest, DropStream,
         startupVars
    <3>2. QED
      BY <3>1 DEF DrainPoll
  <2>2. Served = {}
    <3>1. Cardinality(Served) = 0
      BY <2>1 DEF ServingInv, CountersMatch
    <3>2. QED
      BY <3>1, ServedFinite, FS_EmptySet
  <2>3. \A q \in Requests : connOf[q] = {}
    BY <2>2 DEF ServingInv, Served
  <2>4. QED
    BY <2>3 DEF Awaited
<1>2. QED
  BY <1>1, ShutdownInvariant, PTL DEF Spec, DrainedIsTrue

\* The requests with an answer from one of some sources.
LEMMA ToldBy ==
  ASSUME NEW sources
  PROVE  {q \in Requests : req[q].told \in Answers(sources)}
           = {q \in Requests : By(req[q], sources)}
BY DEF Answers, By

\* An answered request is not at an await and was not lost at one.
LEMMA AnsweredUnseen ==
  ASSUME ExchangeInv, NEW q \in Requests, req[q].told # None
  PROVE  ~Seen(req[q]) /\ "storing" \notin {req[q].at, req[q].lost}
BY ExchangeAssumption DEF ExchangeInv, Shape, Seen

LEMMA DisjointSum ==
  ASSUME NEW A \in SUBSET Requests, NEW B \in SUBSET Requests, A \cap B = {}
  PROVE  Cardinality(A \cup B) = Cardinality(A) + Cardinality(B)
<1>1. IsFiniteSet(A) /\ IsFiniteSet(B)
  BY ExchangeAssumption, FS_Subset
<1>2. Cardinality(A) \in Nat /\ Cardinality(B) \in Nat /\ Cardinality(A \cap B) = 0
  BY <1>1, FS_CardinalityType, FS_EmptySet
<1>3. Cardinality(A \cup B) = Cardinality(A) + Cardinality(B) - Cardinality(A \cap B)
  BY <1>1, FS_Union
<1>4. PICK a, b \in Nat : a = Cardinality(A) /\ b = Cardinality(B)
  BY <1>2
<1>5. QED
  BY <1>2, <1>3, <1>4

LEMMA TalliesAccount ==
  ASSUME ExchangeInv
  PROVE  AnswersAccounted
<1>1. ASSUME NEW f, NEW l, NEW sources,
             \A r : Counted(r, f, l) <=> By(r, sources)
      PROVE  Cardinality(CountedIn(f, l)) = Told(Answers(sources))
  <2>1. CountedIn(f, l) = {q \in Requests : By(req[q], sources)}
    BY <1>1 DEF CountedIn
  <2>2. QED
    BY <2>1, ToldBy DEF Told
<1>2. Rejections = Told(Answers({"gate"}))
  <2>1. \A r : Counted(r, "concurrency_rejected_total", "limit") <=> By(r, {"gate"})
    BY DEF Counted
  <2>2. QED
    BY <1>1, <2>1 DEF ExchangeInv, Tallied, Tally, Rejections
<1>3. ASSUME NEW layer \in Layers
      PROVE  Value("rate_limit_denied_total", layer) = Told(Answers({layer}))
  <2>1. \A r : Counted(r, "rate_limit_denied_total", layer) <=> By(r, {layer})
    BY DEF Counted
  <2>2. QED
    BY <1>1, <2>1 DEF ExchangeInv, Tallied, Tally
<1>4. ASSUME NEW m \in Mechanisms
      PROVE  Value("auth_failures_total", m)
               = Told(Answers({e \in AuthErrors : mechanism(e) = m}))
  <2>1. PICK sources : sources = {e \in AuthErrors : mechanism(e) = m}
    OBVIOUS
  <2>2. \A r : Counted(r, "auth_failures_total", m) <=> By(r, sources)
    BY <2>1 DEF Counted
  <2>3. Value("auth_failures_total", m) = Told(Answers(sources))
    BY <1>1, <2>2 DEF ExchangeInv, Tallied, Tally
  <2>4. QED
    BY <2>1, <2>3
<1>5. Hits = Told(Answers({"cache"}))
  <2>1. \A r : Counted(r, "cache_lookups_total", "hit") <=> By(r, {"cache"})
    BY DEF Counted
  <2>2. QED
    BY <1>1, <2>1 DEF ExchangeInv, Tallied, Tally, Hits
<1>6. Value("cache_lookups_total", "miss") + Value("cache_lookups_total", "bypass")
        = Told(Answers({"pool", "send", "upstream"}))
            + Cardinality(Reached("sending") \cup Reached("storing"))
  <2> DEFINE A == {q \in Requests : By(req[q], {"pool", "send", "upstream"})}
             B == {q \in Requests : Seen(req[q])}
  <2>1. CountedIn("cache_lookups_total", "miss") = A \cup B
    BY DEF CountedIn, Counted
  <2>2. A \cap B = {}
    BY AnsweredUnseen DEF By
  <2>3. Reached("sending") \cup Reached("storing") = B
    BY DEF Reached, Seen
  <2>4. Told(Answers({"pool", "send", "upstream"})) = Cardinality(A)
    BY ToldBy DEF Told
  <2>5. A \in SUBSET Requests /\ B \in SUBSET Requests
    OBVIOUS
  <2> HIDE DEF A, B
  <2>6. Cardinality(A \cup B) = Cardinality(A) + Cardinality(B)
    BY <2>2, <2>5, DisjointSum
  <2>7. QED
    BY <2>1, <2>3, <2>4, <2>6 DEF ExchangeInv, Tallied, NoHits
<1>7. ASSUME NEW c \in Classes
      PROVE  /\ Value("upstream_requests_total", c)
                  = Told({a \in Answers({"upstream"}) : status_class(a.status) = c})
                      + Cardinality({q \in Reached("storing") :
                                       status_class(req[q].upstream.status) = c})
             /\ Value("requests_total", c)
                  <= Told({a \in Answers(Sources) : status_class(a.status) = c})
  <2> DEFINE A == CountedIn("requests_total", c)
             B == {q \in Reached("storing") : status_class(req[q].upstream.status) = c}
             answers == {a \in Answers({"upstream"}) : status_class(a.status) = c}
             all == {a \in Answers(Sources) : status_class(a.status) = c}
             T == {q \in Requests : req[q].told \in all}
  <2>1. A = {q \in Requests : By(req[q], {"upstream"}) /\ status_class(req[q].told.status) = c}
    BY DEF CountedIn, Counted
  <2>2. A = {q \in Requests : req[q].told \in answers}
    BY <2>1, ToldBy
  <2>3. Value("requests_total", c) = Cardinality(A)
    BY DEF ExchangeInv, Tallied, Tally
  <2>4. CountedIn("upstream_requests_total", c) = A \cup B
    BY <2>1 DEF CountedIn, Counted, Reached
  <2>5. A \cap B = {}
    BY <2>1, AnsweredUnseen DEF By, Reached
  <2>6. A \in SUBSET Requests /\ B \in SUBSET Requests
    BY DEF CountedIn, Reached
  <2>7. Value("upstream_requests_total", c) = Cardinality(CountedIn("upstream_requests_total", c))
    BY DEF ExchangeInv, Tallied, Tally
  <2>8. Told(answers) = Cardinality({q \in Requests : req[q].told \in answers})
    BY DEF Told
  <2>9. A \subseteq T /\ T \in SUBSET Requests /\ Told(all) = Cardinality(T)
    BY <2>2 DEF Told, Answers, Sources
  <2> HIDE DEF A, B, answers, all, T
  <2>10. Cardinality(A \cup B) = Cardinality(A) + Cardinality(B)
    BY <2>5, <2>6, DisjointSum
  <2>11. Value("upstream_requests_total", c) = Told(answers) + Cardinality(B)
    BY <2>2, <2>4, <2>7, <2>8, <2>10
  <2>12. Cardinality(A) <= Cardinality(T)
    BY <2>9, ExchangeAssumption, FS_Subset
  <2>13. QED
    BY <2>3, <2>9, <2>11, <2>12 DEF answers, B, all
<1>8. QED
  BY <1>2, <1>3, <1>4, <1>5, <1>6, <1>7 DEF AnswersAccounted

\* The metrics say what clients were told: the counters of refusals, lookups and
\* upstream cycles have the number of requests with that outcome, and requests_total
\* none twice, whatever is dropped, cut off or answered meanwhile.
THEOREM MetricsTellTheTruth == Spec => []AnswersAccounted
BY ShutdownInvariant, TalliesAccount, PTL

\* What BodiesWholeOrEmpty says of one request.
BodyKept(old, new) ==
  LET len == IF old.at = "none" THEN new.len ELSE old.len
  IN  /\ old.told = None /\ new.told # None /\ new.told.by = "body" => len > MaxBody
      /\ old.at = "reading" /\ new.at = "gate" =>
           \/ new.got = len /\ len <= MaxBody
           \/ new.got = 0 /\ old.got < len

LEMMA AnswerKeepsBody ==
  ASSUME req \in [Requests -> RequestStates], NEW q \in Requests, NEW status,
         NEW by, by # "body", Answer(q, status, by)
  PROVE  BodyKept(req[q], req'[q])
<1>1. req'[q] = [Unsent EXCEPT !.at = "answered", !.told = [status |-> status, by |-> by]]
  BY DEF Answer
<1>2. req'[q].at = "answered" /\ req'[q].told = [status |-> status, by |-> by]
  BY <1>1, UnsentShape DEF RequestStates
<1>3. req'[q].told.by = by
  BY <1>2
<1>4. QED
  BY <1>2, <1>3 DEF BodyKept

LEMMA HandleKeepsBody ==
  ASSUME ExchangeInv, NEW q \in Requests, Handle(q)
  PROVE  BodyKept(req[q], req'[q])
<1>1. PICK r \in RequestStates : r = req[q] /\ Shape(r)
  BY DEF ExchangeInv
<1>2. req \in [Requests -> RequestStates] /\ r.got \in Nat /\ r.len \in Nat /\ MaxBody \in Nat
  BY <1>1, ExchangeAssumption DEF ExchangeInv, RequestStates
<1>3. CASE ReadByte(q)
  <2>1. r.at = "reading" /\ r.got < r.len
    BY <1>1, <1>3 DEF ReadByte
  <2>2. CASE r.got = MaxBody
    <3>1. r.len > MaxBody
      BY <1>2, <2>1, <2>2
    <3>2. req'[q] = [Unsent EXCEPT !.at = "answered", !.len = req[q].len,
                                   !.told = [status |-> 413, by |-> "body"]]
      BY <1>1, <1>2, <1>3, <2>2 DEF ReadByte
    <3>3. req'[q].at = "answered"
      BY <3>2, UnsentShape DEF RequestStates
    <3>4. QED
      BY <1>1, <2>1, <3>1, <3>3 DEF BodyKept
  <2>3. CASE r.got # MaxBody
    <3>1. req'[q] = [req[q] EXCEPT !.got = req[q].got + 1]
      BY <1>1, <1>2, <1>3, <2>3 DEF ReadByte
    <3>2. req'[q].at = r.at /\ req'[q].told = r.told
      BY <1>1, <3>1 DEF RequestStates
    <3>3. QED
      BY <1>1, <2>1, <3>2 DEF BodyKept
  <2>4. QED
    BY <2>2, <2>3
<1>4. ASSUME NEW bytes, r.at = "reading", Match(q, bytes),
             \/ bytes = r.got /\ r.got = r.len
             \/ bytes = 0 /\ r.got < r.len
      PROVE  BodyKept(req[q], req'[q])
  <2>1. CASE Answer(q, 404, "router")
    BY <1>2, <2>1, AnswerKeepsBody
  <2>2. CASE req' = [req EXCEPT ![q] = [@ EXCEPT !.at = "gate", !.got = bytes, !.len = 0]]
    <3>1. req'[q] = [r EXCEPT !.at = "gate", !.got = bytes, !.len = 0]
      BY <1>1, <1>2, <2>2
    <3>2. req'[q].at = "gate" /\ req'[q].got = bytes /\ req'[q].told = r.told
      BY <3>1 DEF RequestStates
    <3>3. r.got <= MaxBody /\ r.told = None
      BY <1>1, <1>4 DEF Shape
    <3>4. QED
      BY <1>1, <1>2, <1>4, <3>2, <3>3 DEF BodyKept
  <2>3. QED
    BY <1>4, <2>1, <2>2 DEF Match
<1>5. CASE BodyEnds(q) \/ BodyBreaks(q)
  BY <1>1, <1>4, <1>5 DEF BodyEnds, BodyBreaks
<1>6. ASSUME NEW stage \in {"auth", "limit", "lookup", "sending"}, GoOn(q, stage)
      PROVE  BodyKept(req[q], req'[q])
  <2>1. req'[q] = [r EXCEPT !.at = stage]
    BY <1>1, <1>2, <1>6 DEF GoOn
  <2>2. req'[q].at = stage /\ req'[q].told = r.told
    BY <2>1 DEF RequestStates
  <2>3. QED
    BY <1>1, <2>2 DEF BodyKept
<1>7. CASE Pass(q)
  BY <1>6, <1>7 DEF Pass
<1>8. ASSUME NEW status, NEW by, by # "body", Answer(q, status, by)
      PROVE  BodyKept(req[q], req'[q])
  BY <1>2, <1>8, AnswerKeepsBody
<1>9. CASE GateRefuses(q) \/ CacheHit(q) \/ SendFails(q) \/ Stored(q)
  BY <1>8, <1>9 DEF GateRefuses, CacheHit, SendFails, Stored
<1>10. ASSUME NEW e \in Refusals, AuthRefuses(q, e)
       PROVE  BodyKept(req[q], req'[q])
  <2>1. e # "body"
    BY ExchangeAssumption DEF AuthErrors
  <2>2. QED
    BY <1>8, <1>10, <2>1 DEF AuthRefuses
<1>11. ASSUME NEW layer \in Layers, LimitDenies(q, layer)
       PROVE  BodyKept(req[q], req'[q])
  BY <1>8, <1>11 DEF LimitDenies, Layers
<1>12. ASSUME NEW result \in Lookups \ {"hit"}, CacheMiss(q, result)
       PROVE  BodyKept(req[q], req'[q])
  BY <1>6, <1>8, <1>12 DEF CacheMiss
<1>13. ASSUME NEW reply \in Replies, UpstreamAnswers(q, reply)
       PROVE  BodyKept(req[q], req'[q])
  <2>1. r.at = "sending" /\ req'[q] = [r EXCEPT !.at = "storing", !.upstream = reply]
    BY <1>1, <1>2, <1>13 DEF UpstreamAnswers
  <2>2. req'[q].told = r.told
    BY <2>1 DEF RequestStates
  <2>3. QED
    BY <1>1, <2>1, <2>2 DEF BodyKept
<1>14. QED
  BY <1>3, <1>5, <1>7, <1>9, <1>10, <1>11, <1>12, <1>13 DEF Handle

LEMMA StepKeepsBody ==
  ASSUME ExchangeInv, [Next]_vars, NEW q \in Requests
  PROVE  BodyKept(req[q], req'[q])
<1> USE DEF connections, exchanges, startupVars
<1>1. PICK r \in RequestStates : r = req[q]
  BY DEF ExchangeInv
<1>2. req \in [Requests -> RequestStates]
  BY DEF ExchangeInv
<1>3. ASSUME req'[q] = req[q] PROVE BodyKept(req[q], req'[q])
  BY <1>3 DEF BodyKept
<1>4. ASSUME NEW s, NEW how \in {"dropped", "cut"}, req'[q] = Dropped(s, how)
      PROVE  BodyKept(req[q], req'[q])
  <2> DEFINE lost == IF s.at \in {"sending", "storing"} THEN s.at ELSE None
  <2>1. req'[q] = [Unsent EXCEPT !.at = how, !.upstream = s.upstream, !.lost = lost]
    BY <1>4 DEF Dropped
  <2> HIDE DEF lost
  <2>2. req'[q].at = how /\ req'[q].told = None
    BY <2>1, UnsentShape DEF RequestStates
  <2>3. QED
    BY <2>2 DEF BodyKept
<1>5. ASSUME Perish
      PROVE  BodyKept(req[q], req'[q])
  <2>1. CASE req'[q] = Unsent
    BY <2>1, UnsentShape DEF BodyKept
  <2>2. QED
    BY <1>4, <1>5, <2>1 DEF Perish
<1>6. CASE Startup
  <2>1. Perish \/ UNCHANGED req
    BY <1>6 DEF Startup
  <2>2. QED
    BY <1>3, <1>5, <2>1
<1>7. CASE Exit
  BY <1>5, <1>7 DEF Exit
<1>8. CASE AcceptError \/ BackoffOver \/ StopAccepting \/ DrainPoll
  BY <1>3, <1>8 DEF AcceptError, BackoffOver, StopAccepting, DrainPoll
<1>9. ASSUME NEW c \in Connections,
             Accept(c) \/ Spawn(c) \/ HandshakeOk(c) \/ ConnectionClose(c)
      PROVE  BodyKept(req[q], req'[q])
  BY <1>3, <1>9 DEF Accept, Spawn, HandshakeOk, ConnectionClose
<1>10. ASSUME NEW c \in Connections, ServeEnds(c)
       PROVE  BodyKept(req[q], req'[q])
  BY <1>3, <1>4, <1>10 DEF ServeEnds
<1>11. ASSUME NEW c \in Connections, NEW p \in Requests, StartRequest(c, p)
       PROVE  BodyKept(req[q], req'[q])
  <2>1. PICK n \in 0 .. MaxBody + 1, declared \in BOOLEAN : Receive(p, n, declared)
    BY <1>11 DEF StartRequest
  <2>2. CASE p # q
    BY <1>2, <1>3, <2>1, <2>2 DEF Receive
  <2>3. CASE p = q /\ declared /\ n > MaxBody
    <3>1. req'[q] = [r EXCEPT !.at = "answered", !.len = n,
                              !.told = [status |-> 413, by |-> "body"]]
      BY <1>1, <1>2, <2>1, <2>3 DEF Receive
    <3>2. req'[q].len = n
      BY <3>1 DEF RequestStates
    <3>3. r.at = "none" /\ req'[q].at # "gate"
      BY <1>1, <2>1, <2>3, <3>1 DEF RequestStates, Receive
    <3>4. QED
      BY <1>1, <2>3, <3>2, <3>3 DEF BodyKept
  <2>4. CASE p = q /\ ~(declared /\ n > MaxBody)
    <3>1. req'[q] = [r EXCEPT !.at = "reading", !.len = n]
      BY <1>1, <1>2, <2>1, <2>4 DEF Receive
    <3>2. req'[q].told = r.told /\ r.at = "none"
      BY <1>1, <2>1, <2>4, <3>1 DEF RequestStates, Receive
    <3>3. QED
      BY <1>1, <3>2 DEF BodyKept
  <2>5. QED
    BY <2>2, <2>3, <2>4
<1>12. ASSUME NEW p \in Requests, ServeRequest(p)
       PROVE  BodyKept(req[q], req'[q])
  <2>1. CASE p = q
    BY <1>12, <2>1, HandleKeepsBody DEF ServeRequest
  <2>2. CASE p # q
    <3>1. \A status, by : Answer(p, status, by) => req'[q] = req[q]
      BY <1>2, <2>2 DEF Answer
    <3>2. \A stage : GoOn(p, stage) => req'[q] = req[q]
      BY <1>2, <2>2 DEF GoOn
    <3>3. ReadByte(p) => req'[q] = req[q]
      BY <1>2, <2>2 DEF ReadByte
    <3>4. \A bytes : Match(p, bytes) => req'[q] = req[q]
      BY <1>2, <2>2, <3>1 DEF Match
    <3>5. \A reply : UpstreamAnswers(p, reply) => req'[q] = req[q]
      BY <1>2, <2>2 DEF UpstreamAnswers
    <3>6. BodyEnds(p) \/ BodyBreaks(p) => req'[q] = req[q]
      BY <3>4 DEF BodyEnds, BodyBreaks
    <3>7. GateRefuses(p) \/ CacheHit(p) \/ SendFails(p) \/ Stored(p) => req'[q] = req[q]
      BY <3>1 DEF GateRefuses, CacheHit, SendFails, Stored
    <3>8. /\ \A e : AuthRefuses(p, e) => req'[q] = req[q]
          /\ \A layer : LimitDenies(p, layer) => req'[q] = req[q]
          /\ \A result : CacheMiss(p, result) => req'[q] = req[q]
          /\ Pass(p) => req'[q] = req[q]
      BY <3>1, <3>2 DEF AuthRefuses, LimitDenies, CacheMiss, Pass
    <3>9. req'[q] = req[q]
      BY <1>12, <3>3, <3>5, <3>6, <3>7, <3>8 DEF ServeRequest, Handle
    <3>10. QED
      BY <1>3, <3>9
  <2>3. QED
    BY <2>1, <2>2
<1>13. ASSUME NEW p \in Requests, DropStream(p)
       PROVE  BodyKept(req[q], req'[q])
  <2>1. req'[q] = req[q] \/ req'[q] = Dropped(req[q], "dropped")
    BY <1>2, <1>13 DEF DropStream
  <2>2. QED
    BY <1>3, <1>4, <2>1
<1>14. CASE UNCHANGED vars
  BY <1>3, <1>14 DEF vars
<1>15. QED
  BY <1>6, <1>7, <1>8, <1>9, <1>10, <1>11, <1>12, <1>13, <1>14 DEF Next

\* A body is refused for its size exactly beyond the limit, and handed on whole or
\* empty (Limited::collect in serve_http), in every step of every request.
THEOREM BodiesAreWhole == Spec => BodiesWholeOrEmpty
<1>1. ExchangeInv /\ [Next]_vars => [\A q \in Requests : BodyKept(req[q], req'[q])]_<<req, registry>>
  BY StepKeepsBody
<1>2. QED
  BY <1>1, ShutdownInvariant, PTL DEF Spec, BodiesWholeOrEmpty, BodyKept
=============================================================================
