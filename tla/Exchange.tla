------------------------------ MODULE Exchange ------------------------------
(***************************************************************************)
(* One request from the service function of serve_http to its answer: the  *)
(* body is read under the size limit, then pipeline::handle takes it from  *)
(* stage to stage, each an await that ends in an answer of its own or in   *)
(* the next stage, and counts what happened.  The gate, the providers, the *)
(* limiter, the cache and the upstream have modules of their own; here     *)
(* they are the outcomes they may have.                                    *)
(*                                                                         *)
(* The module that uses this one opens the connections, drops handlers     *)
(* and ends the process.                                                   *)
(***************************************************************************)
EXTENDS Telemetry, FiniteSets

CONSTANTS Requests,   \* requests clients may send
          None,
          MaxBody,    \* max_body_bytes
          Refusals,   \* what authentication may end in, besides success
          Replies     \* what upstreams answer: records of status and bytes

\* What an answer may come from.
Sources == {"body", "router", "gate", "pool", "send", "cache", "upstream"}
             \cup Layers \cup AuthErrors

ASSUME ExchangeAssumption ==
  /\ IsFiniteSet(Requests)
  /\ None \notin [status : Nat, by : Sources] \cup {"sending", "storing"}
  /\ MaxBody \in Nat
  /\ Refusals \subseteq AuthErrors
  /\ \A reply \in Replies : reply.status \in Nat /\ reply.bytes \in Nat

VARIABLES req,       \* each request, as far as its handler has taken it
          registry   \* MetricsRecorder.inner

\* The awaits of the handler, in order.
Awaits == {"reading", "gate", "auth", "limit", "lookup", "sending", "storing"}

\* A request that has not been sent.  len: the bytes of its body; got: those the
\* gateway has; upstream: the answer it has from there; told: the answer given;
\* lost: the await it was dropped at, if it had counted something by then.
Unsent == [at |-> "none", len |-> 0, got |-> 0, upstream |-> None, told |-> None,
           lost |-> None]

InFlight(q) == req[q].at \in Awaits

ExchangeInit == req = [q \in Requests |-> Unsent] /\ registry = NewRegistry

\* An answer and what it comes from; the locals of the handler are gone.
Answer(q, status, by) ==
  req' = [req EXCEPT ![q] =
            [Unsent EXCEPT !.at = "answered", !.told = [status |-> status, by |-> by]]]

GoOn(q, stage) == req' = [req EXCEPT ![q].at = stage]

\* A request whose handler is dropped at its await.
Dropped(r, how) ==
  [Unsent EXCEPT !.at = how, !.upstream = r.upstream,
                 !.lost = IF r.at \in {"sending", "storing"} THEN r.at ELSE None]

-----------------------------------------------------------------------------
(* serve_http *)

\* The head of a request with a body of n bytes: a Content-Length beyond the limit
\* is refused before a byte is read, a chunked body has none.
Receive(q, n, declared) ==
  /\ req[q].at = "none"
  /\ req' = [req EXCEPT ![q] =
               IF declared /\ n > MaxBody
               THEN [@ EXCEPT !.at = "answered", !.len = n,
                              !.told = [status |-> 413, by |-> "body"]]
               ELSE [@ EXCEPT !.at = "reading", !.len = n]]
  /\ UNCHANGED registry

\* Limited::collect: one more byte, unless it is one too many.
ReadByte(q) ==
  /\ req[q].at = "reading" /\ req[q].got < req[q].len
  /\ req' = [req EXCEPT ![q] =
               IF @.got = MaxBody
               THEN [Unsent EXCEPT !.at = "answered", !.len = req[q].len,
                                   !.told = [status |-> 413, by |-> "body"]]
               ELSE [@ EXCEPT !.got = req[q].got + 1]]
  /\ UNCHANGED registry

\* The start of handle, with the bytes collected: a 404, or on to the gate.
Match(q, bytes) ==
  \/ req' = [req EXCEPT ![q] = [@ EXCEPT !.at = "gate", !.got = bytes, !.len = 0]]
  \/ Answer(q, 404, "router")

BodyEnds(q) ==
  /\ req[q].at = "reading" /\ req[q].got = req[q].len
  /\ Match(q, req[q].got)
  /\ UNCHANGED registry

\* Mutant: what has been read so far is kept.
BodyBreaksKept(q) ==
  /\ req[q].at = "reading" /\ req[q].got < req[q].len
  /\ Match(q, req[q].got)
  /\ UNCHANGED registry

\* The body cannot be read: handle gets an empty one.
BodyBreaks(q) ==
  /\ req[q].at = "reading" /\ req[q].got < req[q].len
  /\ Match(q, 0)
  /\ UNCHANGED registry

-----------------------------------------------------------------------------
(* handle *)

GateRefuses(q) ==
  /\ req[q].at = "gate"
  /\ registry' = record_concurrency_rejected(registry)
  /\ Answer(q, 503, "gate")

AuthRefuses(q, e) ==
  /\ req[q].at = "auth"
  /\ registry' = record_auth_failure(registry, e)
  /\ Answer(q, status_code(e), e)

LimitDenies(q, layer) ==
  /\ req[q].at = "limit"
  /\ registry' = record_rate_limit(registry, layer)
  /\ Answer(q, 429, layer)

\* The gate, authentication and the limiter (also when it fails) let it through.
Pass(q) ==
  /\ \/ req[q].at = "gate" /\ GoOn(q, "auth")
     \/ req[q].at = "auth" /\ GoOn(q, "limit")
     \/ req[q].at = "limit" /\ GoOn(q, "lookup")
  /\ UNCHANGED registry

CacheHit(q) ==
  /\ req[q].at = "lookup"
  /\ registry' = record_cache_lookup(registry, "hit")
  /\ \E reply \in Replies : Answer(q, reply.status, "cache")

\* Nothing there, or not looked for; then the pool may be missing.
CacheMiss(q, result) ==
  /\ req[q].at = "lookup"
  /\ registry' = record_cache_lookup(registry, result)
  /\ GoOn(q, "sending") \/ Answer(q, 502, "pool")

SendFails(q) ==
  /\ req[q].at = "sending"
  /\ \E status \in {502, 504} : Answer(q, status, "send")
  /\ UNCHANGED registry

\* Mutant: only answers that are no server errors are counted.
UpstreamAnswersOk(q, reply) ==
  /\ req[q].at = "sending"
  /\ registry' = IF reply.status < 500 THEN record_upstream(registry, reply.status)
                                       ELSE registry
  /\ req' = [req EXCEPT ![q] = [@ EXCEPT !.at = "storing", !.upstream = reply]]

UpstreamAnswers(q, reply) ==
  /\ req[q].at = "sending"
  /\ registry' = record_upstream(registry, reply.status)
  /\ req' = [req EXCEPT ![q] = [@ EXCEPT !.at = "storing", !.upstream = reply]]

\* The store is over, whether the response may be stored or not.
Stored(q) ==
  LET reply == req[q].upstream IN
  /\ req[q].at = "storing"
  /\ registry' = record_request(registry, reply.status, req[q].got, reply.bytes)
  /\ Answer(q, reply.status, "upstream")

Handle(q) ==
  \/ ReadByte(q) \/ BodyEnds(q) \/ BodyBreaks(q)
  \/ GateRefuses(q) \/ Pass(q)
  \/ \E e \in Refusals : AuthRefuses(q, e)
  \/ \E layer \in Layers : LimitDenies(q, layer)
  \/ CacheHit(q) \/ \E result \in Lookups \ {"hit"} : CacheMiss(q, result)
  \/ SendFails(q) \/ \E reply \in Replies : UpstreamAnswers(q, reply)
  \/ Stored(q)

-----------------------------------------------------------------------------
(* Properties *)

\* The value of a series, and how many requests satisfy a condition.
Value(family, label) == ValueOf(registry, <<family, label>>)
Told(answers) == Cardinality({q \in Requests : req[q].told \in answers})
Reached(stage) == {q \in Requests : stage \in {req[q].at, req[q].lost}}

Answers(by) == {a \in {req[q].told : q \in Requests} \ {None} : a.by \in by}

\* The lookups that hit and the refusals of the gate, whatever their label says.
Hits == Value("cache_lookups_total", "hit")
Rejections == Value("concurrency_rejected_total", "limit")

\* The counters say what clients were told, whatever requests were dropped half-way
\* and by whom: every refusal is counted once, with its layer or mechanism; every hit
\* is a lookup that hit; every cycle with an upstream is in upstream_requests_total,
\* told to the client or lost with it during the store; and requests_total never has
\* a request twice, or one in a class its client was not told.
AnswersAccounted ==
  /\ Rejections = Told(Answers({"gate"}))
  /\ \A layer \in Layers : Value("rate_limit_denied_total", layer) = Told(Answers({layer}))
  /\ \A m \in Mechanisms : Value("auth_failures_total", m)
                            = Told(Answers({e \in AuthErrors : mechanism(e) = m}))
  /\ Hits = Told(Answers({"cache"}))
  /\ Value("cache_lookups_total", "miss") + Value("cache_lookups_total", "bypass")
       = Told(Answers({"pool", "send", "upstream"}))
           + Cardinality(Reached("sending") \cup Reached("storing"))
  /\ \A c \in Classes :
       /\ Value("upstream_requests_total", c)
            = Told({a \in Answers({"upstream"}) : status_class(a.status) = c})
                + Cardinality({q \in Reached("storing") :
                                 status_class(req[q].upstream.status) = c})
       /\ Value("requests_total", c)
            <= Told({a \in Answers(Sources) : status_class(a.status) = c})

\* A body is refused for its size exactly when it is beyond the limit, declared or
\* not, and one that is not refused goes to the upstream whole, or empty if it could
\* not be read to its end, but never in part.
BodiesWholeOrEmpty ==
  [][\A q \in Requests :
       LET old == req[q]  new == req'[q]
           len == IF old.at = "none" THEN new.len ELSE old.len
       IN  /\ old.told = None /\ new.told # None /\ new.told.by = "body" => len > MaxBody
           /\ old.at = "reading" /\ new.at = "gate" =>
                \/ new.got = len /\ len <= MaxBody
                \/ new.got = 0 /\ old.got < len]_<<req, registry>>
=============================================================================
