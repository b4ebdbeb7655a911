------------------------------ MODULE Pipeline ------------------------------
(***************************************************************************)
(* The request pipeline over a configuration that is reloaded while        *)
(* requests are under way: match a route in the router of the moment, pass *)
(* the concurrency gate, authenticate, pass the rate limiter, look into    *)
(* the cache, ask the upstream, store.  The gate, the limiter, the cache   *)
(* and the upstream have modules of their own; here each is an await that  *)
(* ends in one of its outcomes.                                            *)
(*                                                                         *)
(* A reload swaps the configuration and tells the task that rebuilds the   *)
(* router.  Nothing else is rebuilt: the pools and the rate limit policies *)
(* are those of the first configuration.                                   *)
(***************************************************************************)
EXTENDS Auth

CONSTANTS LowerCase, Blank,
          Configs,   \* the configurations the file may hold, the first at startup
          Shapes     \* the requests clients send

INSTANCE Router

ASSUME PipelineAssumption ==
  /\ 1 \in DOMAIN Configs /\ validate(Configs[1])
  /\ \A c \in DOMAIN Configs : GatewayConfig(Configs[c])
  /\ None \notin DOMAIN Configs /\ None \notin Shapes
  /\ \A q \in Shapes : q.path \in Seq(STRING)

VARIABLES current,  \* ConfigWatcher.inner: a position in Configs
          reader,   \* the configuration a reload has read, or None
          swapped,  \* the reload has stored it and not yet sent it
          sent,     \* the value of the watch channel
          unseen,   \* the receiver has not seen that value
          pending,  \* the configuration the router is being rebuilt from, or None
          table     \* RouterHandle.inner: the configuration it was built from

reload == <<current, reader, swapped, sent, unseen, pending, table>>
vars == <<authVars, reload>>

Boot == Configs[1]

\* All matches, computed once.
Matches == [c \in DOMAIN Configs |-> [q \in Shapes |-> match_request(Configs[c], q)]]
Valid == {c \in DOMAIN Configs : validate(Configs[c])}

Init ==
  /\ AuthInit
  /\ current = 1 /\ sent = 1 /\ table = 1
  /\ reader = None /\ swapped = FALSE /\ unseen = FALSE /\ pending = None

-----------------------------------------------------------------------------
(* Reload *)

\* ConfigWatcher::reload reads the file, whatever it holds by now,
ReadFile(c) ==
  /\ reader = None
  /\ reader' = c
  /\ UNCHANGED <<current, swapped, sent, unseen, pending, table, authVars>>

\* parses and validates it,
KeepConfig ==
  /\ reader # None /\ ~swapped /\ reader \notin Valid
  /\ reader' = None
  /\ UNCHANGED <<current, swapped, sent, unseen, pending, table, authVars>>

\* stores it
SwapConfig ==
  /\ reader # None /\ ~swapped /\ reader \in Valid
  /\ current' = reader
  /\ swapped' = TRUE
  /\ UNCHANGED <<reader, sent, unseen, pending, table, authVars>>

\* and sends it to the subscriber.
NotifyReload ==
  /\ swapped
  /\ sent' = reader /\ unseen' = TRUE
  /\ reader' = None /\ swapped' = FALSE
  /\ UNCHANGED <<current, pending, table, authVars>>

\* The task in run(): changed(), then borrow_and_update().
TakeUpdate ==
  /\ unseen /\ pending = None
  /\ pending' = sent
  /\ unseen' = FALSE
  /\ UNCHANGED <<current, reader, swapped, sent, table, authVars>>

\* Mutant: the value is marked as seen when the router is ready.
RebuildMarksSeen ==
  /\ pending # None
  /\ table' = pending
  /\ pending' = None
  /\ unseen' = FALSE
  /\ UNCHANGED <<current, reader, swapped, sent, authVars>>

\* RouterHandle::rebuild.  It cannot fail: the regexes have been validated.
Rebuild ==
  /\ pending # None
  /\ table' = pending
  /\ pending' = None
  /\ UNCHANGED <<current, reader, swapped, sent, unseen, authVars>>

-----------------------------------------------------------------------------
(* handle *)

\* The route stays with the request, whatever is reloaded.  A request without a
\* route gets a 404 and changes nothing.
Arrive(r, q) ==
  /\ pc[r] = "idle" /\ Matches[table][q] # None
  /\ pc' = [pc EXCEPT ![r] = "gate"]
  /\ req' = [req EXCEPT ![r] = q]
  /\ route' = [route EXCEPT ![r] = Matches[table][q]]
  /\ UNCHANGED <<keys, issuer, passed, stale, reload>>

Admit(r) ==
  /\ pc[r] = "gate"
  /\ Goto(r, AuthStart(r))
  /\ queue' = IF AuthStart(r) = "key_read" THEN Append(queue, r) ELSE queue
  /\ UNCHANGED <<writer, cache, age, reply, transit, issuer, stale, reload>>

Authenticate(r) == AuthStep(r) /\ UNCHANGED reload

\* The rest of the pipeline, which the keys do not concern.
Pass(r, from, to) ==
  /\ pc[r] = from
  /\ Goto(r, to)
  /\ Mark(r, FALSE)
  /\ UNCHANGED <<keys, issuer, reload>>

\* The gate is full: 503.
Reject(r) == Pass(r, "gate", "idle")

\* A policy that came with a reload is unknown to the limiter: fail open.
LimitDenies(r) == Pass(r, "limit", "idle") /\ route[r].policy \in Boot.policies
LimitAllows(r) == Pass(r, "limit", "lookup")

CacheHit(r) == Pass(r, "lookup", "idle")
CacheMiss(r) == Pass(r, "lookup", "send") /\ route[r].upstream \in DOMAIN Boot.upstreams

\* An upstream that came with a reload has no pool: 502.
NoPool(r) == Pass(r, "lookup", "idle") /\ route[r].upstream \notin DOMAIN Boot.upstreams

\* An answer, which is stored if it may be, or an error.
UpstreamDone(r) == Pass(r, "send", "idle")

\* The client goes away: the handler is dropped at whatever it awaits.
Cancel(r) ==
  /\ pc[r] # "idle"
  /\ Goto(r, "idle")
  /\ Mark(r, FALSE)
  /\ DropAuth(r)
  /\ UNCHANGED reload

-----------------------------------------------------------------------------
Tick == AuthTick /\ UNCHANGED reload
Rotate == RotateKeys /\ UNCHANGED reload

Handle(r) ==
  \/ Admit(r) \/ Reject(r) \/ Authenticate(r)
  \/ LimitDenies(r) \/ LimitAllows(r)
  \/ CacheHit(r) \/ CacheMiss(r) \/ NoPool(r)
  \/ UpstreamDone(r)

Next ==
  \/ \E r \in Requests :
       \/ \E q \in Shapes : Arrive(r, q)
       \/ Handle(r) \/ Cancel(r)
  \/ \E c \in DOMAIN Configs : ReadFile(c)
  \/ KeepConfig \/ SwapConfig \/ NotifyReload \/ TakeUpdate \/ Rebuild
  \/ Tick \/ Rotate

Spec == Init /\ [][Next]_vars

-----------------------------------------------------------------------------
(* Properties *)

Stages == AuthStages \cup {"idle", "gate", "limit", "lookup", "send"}

\* Every variable has its type; those who wait for the lock are in line once, and
\* the one who holds it for writing is the one who asks the issuer.
TypeOK ==
  /\ pc \in [Requests -> Stages]
  /\ req \in [Requests -> Shapes \cup {None}]
  /\ route \in [Requests -> {Matches[c][q] : c \in DOMAIN Configs, q \in Shapes} \cup {None}]
  /\ \A r \in Requests : (pc[r] = "idle") = (req[r] = None) /\ (req[r] = None) = (route[r] = None)
  /\ queue \in Seq(Requests) /\ \A i, j \in DOMAIN queue : queue[i] = queue[j] => i = j
  /\ \A r \in Requests : (pc[r] \in {"key_read", "key_write"}) = (r \in Range(queue))
  /\ writer \in Requests \cup {None}
  /\ \A r \in Requests : (pc[r] \in {"fetching", "fetched"}) = (writer = r)
  /\ {cache, reply} \subseteq Range(Publications) \cup {None}
  /\ age \in 0 .. Ttl + 1 /\ transit \in 0 .. MaxFetch /\ rotated \in 0 .. MaxRotated
  /\ published \in DOMAIN Publications
  /\ passed \in [Requests -> SUBSET {"jwt", "api_key"}] /\ stale \in [Requests -> BOOLEAN]
  /\ {current, sent, table} \subseteq DOMAIN Configs
  /\ {reader, pending} \subseteq DOMAIN Configs \cup {None}
  /\ {swapped, unseen} \subseteq BOOLEAN

Winners == [c \in DOMAIN Configs |-> [q \in Shapes |-> Winner(Configs[c], q)]]
Clear == [c \in DOMAIN Configs |-> {q \in Shapes : ~Ambiguous(Configs[c], q)}]

\* "Exact, prefix (longest first), regex (declaration order)": whatever is
\* reloaded, the tries give a request the route that this order names, and a 404
\* only if no route is made for it.  Requests for which a table has two exact
\* routes, or two equal prefixes, are left out.
MatchFollowsPrecedence ==
  \A q \in Clear[table] : Matches[table][q] = Winners[table][q]

\* No reload is lost: when none is under way and the task has nothing to do, the
\* router is the one of the current configuration, and that one is valid.
RouterFollowsConfig ==
  reader = None /\ ~unseen /\ pending = None => table = current /\ current \in Valid

\* The mechanisms that a route with them cannot do without.
Mandatory == {"jwt", "api_key"} \cup (IF MtlsRequired THEN {"mtls"} ELSE {})

\* The key pairs of a publication.
Pairs(p) == {jwk.pair : jwk \in Range(Publications[p])}

\* A request gets past authentication only with every credential its route asks
\* for (an optional certificate apart).  A token only counts if its key pair signed
\* it, for this audience and from these issuers as far as it says, and if the issuer
\* had published that key within the cache's time to live and one fetch, or the
\* fetch that should have told was tried and failed.
Authorised(r) ==
  /\ pc[r] # "limit" /\ pc'[r] = "limit" => route[r].auth \cap Mandatory \subseteq passed'[r]
  /\ "jwt" \in passed'[r] \ passed[r] =>
       LET token == Token(r) IN
       /\ token.alg \notin Symmetric
       /\ token.aud \in Audience \cup {None} /\ token.iss \in Issuers \cup {None}
       /\ \/ token.pair \in Pairs(published)
          \/ \E p \in 1 .. published - 1 :
               token.pair \in Pairs(p) /\ rotated <= Ttl + MaxFetch
          \/ stale'[r]

\* "All enabled providers must pass", "HS* symmetric algorithms are deliberately NOT
\* supported": whatever is reloaded, cancelled or rotated in between, no request gets
\* further than its credentials allow.
OnlyAuthorised == [][\A r \in Requests : Authorised(r)]_vars

\* "Double-check to avoid thundering herd": however many requests find the keys
\* expired at once, no fetch replaces keys that are still good.
RefreshedOnce == [][cache' # cache \/ age' < age => ~Fresh]_vars
=============================================================================
