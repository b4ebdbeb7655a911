-------------------------------- MODULE Auth --------------------------------
(***************************************************************************)
(* Authentication of requests: the JWT provider with its cache of the      *)
(* issuer's keys behind a read-write lock, the API key provider and the    *)
(* mTLS provider, in this order.  The lock is tokio's: fair, so that tasks *)
(* get it in the order in which they asked.  A reader lets go of it in the *)
(* same step; the writer holds it while it awaits the issuer.              *)
(*                                                                         *)
(* The modules that use this one say where a request comes from and where  *)
(* it goes to: stage "limit" when it is authenticated, "idle" when it has  *)
(* been answered.                                                          *)
(***************************************************************************)
EXTENDS Integers, Sequences, SequencesExt

CONSTANTS Requests,       \* requests under way at once
          None,
          Publications,   \* the key sets the issuer publishes, one after the other
          Audience,       \* jwt.audience
          Issuers,        \* jwt.issuers
          Ttl,            \* jwks_cache_ttl
          MtlsRequired,   \* mtls.required
          MaxFetch        \* bound: ticks the issuer's answer is under way

\* A published key: its id or None, its type, whether it has all the numbers its
\* type needs, and the key pair it belongs to.
Jwk == [key_id : STRING \cup {None}, key_type : STRING, complete : BOOLEAN, pair : STRING]

ASSUME AuthAssumption ==
  /\ Publications \in Seq(Seq(Jwk)) \ {<<>>}
  /\ Ttl \in Nat /\ MaxFetch \in Nat /\ MtlsRequired \in BOOLEAN
  /\ None \notin Requests \cup Seq(Jwk)

VARIABLES pc,         \* how far each request is
          req,        \* the request, or None
          route,      \* the route it has matched, or None
          queue,      \* who waits for the lock of key_cache, in order
          writer,     \* who holds it for writing, or None
          cache,      \* KeyCache.keys, or None
          age,        \* time since fetched_at
          reply,      \* the keys on their way from the issuer
          transit,    \* ticks they have been on their way
          published,  \* the issuer's publication now in force
          rotated,    \* history: time since it came into force
          passed,     \* history: mechanisms each request has passed
          stale       \* history: its fetch failed and it used the old keys

keys == <<queue, writer, cache, age, reply, transit>>
issuer == <<published, rotated>>
authVars == <<pc, req, route, keys, issuer, passed, stale>>

AuthStages == {"key_read", "key_write", "fetching", "fetched", "api_key"}

\* Beyond this bound, and an age of Ttl + 1, the times are no longer told apart.
MaxRotated == Ttl + MaxFetch + 1

\* The issuer's first keys have been in force for long.
AuthInit ==
  /\ pc = [r \in Requests |-> "idle"]
  /\ req = [r \in Requests |-> None]
  /\ route = [r \in Requests |-> None]
  /\ queue = <<>> /\ writer = None
  /\ cache = None /\ age = 0
  /\ reply = None /\ transit = 0
  /\ published = 1 /\ rotated = MaxRotated
  /\ passed = [r \in Requests |-> {}]
  /\ stale = [r \in Requests |-> FALSE]

AtMost(n, bound) == IF n < bound THEN n ELSE bound

\* A request moves on having passed mechanisms; at "idle" its locals are gone.
GoOn(r, stage, mechanisms) ==
  /\ pc' = [pc EXCEPT ![r] = stage]
  /\ passed' = [passed EXCEPT ![r] = IF stage = "idle" THEN {} ELSE @ \cup mechanisms]
  /\ req' = [req EXCEPT ![r] = IF stage = "idle" THEN None ELSE @]
  /\ route' = [route EXCEPT ![r] = IF stage = "idle" THEN None ELSE @]

Goto(r, stage) == GoOn(r, stage, {})

\* Whether its old keys were used, which only the rest of the request can tell.
Mark(r, used) == stale' = [stale EXCEPT ![r] = used /\ pc'[r] # "idle"]

-----------------------------------------------------------------------------
(* Credentials.  A token is a record: kid, alg, the key pair that signed it,   *)
(* and of its claims sub, aud and iss (or None), and exp and nbf as "past",    *)
(* "future" or None.                                                           *)

Symmetric == {"HS256", "HS384", "HS512"}
Rsa == {"RS256", "RS384", "RS512", "PS256", "PS384", "PS512"}
Ecdsa == {"ES256", "ES384"}
Algorithms == Symmetric \cup Rsa \cup Ecdsa \cup {"EdDSA"}

\* The token of the Authorization header, if it has the Bearer scheme.
extract_bearer(q) ==
  IF q.authorization # None /\ q.authorization.scheme = "Bearer"
  THEN q.authorization.token ELSE None

\* A header that names another algorithm does not decode.
decode_header(token) == token # None /\ token.alg \in Algorithms

extract_api_key(q) == q.x_api_key

\* The key a JWK stands for, None if its type is unknown or a number is missing.
jwk_to_decoding_key(jwk) ==
  CASE jwk = None -> None
    [] jwk # None /\ jwk.key_type = "RSA" /\ jwk.complete -> [family |-> Rsa, pair |-> jwk.pair]
    [] jwk # None /\ jwk.key_type = "EC" /\ jwk.complete -> [family |-> Ecdsa, pair |-> jwk.pair]
    [] OTHER -> None

\* A symmetric algorithm is replaced by one the token does not have.
build_validation(alg) ==
  [alg |-> IF alg \in Symmetric THEN "RS256" ELSE alg, aud |-> Audience, iss |-> Issuers]

\* jsonwebtoken::decode: of aud, iss and nbf only what the token has is checked; exp
\* it must have, and sub, without which it is no Claims.
decode(token, key, validation) ==
  /\ validation.alg \in key.family
  /\ token.alg = validation.alg
  /\ token.pair = key.pair
  /\ token.sub # None /\ token.exp = "future" /\ token.nbf \in {"past", None}
  /\ token.aud \in validation.aud \cup {None}
  /\ token.iss \in validation.iss \cup {None}

-----------------------------------------------------------------------------
(* AuthPipeline::run, up to the first await of the next provider *)

\* MtlsProvider::verify finds no certificate: nothing attaches one to a request.
AfterApiKey(r) ==
  IF "mtls" \in route[r].auth /\ MtlsRequired THEN "idle" ELSE "limit"

AfterJwt(r) ==
  IF "api_key" \in route[r].auth
  THEN IF extract_api_key(req[r]) THEN "api_key" ELSE "idle"
  ELSE AfterApiKey(r)

Token(r) == extract_bearer(req[r])

\* JwtProvider::verify asks for the lock if there is a bearer token.
AuthStart(r) ==
  IF "jwt" \in route[r].auth
  THEN IF decode_header(Token(r)) THEN "key_read" ELSE "idle"
  ELSE AfterJwt(r)

-----------------------------------------------------------------------------
(* get_key *)

FirstKey(list, Test(_)) ==
  LET i == SelectInSeq(list, Test) IN IF i = 0 THEN None ELSE list[i]

\* KeyCache::find_key: a token without a key id gets the first key.
find_key(list, kid) ==
  FirstKey(list, LAMBDA k : kid = None \/ k.key_id = kid)

\* After a fetch such a token gets a key without an id only.
find_fetched(list, kid) == FirstKey(list, LAMBDA k : k.key_id = kid)

\* Mutant: the cache never expires.
FreshForever == cache # None

Fresh == cache # None /\ age <= Ttl

\* The rest of validate_token with the key found, None being an unknown key id.
Decide(r, jwk) ==
  LET key == jwk_to_decoding_key(jwk) IN
  IF key # None /\ decode(Token(r), key, build_validation(Token(r).alg))
  THEN GoOn(r, AfterJwt(r), {"jwt"})
  ELSE Goto(r, "idle")

\* The fast path, under the read lock.
ReadKeys(r) ==
  /\ pc[r] = "key_read" /\ writer = None /\ Head(queue) = r
  /\ IF Fresh
     THEN /\ Decide(r, find_key(cache, Token(r).kid))
          /\ queue' = Tail(queue)
     ELSE /\ Goto(r, "key_write")
          /\ queue' = Append(Tail(queue), r)
  /\ Mark(r, FALSE)
  /\ UNCHANGED <<writer, cache, age, reply, transit, issuer>>

\* Mutant: no second look at the cache under the write lock.
LockKeysUnchecked(r) ==
  /\ pc[r] = "key_write" /\ writer = None /\ Head(queue) = r
  /\ queue' = Tail(queue)
  /\ Goto(r, "fetching") /\ writer' = r
  /\ Mark(r, FALSE)
  /\ UNCHANGED <<cache, age, reply, transit, issuer>>

\* The write lock, with the double check; then the fetch begins.
LockKeys(r) ==
  /\ pc[r] = "key_write" /\ writer = None /\ Head(queue) = r
  /\ queue' = Tail(queue)
  /\ IF Fresh
     THEN Decide(r, find_key(cache, Token(r).kid)) /\ UNCHANGED writer
     ELSE Goto(r, "fetching") /\ writer' = r
  /\ Mark(r, FALSE)
  /\ UNCHANGED <<cache, age, reply, transit, issuer>>

\* The issuer answers with the keys of the moment.
IssuerAnswers(r) ==
  /\ pc[r] = "fetching"
  /\ reply' = Publications[published]
  /\ Goto(r, "fetched")
  /\ UNCHANGED <<queue, writer, cache, age, transit, issuer, stale>>

\* The answer is stored, stamped with the time of its arrival.
FetchArrives(r) ==
  /\ pc[r] = "fetched"
  /\ cache' = reply /\ age' = 0
  /\ reply' = None /\ transit' = 0
  /\ writer' = None
  /\ Decide(r, find_fetched(reply, Token(r).kid))
  /\ Mark(r, FALSE)
  /\ UNCHANGED <<queue, issuer>>

\* Mutant: the lock is not given back.
FetchFailsLocked(r) ==
  /\ pc[r] \in {"fetching", "fetched"}
  /\ reply' = None /\ transit' = 0
  /\ IF cache = None THEN Goto(r, "idle")
                     ELSE Decide(r, find_key(cache, Token(r).kid))
  /\ Mark(r, TRUE)
  /\ UNCHANGED <<queue, writer, cache, age, issuer>>

\* No connection, an error status or a bad body: the old keys are used if there
\* are any, and stay expired.
FetchFails(r) ==
  /\ pc[r] \in {"fetching", "fetched"}
  /\ reply' = None /\ transit' = 0
  /\ writer' = None
  /\ IF cache = None THEN Goto(r, "idle")
                     ELSE Decide(r, find_key(cache, Token(r).kid))
  /\ Mark(r, TRUE)
  /\ UNCHANGED <<queue, cache, age, issuer>>

-----------------------------------------------------------------------------
(* ApiKeyProvider::verify: one GET *)

ApiKeyAccepted(r) ==
  /\ pc[r] = "api_key"
  /\ GoOn(r, AfterApiKey(r), {"api_key"})
  /\ Mark(r, stale[r])
  /\ UNCHANGED <<keys, issuer>>

\* An unknown or inactive key, a corrupt record, or no answer from Redis.
ApiKeyRefused(r) ==
  /\ pc[r] = "api_key"
  /\ Goto(r, "idle")
  /\ Mark(r, FALSE)
  /\ UNCHANGED <<keys, issuer>>

-----------------------------------------------------------------------------
\* The request's future is dropped, and with it the lock and its place in line.
DropAuth(r) ==
  /\ \/ \E i \in DOMAIN queue : queue[i] = r /\ queue' = RemoveAt(queue, i)
     \/ r \notin Range(queue) /\ UNCHANGED queue
  /\ writer' = IF writer = r THEN None ELSE writer
  /\ reply' = IF writer = r THEN None ELSE reply
  /\ transit' = IF writer = r THEN 0 ELSE transit
  /\ UNCHANGED <<cache, age, issuer>>

\* The issuer replaces its keys.
RotateKeys ==
  /\ published < Len(Publications)
  /\ published' = published + 1
  /\ rotated' = 0
  /\ UNCHANGED <<pc, req, route, keys, passed, stale>>

AuthTick ==
  /\ transit < MaxFetch \/ reply = None
  /\ age < Ttl + 1 \/ rotated < MaxRotated \/ reply # None
  /\ age' = IF cache = None THEN 0 ELSE AtMost(age + 1, Ttl + 1)
  /\ rotated' = AtMost(rotated + 1, MaxRotated)
  /\ transit' = IF reply = None THEN 0 ELSE transit + 1
  /\ UNCHANGED <<pc, req, route, queue, writer, cache, reply, published, passed, stale>>

AuthStep(r) ==
  \/ ReadKeys(r) \/ LockKeys(r) \/ IssuerAnswers(r) \/ FetchArrives(r) \/ FetchFails(r)
  \/ ApiKeyAccepted(r) \/ ApiKeyRefused(r)
=============================================================================
