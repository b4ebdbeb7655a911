--------------------------- MODULE PipelineProofs ---------------------------
(***************************************************************************)
(* What is proved of Pipeline, for any requests, configurations, routes,   *)
(* key publications and times: no reload is lost, every request gets the   *)
(* route that the documented order names, none gets past authentication    *)
(* without what its route asks for, and no fetch replaces keys that are    *)
(* still good.                                                             *)
(*                                                                         *)
(* The inductive invariant has a part for the reload (ReloadInv), one for  *)
(* where the keys in the cache and on their way come from and how old they *)
(* are (KeysInv), and one for requests between two providers (JourneyInv). *)
(***************************************************************************)
EXTENDS Pipeline, SequenceTheorems, WellFoundedInduction, TLAPS

\* What the router's task has not taken, is building or has built is the last
\* value sent, and only a reload between its two steps has more to send.
ReloadInv ==
  /\ current \in Valid
  /\ IF swapped THEN reader = current ELSE sent = current
  /\ ~unseen /\ pending # None => pending = sent
  /\ ~unseen /\ pending = None => table = sent

\* The keys are a publication that was in force at most the given time ago.
PublishedWithin(list, time) ==
  \E p \in 1 .. published :
    list = Publications[p] /\ (p < published => rotated <= time)

\* An answer has aged since it was given, the cache since the answer arrived; the
\* lock is held for writing only while the cache is not good.
KeysInv ==
  /\ cache # None => PublishedWithin(cache, age + MaxFetch)
  /\ reply # None => PublishedWithin(reply, transit)
  /\ \A r \in Requests : pc[r] = "fetched" => reply # None
  /\ writer # None => ~Fresh

\* A request that is asked for its API key has shown its token if it has to.
JourneyInv ==
  \A r \in Requests :
    pc[r] = "api_key" => route[r].auth \cap {"jwt"} \subseteq passed[r]

PipelineInv == TypeOK /\ ReloadInv /\ KeysInv /\ JourneyInv

-----------------------------------------------------------------------------
(* The line for the lock: everyone in it once *)

Line(q) == q \in Seq(Requests) /\ \A i, j \in DOMAIN q : q[i] = q[j] => i = j

\* Appending puts someone new in line.
LEMMA LineAppend ==
  ASSUME NEW q, Line(q), NEW r \in Requests, r \notin Range(q)
  PROVE  Line(Append(q, r)) /\ Range(Append(q, r)) = Range(q) \cup {r}
<1> DEFINE a == Append(q, r)
<1>1. /\ q \in Seq(Requests) /\ Len(q) \in Nat /\ DOMAIN q = 1 .. Len(q)
      /\ \A i \in 1 .. Len(q) : q[i] # r
  BY DEF Line, Range
<1>2. /\ a \in Seq(Requests) /\ DOMAIN a = 1 .. Len(q) + 1
      /\ \A i \in 1 .. Len(q) : a[i] = q[i]
      /\ a[Len(q) + 1] = r
  BY <1>1
<1>3. \A i \in DOMAIN a : i \in 1 .. Len(q) \/ i = Len(q) + 1
  BY <1>1, <1>2
<1> HIDE DEF a
<1>4. Line(a)
  BY <1>1, <1>2, <1>3 DEF Line
<1>5. Range(a) = Range(q) \cup {r}
  <2>1. ASSUME NEW x \in Range(a) PROVE x \in Range(q) \cup {r}
    BY <1>1, <1>2, <1>3, <2>1 DEF Range
  <2>2. ASSUME NEW x \in Range(q) PROVE x \in Range(a)
    <3>1. PICK i \in DOMAIN q : q[i] = x
      BY <2>2 DEF Range
    <3>2. i \in DOMAIN a /\ a[i] = x
      BY <3>1, <1>1, <1>2
    <3> QED
      BY <3>2 DEF Range
  <2>3. r \in Range(a)
    <3>1. Len(q) + 1 \in DOMAIN a
      BY <1>1, <1>2
    <3> QED
      BY <3>1, <1>2 DEF Range
  <2> QED
    BY <2>1, <2>2, <2>3
<1> QED
  BY <1>4, <1>5 DEF a

\* Whoever is first leaves.
LEMMA LineTail ==
  ASSUME NEW q, Line(q), q # <<>>
  PROVE  /\ Line(Tail(q)) /\ Range(Tail(q)) = Range(q) \ {Head(q)}
         /\ Head(q) \in Range(q) /\ Head(q) \in Requests
<1> DEFINE t == Tail(q)
<1>1. /\ q \in Seq(Requests) /\ Len(q) \in Nat \ {0} /\ DOMAIN q = 1 .. Len(q)
      /\ \A i, j \in 1 .. Len(q) : q[i] = q[j] => i = j
      /\ Head(q) = q[1] /\ q[1] \in Requests
  BY DEF Line
<1>2. /\ t \in Seq(Requests) /\ DOMAIN t = 1 .. Len(q) - 1
      /\ \A i \in 1 .. Len(q) - 1 : t[i] = q[i + 1]
  BY <1>1
<1> HIDE DEF t
<1>3. Line(t)
  <2> SUFFICES ASSUME NEW i \in 1 .. Len(q) - 1, NEW j \in 1 .. Len(q) - 1, t[i] = t[j]
               PROVE  i = j
    BY <1>2 DEF Line
  <2>1. q[i + 1] = q[j + 1] /\ i + 1 \in 1 .. Len(q) /\ j + 1 \in 1 .. Len(q)
    BY <1>1, <1>2
  <2> QED
    BY <1>1, <2>1
<1>4. Range(t) = Range(q) \ {q[1]}
  <2>1. ASSUME NEW x \in Range(t) PROVE x \in Range(q) /\ x # q[1]
    <3>1. PICK i \in 1 .. Len(q) - 1 : t[i] = x
      BY <1>2, <2>1 DEF Range
    <3>2. i + 1 \in 1 .. Len(q) /\ 1 \in 1 .. Len(q) /\ i + 1 # 1 /\ q[i + 1] = x
      BY <1>1, <1>2, <3>1
    <3> QED
      BY <1>1, <3>2 DEF Range
  <2>2. ASSUME NEW x \in Range(q), x # q[1] PROVE x \in Range(t)
    <3>1. PICK i \in 1 .. Len(q) : q[i] = x
      BY <1>1 DEF Range
    <3>2. i - 1 \in 1 .. Len(q) - 1
      BY <1>1, <2>2, <3>1
    <3>3. t[i - 1] = x
      BY <1>2, <3>1, <3>2
    <3> QED
      BY <1>2, <3>2, <3>3 DEF Range
  <2> QED
    BY <2>1, <2>2
<1>5. q[1] \in Range(q)
  BY <1>1 DEF Range
<1> QED
  BY <1>1, <1>3, <1>4, <1>5 DEF t

\* So does one in the middle who gives up.
LEMMA LineRemove ==
  ASSUME NEW q, Line(q), NEW k \in DOMAIN q
  PROVE  Line(RemoveAt(q, k)) /\ Range(RemoveAt(q, k)) = Range(q) \ {q[k]}
<1> DEFINE t == RemoveAt(q, k)
<1>1. /\ q \in Seq(Requests) /\ Len(q) \in Nat \ {0} /\ DOMAIN q = 1 .. Len(q)
      /\ \A i, j \in 1 .. Len(q) : q[i] = q[j] => i = j
      /\ k \in 1 .. Len(q)
  BY DEF Line
<1>2. /\ t \in Seq(Requests) /\ DOMAIN t = 1 .. Len(q) - 1
      /\ \A i \in 1 .. Len(q) - 1 : t[i] = IF i < k THEN q[i] ELSE q[i + 1]
  <2> DEFINE u == SubSeq(q, 1, k - 1)
             v == SubSeq(q, k + 1, Len(q))
  <2>1. /\ u \in Seq(Requests) /\ Len(u) = k - 1
        /\ \A i \in 1 .. k - 1 : u[i] = q[i]
    BY <1>1
  <2>2. /\ v \in Seq(Requests) /\ Len(v) = Len(q) - k
        /\ \A i \in 1 .. Len(q) - k : v[i] = q[i + k]
    BY <1>1
  <2> HIDE DEF u, v
  <2>3. /\ u \o v \in Seq(Requests) /\ Len(u \o v) = Len(q) - 1
        /\ \A i \in 1 .. Len(q) - 1 :
             (u \o v)[i] = IF i < k THEN u[i] ELSE v[i - (k - 1)]
    <3>1. /\ u \o v \in Seq(Requests) /\ Len(u \o v) = Len(u) + Len(v)
          /\ \A i \in 1 .. Len(u) + Len(v) :
               (u \o v)[i] = IF i <= Len(u) THEN u[i] ELSE v[i - Len(u)]
      BY <2>1, <2>2, ConcatProperties
    <3>2. Len(u) + Len(v) = Len(q) - 1 /\ \A i \in Int : i <= Len(u) <=> i < k
      BY <1>1, <2>1, <2>2
    <3> HIDE DEF t
    <3> QED
      BY <3>1, <3>2, <2>1
  <2>4. \A i \in 1 .. Len(q) - 1 : ~(i < k) =>
          i - (k - 1) \in 1 .. Len(q) - k /\ (i - (k - 1)) + k = i + 1
    BY <1>1
  <2>5. t = u \o v
    BY DEF t, u, v, RemoveAt
  <2> HIDE DEF t
  <2>6. t \in Seq(Requests) /\ DOMAIN t = 1 .. Len(q) - 1
    BY <2>3, <2>5
  <2>7. ASSUME NEW i \in 1 .. Len(q) - 1
        PROVE  t[i] = IF i < k THEN q[i] ELSE q[i + 1]
    <3>1. t[i] = IF i < k THEN u[i] ELSE v[i - (k - 1)]
      BY <2>3, <2>5
    <3>2. i < k => i \in 1 .. k - 1
      BY <1>1
    <3>3. ~(i < k) => v[i - (k - 1)] = q[i + 1]
      BY <2>2, <2>4
    <3> QED
      BY <3>1, <3>2, <3>3, <2>1
  <2> QED
    BY <2>6, <2>7
<1> HIDE DEF t
<1>3. Line(t)
  <2> SUFFICES ASSUME NEW i \in 1 .. Len(q) - 1, NEW j \in 1 .. Len(q) - 1, t[i] = t[j]
               PROVE  i = j
    BY <1>2 DEF Line
  <2> DEFINE i2 == IF i < k THEN i ELSE i + 1
             j2 == IF j < k THEN j ELSE j + 1
  <2>1. t[i] = q[i2] /\ t[j] = q[j2] /\ i2 \in 1 .. Len(q) /\ j2 \in 1 .. Len(q)
    BY <1>1, <1>2
  <2>2. i2 = j2
    BY <1>1, <2>1
  <2> QED
    BY <2>2, <1>1
<1>4. Range(t) = Range(q) \ {q[k]}
  <2>1. ASSUME NEW x \in Range(t) PROVE x \in Range(q) /\ x # q[k]
    <3>1. PICK i \in 1 .. Len(q) - 1 : t[i] = x
      BY <1>2, <2>1 DEF Range
    <3> DEFINE m == IF i < k THEN i ELSE i + 1
    <3>2. m \in 1 .. Len(q) /\ m # k /\ q[m] = x
      BY <1>1, <1>2, <3>1
    <3> QED
      BY <1>1, <3>2 DEF Range
  <2>2. ASSUME NEW x \in Range(q), x # q[k] PROVE x \in Range(t)
    <3>1. PICK i \in 1 .. Len(q) : q[i] = x
      BY <1>1 DEF Range
    <3> DEFINE m == IF i < k THEN i ELSE i - 1
    <3>2. i # k
      BY <2>2, <3>1
    <3>3. m \in 1 .. Len(q) - 1 /\ t[m] = x
      BY <1>1, <1>2, <3>1, <3>2
    <3> QED
      BY <1>2, <3>3 DEF Range
  <2> QED
    BY <2>1, <2>2
<1> QED
  BY <1>3, <1>4 DEF t

-----------------------------------------------------------------------------
(* The key for a token *)

\* The least-number principle.
LEMMA LeastNat ==
  ASSUME NEW T \in SUBSET Nat, T # {}
  PROVE  \E x \in T : \A y \in T : x <= y
<1> DEFINE R == OpToRel(<, Nat)
<1>1. IsWellFoundedOn(R, Nat)
  BY NatLessThanWellFounded
<1>2. \A x, y \in Nat : y < x => <<y, x>> \in R
  BY DEF OpToRel
<1> HIDE DEF R
<1>3. PICK x \in T : \A y \in T : ~(<<y, x>> \in R)
  BY <1>1, WFMin
<1>4. ASSUME NEW y \in T PROVE x <= y
  <2>1. x \in Nat /\ y \in Nat
    OBVIOUS
  <2>2. ~(y < x)
    BY <1>2, <1>3, <2>1
  <2> QED
    BY <2>1, <2>2
<1> QED
  BY <1>4

\* Whichever rule a key is chosen by, it is one of the list.
LEMMA KeysAreListed ==
  ASSUME NEW list \in Seq(Jwk), NEW kid
  PROVE  /\ find_key(list, kid) \in Range(list) \cup {None}
         /\ find_fetched(list, kid) \in Range(list) \cup {None}
<1>0. Len(list) \in Nat /\ DOMAIN list = 1 .. Len(list)
  OBVIOUS
<1>1. ASSUME NEW T \in SUBSET (1 .. Len(list)), T # {}
      PROVE  Min(T) \in 1 .. Len(list)
  <2>1. \E x \in T : \A y \in T : x <= y
    BY <1>0, <1>1, LeastNat
  <2> QED
    BY <2>1 DEF Min
<1>2. \A i \in 1 .. Len(list) : list[i] \in Range(list)
  BY <1>0 DEF Range
<1>3. find_key(list, kid) \in Range(list) \cup {None}
  <2> DEFINE I == {i \in 1 .. Len(list) : kid = None \/ list[i].key_id = kid}
             n == IF I # {} THEN Min(I) ELSE 0
  <2>1. find_key(list, kid) = IF n = 0 THEN None ELSE list[n]
    BY DEF find_key, FirstKey, SelectInSeq
  <2>2. I # {} => Min(I) \in 1 .. Len(list)
    BY <1>1
  <2>3. n # 0 => n \in 1 .. Len(list)
    BY <2>2
  <2> HIDE DEF n
  <2> QED
    BY <2>1, <2>3, <1>2
<1>4. find_fetched(list, kid) \in Range(list) \cup {None}
  <2> DEFINE I == {i \in 1 .. Len(list) : list[i].key_id = kid}
             n == IF I # {} THEN Min(I) ELSE 0
  <2>1. find_fetched(list, kid) = IF n = 0 THEN None ELSE list[n]
    BY DEF find_fetched, FirstKey, SelectInSeq
  <2>2. I # {} => Min(I) \in 1 .. Len(list)
    BY <1>1
  <2>3. n # 0 => n \in 1 .. Len(list)
    BY <2>2
  <2> HIDE DEF n
  <2> QED
    BY <2>1, <2>3, <1>2
<1> QED
  BY <1>3, <1>4

\* A list of keys within a time of the publication now in force, as OnlyAuthorised
\* puts it.
LEMMA ListedPairs ==
  ASSUME published \in DOMAIN Publications, rotated \in Int,
         NEW list, NEW time \in Int, PublishedWithin(list, time), time <= Ttl + MaxFetch
  PROVE  /\ list \in Seq(Jwk)
         /\ \A jwk \in Range(list) :
              \/ jwk.pair \in Pairs(published)
              \/ \E p \in 1 .. published - 1 : jwk.pair \in Pairs(p) /\ rotated <= Ttl + MaxFetch
<1> USE AuthAssumption
<1>1. PICK p \in 1 .. published :
         list = Publications[p] /\ (p < published => rotated <= time)
  BY DEF PublishedWithin
<1>2. published \in Nat /\ p \in DOMAIN Publications
  OBVIOUS
<1>3. list \in Seq(Jwk)
  BY <1>1, <1>2
<1>4. ASSUME NEW jwk \in Range(list) PROVE jwk.pair \in Pairs(p)
  BY <1>1, <1>4 DEF Pairs
<1>5. p = published \/ (p \in 1 .. published - 1 /\ rotated <= Ttl + MaxFetch)
  BY <1>1, <1>2
<1> QED
  BY <1>3, <1>4, <1>5

-----------------------------------------------------------------------------
(* One request moves *)

RequestTypes ==
  /\ pc \in [Requests -> Stages]
  /\ req \in [Requests -> Shapes \cup {None}]
  /\ route \in [Requests -> {Matches[c][q] : c \in DOMAIN Configs, q \in Shapes} \cup {None}]
  /\ \A r \in Requests : (pc[r] = "idle") = (req[r] = None) /\ (req[r] = None) = (route[r] = None)
  /\ passed \in [Requests -> SUBSET {"jwt", "api_key"}]

LineTypes ==
  /\ Line(queue)
  /\ \A r \in Requests : (pc[r] \in {"key_read", "key_write"}) = (r \in Range(queue))

WriterTypes ==
  /\ writer \in Requests \cup {None}
  /\ \A r \in Requests : (pc[r] \in {"fetching", "fetched"}) = (writer = r)

KeyTypes ==
  /\ {cache, reply} \subseteq Range(Publications) \cup {None}
  /\ age \in 0 .. Ttl + 1 /\ transit \in 0 .. MaxFetch /\ rotated \in 0 .. MaxRotated
  /\ published \in DOMAIN Publications

StaleTypes == stale \in [Requests -> BOOLEAN]

ReloadTypes ==
  /\ {current, sent, table} \subseteq DOMAIN Configs
  /\ {reader, pending} \subseteq DOMAIN Configs \cup {None}
  /\ {swapped, unseen} \subseteq BOOLEAN

\* Nobody but r is concerned.
Alone(r) ==
  \A s \in Requests \ {r} :
    pc'[s] = pc[s] /\ route'[s] = route[s] /\ passed'[s] = passed[s]

LEMMA GoOnSound ==
  ASSUME RequestTypes, NEW r \in Requests, pc[r] # "idle", NEW stage \in Stages,
         NEW m \in SUBSET {"jwt", "api_key"}, GoOn(r, stage, m)
  PROVE  /\ RequestTypes' /\ Alone(r)
         /\ pc'[r] = stage
         /\ stage = "idle" => passed'[r] = {}
         /\ stage # "idle" => route'[r] = route[r] /\ passed'[r] = passed[r] \cup m
<1>1. /\ pc' = [pc EXCEPT ![r] = stage]
      /\ passed' = [passed EXCEPT ![r] = IF stage = "idle" THEN {} ELSE passed[r] \cup m]
      /\ req' = [req EXCEPT ![r] = IF stage = "idle" THEN None ELSE req[r]]
      /\ route' = [route EXCEPT ![r] = IF stage = "idle" THEN None ELSE route[r]]
  BY DEF GoOn
<1> DEFINE Routes == {Matches[c][q] : c \in DOMAIN Configs, q \in Shapes} \cup {None}
<1>2. /\ pc \in [Requests -> Stages] /\ req \in [Requests -> Shapes \cup {None}]
      /\ route \in [Requests -> Routes] /\ None \in Routes
      /\ \A s \in Requests : (pc[s] = "idle") = (req[s] = None) /\ (req[s] = None) = (route[s] = None)
      /\ passed \in [Requests -> SUBSET {"jwt", "api_key"}]
  BY DEF RequestTypes
<1> HIDE DEF Routes
<1>3. /\ pc' \in [Requests -> Stages] /\ req' \in [Requests -> Shapes \cup {None}]
      /\ route' \in [Requests -> Routes]
      /\ passed' \in [Requests -> SUBSET {"jwt", "api_key"}]
  BY <1>1, <1>2
<1>4. ASSUME NEW s \in Requests
      PROVE  (pc'[s] = "idle") = (req'[s] = None) /\ (req'[s] = None) = (route'[s] = None)
  BY <1>1, <1>2
<1>5. RequestTypes'
  BY <1>3, <1>4 DEF RequestTypes, Routes
<1>6. Alone(r)
  BY <1>1, <1>2 DEF Alone
<1> QED
  BY <1>1, <1>2, <1>5, <1>6

\* The end of the JWT provider: whoever gets past it had a token that the key fits,
\* and whoever is let through at once is asked for nothing more.
LEMMA DecideSound ==
  ASSUME RequestTypes, NEW r \in Requests, pc[r] # "idle", NEW jwk, Decide(r, jwk)
  PROVE  /\ RequestTypes' /\ Alone(r)
         /\ pc'[r] \in {"idle", "limit", "api_key"}
         /\ pc'[r] = "idle" => passed'[r] = {}
         /\ pc'[r] # "idle" => /\ route'[r] = route[r] /\ "jwt" \in passed'[r]
                               /\ jwk # None /\ Token(r).pair = jwk.pair
                               /\ Token(r).alg \notin Symmetric
                               /\ Token(r).aud \in Audience \cup {None}
                               /\ Token(r).iss \in Issuers \cup {None}
         /\ pc'[r] = "limit" => route[r].auth \cap Mandatory \subseteq passed'[r]
<1> DEFINE key == jwk_to_decoding_key(jwk)
           fits == key # None /\ decode(Token(r), key, build_validation(Token(r).alg))
<1>0. {"idle", "limit", "api_key"} \subseteq Stages
  BY DEF Stages, AuthStages
<1>1. CASE ~fits
  <2>1. GoOn(r, "idle", {})
    BY <1>1 DEF Decide, Goto
  <2> QED
    BY <1>0, <2>1, GoOnSound
<1>2. CASE fits
  <2>1. GoOn(r, AfterJwt(r), {"jwt"})
    BY <1>2 DEF Decide
  <2>2. AfterJwt(r) \in {"idle", "limit", "api_key"}
    BY DEF AfterJwt, AfterApiKey
  <2>3. AfterJwt(r) = "limit" => "api_key" \notin route[r].auth /\ ~("mtls" \in route[r].auth /\ MtlsRequired)
    BY DEF AfterJwt, AfterApiKey
  <2>4. /\ RequestTypes' /\ Alone(r) /\ pc'[r] = AfterJwt(r)
        /\ AfterJwt(r) = "idle" => passed'[r] = {}
        /\ AfterJwt(r) # "idle" => route'[r] = route[r] /\ passed'[r] = passed[r] \cup {"jwt"}
    BY <1>0, <2>1, <2>2, GoOnSound
  <2>5. jwk # None /\ key.pair = jwk.pair
    BY <1>2 DEF jwk_to_decoding_key
  <2>6. Token(r).alg \notin Symmetric
    BY <1>2 DEF decode, build_validation, Symmetric
  <2>7. Token(r).pair = key.pair /\ Token(r).aud \in Audience \cup {None}
        /\ Token(r).iss \in Issuers \cup {None}
    BY <1>2 DEF decode, build_validation
  <2>8. AfterJwt(r) = "limit" => route[r].auth \cap Mandatory \subseteq passed'[r]
    BY <2>3, <2>4 DEF Mandatory
  <2> HIDE DEF key, fits
  <2> QED
    BY <2>2, <2>4, <2>5, <2>6, <2>7, <2>8
<1> QED
  BY <1>1, <1>2

-----------------------------------------------------------------------------
(* The invariant of the requests and the keys, action by action *)

AuthInv ==
  /\ RequestTypes /\ LineTypes /\ WriterTypes /\ KeyTypes /\ StaleTypes
  /\ KeysInv /\ JourneyInv

Asking == {"key_read", "key_write"}
Fetching == {"fetching", "fetched"}

LEMMA MarkSound ==
  ASSUME StaleTypes, NEW r \in Requests, NEW used \in BOOLEAN, Mark(r, used)
  PROVE  /\ StaleTypes'
         /\ used /\ pc'[r] # "idle" => stale'[r]
<1>1. (used /\ pc'[r] # "idle") \in BOOLEAN
  OBVIOUS
<1> QED
  BY <1>1 DEF StaleTypes, Mark

\* The request that moves is the only one the journeys, the line and the lock may
\* have to say something new about.
LEMMA JourneysKept ==
  ASSUME JourneyInv, NEW r \in Requests, Alone(r),
         pc'[r] = "api_key" => route'[r].auth \cap {"jwt"} \subseteq passed'[r]
  PROVE  JourneyInv'
<1> SUFFICES ASSUME NEW s \in Requests, pc'[s] = "api_key"
             PROVE  route'[s].auth \cap {"jwt"} \subseteq passed'[s]
  BY DEF JourneyInv
<1>1. CASE s = r
  BY <1>1
<1>2. CASE s # r
  BY <1>2 DEF Alone, JourneyInv
<1> QED
  BY <1>1, <1>2

LEMMA LineKept ==
  ASSUME LineTypes, NEW r \in Requests, Alone(r), Line(queue'),
         IF pc'[r] \in Asking THEN Range(queue') = Range(queue) \cup {r}
                              ELSE Range(queue') = Range(queue) \ {r}
  PROVE  LineTypes'
<1> SUFFICES ASSUME NEW s \in Requests
             PROVE  (pc'[s] \in Asking) = (s \in Range(queue'))
  BY DEF LineTypes, Asking
<1>1. (pc[s] \in Asking) = (s \in Range(queue))
  BY DEF LineTypes, Asking
<1> QED
  BY <1>1 DEF Alone

\* Who is not in line leaves it as it is.
LEMMA LineLeft ==
  ASSUME LineTypes, NEW r \in Requests, Alone(r), UNCHANGED queue,
         (pc'[r] \in Asking) = (pc[r] \in Asking)
  PROVE  LineTypes'
<1>1. (pc[r] \in Asking) = (r \in Range(queue)) /\ Line(queue)
  BY DEF LineTypes, Asking
<1>2. IF pc'[r] \in Asking THEN Range(queue') = Range(queue) \cup {r}
                           ELSE Range(queue') = Range(queue) \ {r}
  BY <1>1
<1> QED
  BY <1>1, <1>2, LineKept

LEMMA WriterLeft ==
  ASSUME WriterTypes, NEW r \in Requests, Alone(r), UNCHANGED writer,
         (pc'[r] \in Fetching) = (pc[r] \in Fetching)
  PROVE  WriterTypes'
BY DEF WriterTypes, Alone, Fetching

LEMMA WriterTakes ==
  ASSUME WriterTypes, NEW r \in Requests, Alone(r), writer = None, writer' = r,
         pc'[r] \in Fetching
  PROVE  WriterTypes'
BY AuthAssumption DEF WriterTypes, Alone, Fetching

LEMMA WriterLetsGo ==
  ASSUME WriterTypes, NEW r \in Requests, Alone(r), writer = r, writer' = None,
         pc'[r] \notin Fetching
  PROVE  WriterTypes'
BY AuthAssumption DEF WriterTypes, Alone, Fetching

\* Nothing happens to the keys.
LEMMA KeysKept ==
  ASSUME KeyTypes, KeysInv, UNCHANGED <<cache, age, reply, transit, issuer>>,
         \A s \in Requests : pc'[s] = "fetched" => pc[s] = "fetched",
         writer' # None => writer' = writer \/ ~Fresh
  PROVE  KeyTypes' /\ KeysInv'
<1>1. published' = published /\ rotated' = rotated
  BY DEF issuer
<1>2. KeyTypes'
  BY <1>1 DEF KeyTypes
<1>3. Fresh' = Fresh
  BY DEF Fresh
<1>4. /\ cache' # None => PublishedWithin(cache, age + MaxFetch)'
      /\ reply' # None => PublishedWithin(reply, transit)'
  BY <1>1 DEF KeysInv, PublishedWithin
<1>5. \A s \in Requests : pc'[s] = "fetched" => reply' # None
  BY DEF KeysInv
<1>6. writer' # None => ~Fresh'
  BY <1>3 DEF KeysInv
<1> QED
  BY <1>2, <1>4, <1>5, <1>6 DEF KeysInv

\* A step that has nothing to do with the keys or the line.
LEMMA QuietMove ==
  ASSUME AuthInv, NEW r \in Requests, Alone(r), RequestTypes', StaleTypes',
         pc[r] \notin Asking \cup Fetching, pc'[r] \notin Asking \cup Fetching,
         UNCHANGED <<keys, issuer>>,
         pc'[r] = "api_key" => route'[r].auth \cap {"jwt"} \subseteq passed'[r]
  PROVE  AuthInv'
<1>1. UNCHANGED <<queue, writer, cache, age, reply, transit, issuer>>
  BY DEF keys
<1>2. LineTypes'
  BY <1>1, LineLeft DEF AuthInv
<1>3. WriterTypes'
  BY <1>1, WriterLeft DEF AuthInv
<1>4. JourneyInv'
  BY JourneysKept DEF AuthInv
<1>5. \A s \in Requests : pc'[s] = "fetched" => pc[s] = "fetched"
  BY DEF Alone, Fetching
<1>6. KeyTypes' /\ KeysInv'
  BY <1>1, <1>5, KeysKept DEF AuthInv
<1> QED
  BY <1>2, <1>3, <1>4, <1>6 DEF AuthInv

\* A request arrives at the router of the moment.
LEMMA ArriveKeeps ==
  ASSUME AuthInv, ReloadTypes, NEW r \in Requests, NEW q \in Shapes, Arrive(r, q)
  PROVE  AuthInv'
<1> DEFINE Routes == {Matches[c][p] : c \in DOMAIN Configs, p \in Shapes} \cup {None}
           m == Matches[table][q]
<1>0. q # None
  BY PipelineAssumption
<1>1. m \in Routes
  BY DEF ReloadTypes
<1>2. /\ pc[r] = "idle" /\ m # None
      /\ pc' = [pc EXCEPT ![r] = "gate"] /\ req' = [req EXCEPT ![r] = q]
      /\ route' = [route EXCEPT ![r] = m]
      /\ UNCHANGED <<keys, issuer, passed, stale>>
  BY DEF Arrive
<1>3. /\ pc \in [Requests -> Stages] /\ req \in [Requests -> Shapes \cup {None}]
      /\ route \in [Requests -> Routes]
      /\ \A s \in Requests : (pc[s] = "idle") = (req[s] = None) /\ (req[s] = None) = (route[s] = None)
      /\ passed \in [Requests -> SUBSET {"jwt", "api_key"}]
  BY DEF AuthInv, RequestTypes
<1> HIDE DEF m, Routes
<1>4. /\ pc' \in [Requests -> Stages] /\ req' \in [Requests -> Shapes \cup {None}]
      /\ route' \in [Requests -> Routes]
      /\ passed' \in [Requests -> SUBSET {"jwt", "api_key"}]
  <2>1. "gate" \in Stages
    BY DEF Stages
  <2> QED
    BY <1>1, <1>2, <1>3, <2>1
<1>5. \A s \in Requests : (pc'[s] = "idle") = (req'[s] = None) /\ (req'[s] = None) = (route'[s] = None)
  BY <1>0, <1>2, <1>3
<1>6. RequestTypes'
  BY <1>4, <1>5 DEF RequestTypes, Routes
<1>7. Alone(r) /\ pc'[r] = "gate"
  BY <1>2, <1>3 DEF Alone
<1>8. StaleTypes'
  BY <1>2 DEF AuthInv, StaleTypes
<1>9. pc[r] \notin Asking \cup Fetching /\ pc'[r] \notin Asking \cup Fetching
  BY <1>2, <1>7 DEF Asking, Fetching
<1> QED
  BY <1>2, <1>6, <1>7, <1>8, <1>9, QuietMove

\* It has passed the gate: the first provider takes it as far as its first await.
LEMMA AdmitKeeps ==
  ASSUME AuthInv, NEW r \in Requests, Admit(r)
  PROVE  AuthInv' /\ (pc'[r] = "limit" => route[r].auth \cap Mandatory \subseteq passed'[r])
                  /\ Alone(r) /\ passed'[r] \subseteq passed[r]
<1> DEFINE stage == AuthStart(r)
<1>0. stage \in {"key_read", "api_key", "limit", "idle"}
  BY DEF AuthStart, AfterJwt, AfterApiKey
<1>1. /\ pc[r] = "gate" /\ GoOn(r, stage, {})
      /\ queue' = IF stage = "key_read" THEN Append(queue, r) ELSE queue
      /\ UNCHANGED <<writer, cache, age, reply, transit, issuer, stale>>
  BY DEF Admit, Goto
<1>2. /\ stage \in {"api_key", "limit"} => "jwt" \notin route[r].auth
      /\ stage = "limit" => "api_key" \notin route[r].auth /\ ~("mtls" \in route[r].auth /\ MtlsRequired)
  BY DEF AuthStart, AfterJwt, AfterApiKey
<1> HIDE DEF stage
<1>3. stage \in Stages
  BY <1>0 DEF Stages, AuthStages
<1>4. /\ RequestTypes' /\ Alone(r) /\ pc'[r] = stage
      /\ stage = "idle" => passed'[r] = {}
      /\ stage # "idle" => route'[r] = route[r] /\ passed'[r] = passed[r] \cup {}
  <2>1. pc[r] # "idle"
    BY <1>1
  <2> QED
    BY <1>1, <1>3, <2>1, GoOnSound DEF AuthInv
<1>5. LineTypes'
  <2>1. Line(queue) /\ r \notin Range(queue)
    BY <1>1 DEF AuthInv, LineTypes
  <2>2. CASE stage = "key_read"
    <3>1. Line(queue') /\ Range(queue') = Range(queue) \cup {r}
      BY <1>1, <2>1, <2>2, LineAppend
    <3>2. pc'[r] \in Asking
      BY <1>4, <2>2 DEF Asking
    <3> QED
      BY <3>1, <3>2, <1>4, LineKept DEF AuthInv
  <2>3. CASE stage # "key_read"
    <3>1. pc[r] \notin Asking /\ pc'[r] \notin Asking /\ UNCHANGED queue
      BY <1>0, <1>1, <1>4, <2>3 DEF Asking
    <3> QED
      BY <3>1, <1>4, LineLeft DEF AuthInv
  <2> QED
    BY <2>2, <2>3
<1>6. WriterTypes'
  <2>1. pc[r] \notin Fetching /\ pc'[r] \notin Fetching
    BY <1>0, <1>1, <1>4 DEF Fetching
  <2> QED
    BY <1>1, <1>4, <2>1, WriterLeft DEF AuthInv
<1>7. KeyTypes' /\ KeysInv'
  <2>1. \A s \in Requests : pc'[s] = "fetched" => pc[s] = "fetched"
    BY <1>0, <1>4 DEF Alone
  <2> QED
    BY <1>1, <2>1, KeysKept DEF AuthInv
<1>8. StaleTypes'
  BY <1>1 DEF AuthInv, StaleTypes
<1>9. JourneyInv'
  <2>1. pc'[r] = "api_key" => route'[r].auth \cap {"jwt"} \subseteq passed'[r]
    BY <1>2, <1>4
  <2> QED
    BY <2>1, <1>4, JourneysKept DEF AuthInv
<1>10. pc'[r] = "limit" => route[r].auth \cap Mandatory \subseteq passed'[r]
  BY <1>2, <1>4 DEF Mandatory
<1>11. passed'[r] \subseteq passed[r]
  BY <1>4
<1> QED
  BY <1>4, <1>5, <1>6, <1>7, <1>8, <1>9, <1>10, <1>11 DEF AuthInv

\* The stages before and after authentication.
LEMMA PassKeeps ==
  ASSUME AuthInv, NEW r \in Requests,
         NEW from \in {"gate", "limit", "lookup", "send"},
         NEW to \in {"idle", "lookup", "send"}, Pass(r, from, to)
  PROVE  AuthInv' /\ Alone(r) /\ pc'[r] # "limit" /\ passed'[r] \subseteq passed[r]
<1>1. /\ pc[r] = from /\ GoOn(r, to, {}) /\ Mark(r, FALSE) /\ UNCHANGED <<keys, issuer>>
  BY DEF Pass, Goto
<1>2. pc[r] # "idle" /\ to \in Stages
  BY <1>1 DEF Stages
<1>3. /\ RequestTypes' /\ Alone(r) /\ pc'[r] = to
      /\ to = "idle" => passed'[r] = {}
      /\ to # "idle" => route'[r] = route[r] /\ passed'[r] = passed[r] \cup {}
  BY <1>1, <1>2, GoOnSound DEF AuthInv
<1>4. StaleTypes'
  BY <1>1, MarkSound DEF AuthInv
<1>5. pc[r] \notin Asking \cup Fetching /\ pc'[r] \notin Asking \cup Fetching
  BY <1>1, <1>3 DEF Asking, Fetching
<1>6. AuthInv'
  BY <1>1, <1>3, <1>4, <1>5, QuietMove
<1> QED
  BY <1>3, <1>6

\* ApiKeyProvider has its answer.
LEMMA ApiKeyKeeps ==
  ASSUME AuthInv, NEW r \in Requests, ApiKeyAccepted(r) \/ ApiKeyRefused(r)
  PROVE  /\ AuthInv' /\ Alone(r)
         /\ pc'[r] = "limit" => route[r].auth \cap Mandatory \subseteq passed'[r]
         /\ "jwt" \in passed'[r] => "jwt" \in passed[r]
<1>1. pc[r] = "api_key" /\ UNCHANGED <<keys, issuer>>
  BY DEF ApiKeyAccepted, ApiKeyRefused
<1>2. route[r].auth \cap {"jwt"} \subseteq passed[r]
  BY <1>1 DEF AuthInv, JourneyInv
<1>3. CASE ApiKeyAccepted(r)
  <2> DEFINE stage == AfterApiKey(r)
  <2>1. stage \in {"idle", "limit"} /\ (stage = "limit" => ~("mtls" \in route[r].auth /\ MtlsRequired))
    BY DEF AfterApiKey
  <2>2. GoOn(r, stage, {"api_key"}) /\ Mark(r, stale[r])
    BY <1>3 DEF ApiKeyAccepted
  <2> HIDE DEF stage
  <2>3. stage \in Stages /\ pc[r] # "idle"
    BY <1>1, <2>1 DEF Stages
  <2>4. /\ RequestTypes' /\ Alone(r) /\ pc'[r] = stage
        /\ stage = "idle" => passed'[r] = {}
        /\ stage # "idle" => route'[r] = route[r] /\ passed'[r] = passed[r] \cup {"api_key"}
    BY <2>2, <2>3, GoOnSound DEF AuthInv
  <2>5. stale[r] \in BOOLEAN
    BY DEF AuthInv, StaleTypes
  <2>6. StaleTypes'
    BY <2>2, <2>5, MarkSound DEF AuthInv
  <2>7. pc[r] \notin Asking \cup Fetching /\ pc'[r] \notin Asking \cup Fetching /\ pc'[r] # "api_key"
    BY <1>1, <2>1, <2>4 DEF Asking, Fetching
  <2>8. AuthInv'
    BY <1>1, <2>4, <2>6, <2>7, QuietMove
  <2>9. pc'[r] = "limit" => route[r].auth \cap Mandatory \subseteq passed'[r]
    BY <1>2, <2>1, <2>4 DEF Mandatory
  <2> QED
    BY <2>4, <2>8, <2>9
<1>4. CASE ApiKeyRefused(r)
  <2>1. GoOn(r, "idle", {}) /\ Mark(r, FALSE)
    BY <1>4 DEF ApiKeyRefused, Goto
  <2>2. "idle" \in Stages /\ pc[r] # "idle"
    BY <1>1 DEF Stages
  <2>3. RequestTypes' /\ Alone(r) /\ pc'[r] = "idle" /\ passed'[r] = {}
    BY <2>1, <2>2, GoOnSound DEF AuthInv
  <2>4. StaleTypes'
    BY <2>1, MarkSound DEF AuthInv
  <2>5. pc[r] \notin Asking \cup Fetching /\ pc'[r] \notin Asking \cup Fetching /\ pc'[r] # "api_key"
    BY <1>1, <2>3 DEF Asking, Fetching
  <2>6. AuthInv'
    BY <1>1, <2>3, <2>4, <2>5, QuietMove
  <2> QED
    BY <2>3, <2>6
<1> QED
  BY <1>3, <1>4

-----------------------------------------------------------------------------
(* The steps with the keys *)

\* A decision on keys that are recent enough.
LEMMA RecentKeysAuthorise ==
  ASSUME AuthInv, NEW r \in Requests, pc[r] # "idle",
         NEW list, NEW time \in Int, time <= Ttl + MaxFetch, PublishedWithin(list, time),
         NEW jwk \in {find_key(list, Token(r).kid), find_fetched(list, Token(r).kid)},
         Decide(r, jwk)
  PROVE  Authorised(r)
<1> DEFINE Known(x) == \/ x \in Pairs(published)
                       \/ \E p \in 1 .. published - 1 : x \in Pairs(p) /\ rotated <= Ttl + MaxFetch
<1>1. published \in DOMAIN Publications /\ rotated \in Int
  BY AuthAssumption DEF AuthInv, KeyTypes
<1>2. list \in Seq(Jwk) /\ \A k \in Range(list) : Known(k.pair)
  BY <1>1, ListedPairs
<1>3. jwk \in Range(list) \cup {None}
  BY <1>2, KeysAreListed
<1>4. /\ pc'[r] = "idle" => passed'[r] = {}
      /\ pc'[r] # "idle" => /\ jwk # None /\ Token(r).pair = jwk.pair
                            /\ Token(r).alg \notin Symmetric
                            /\ Token(r).aud \in Audience \cup {None}
                            /\ Token(r).iss \in Issuers \cup {None}
      /\ pc'[r] = "limit" => route[r].auth \cap Mandatory \subseteq passed'[r]
  BY DecideSound DEF AuthInv
<1>5. pc'[r] # "idle" => Known(Token(r).pair)
  BY <1>2, <1>3, <1>4
<1> QED
  BY <1>4, <1>5 DEF Authorised

\* Under the lock with keys that are good, the request decides and leaves the line;
\* otherwise it asks for the lock again.
LEMMA ReadKeysKeeps ==
  ASSUME AuthInv, NEW r \in Requests, ReadKeys(r)
  PROVE  AuthInv' /\ Alone(r) /\ Authorised(r)
<1>1. /\ pc[r] = "key_read" /\ writer = None /\ Head(queue) = r /\ Mark(r, FALSE)
      /\ UNCHANGED <<writer, cache, age, reply, transit, issuer>>
  BY DEF ReadKeys
<1>2. pc[r] # "idle" /\ Line(queue) /\ r \in Range(queue) /\ queue # <<>>
  BY <1>1 DEF AuthInv, LineTypes, Range
<1>3. Line(Tail(queue)) /\ Range(Tail(queue)) = Range(queue) \ {r}
  BY <1>1, <1>2, LineTail
<1>4. StaleTypes'
  BY <1>1, MarkSound DEF AuthInv
<1>5. CASE Fresh
  <2> DEFINE jwk == find_key(cache, Token(r).kid)
  <2>1. Decide(r, jwk) /\ queue' = Tail(queue)
    BY <1>5 DEF ReadKeys
  <2>2. /\ RequestTypes' /\ Alone(r) /\ pc'[r] \in {"idle", "limit", "api_key"}
        /\ pc'[r] # "idle" => "jwt" \in passed'[r]
    BY <1>2, <2>1, DecideSound DEF AuthInv
  <2>3. PublishedWithin(cache, age + MaxFetch) /\ age + MaxFetch \in Int /\ age + MaxFetch <= Ttl + MaxFetch
    BY <1>5, AuthAssumption DEF AuthInv, KeysInv, KeyTypes, Fresh
  <2>4. Authorised(r)
    BY <1>2, <2>1, <2>3, RecentKeysAuthorise
  <2> HIDE DEF jwk
  <2>5. LineTypes'
    BY <1>3, <2>1, <2>2, LineKept DEF AuthInv, Asking
  <2>6. WriterTypes'
    BY <1>1, <2>2, WriterLeft DEF AuthInv, Fetching
  <2>7. KeyTypes' /\ KeysInv'
    <3>1. \A s \in Requests : pc'[s] = "fetched" => pc[s] = "fetched"
      BY <2>2 DEF Alone
    <3> QED
      BY <1>1, <3>1, KeysKept DEF AuthInv
  <2>8. JourneyInv'
    BY <2>2, JourneysKept DEF AuthInv
  <2> QED
    BY <1>4, <2>2, <2>4, <2>5, <2>6, <2>7, <2>8 DEF AuthInv
<1>6. CASE ~Fresh
  <2>1. GoOn(r, "key_write", {}) /\ queue' = Append(Tail(queue), r)
    BY <1>6 DEF ReadKeys, Goto
  <2>2. "key_write" \in Stages
    BY DEF Stages, AuthStages
  <2>3. RequestTypes' /\ Alone(r) /\ pc'[r] = "key_write" /\ passed'[r] = passed[r] \cup {}
    BY <1>2, <2>1, <2>2, GoOnSound DEF AuthInv
  <2>4. Authorised(r)
    BY <2>3 DEF Authorised
  <2>5. LineTypes'
    <3>1. Line(queue') /\ Range(queue') = Range(queue) \cup {r}
      BY <1>2, <1>3, <2>1, LineAppend
    <3> QED
      BY <2>3, <3>1, LineKept DEF AuthInv, Asking
  <2>6. WriterTypes'
    BY <1>1, <2>3, WriterLeft DEF AuthInv, Fetching
  <2>7. KeyTypes' /\ KeysInv'
    <3>1. \A s \in Requests : pc'[s] = "fetched" => pc[s] = "fetched"
      BY <2>3 DEF Alone
    <3> QED
      BY <1>1, <3>1, KeysKept DEF AuthInv
  <2>8. JourneyInv'
    BY <2>3, JourneysKept DEF AuthInv
  <2> QED
    BY <1>4, <2>3, <2>4, <2>5, <2>6, <2>7, <2>8 DEF AuthInv
<1> QED
  BY <1>5, <1>6

\* The second look: the lock is kept for a fetch only if the cache is still not good.
LEMMA LockKeysKeeps ==
  ASSUME AuthInv, NEW r \in Requests, LockKeys(r)
  PROVE  AuthInv' /\ Alone(r) /\ Authorised(r)
<1>1. /\ pc[r] = "key_write" /\ writer = None /\ Head(queue) = r /\ Mark(r, FALSE)
      /\ queue' = Tail(queue)
      /\ UNCHANGED <<cache, age, reply, transit, issuer>>
  BY DEF LockKeys
<1>2. pc[r] # "idle" /\ Line(queue) /\ r \in Range(queue) /\ queue # <<>>
  BY <1>1 DEF AuthInv, LineTypes, Range
<1>3. Line(queue') /\ Range(queue') = Range(queue) \ {r}
  BY <1>1, <1>2, LineTail
<1>4. StaleTypes'
  BY <1>1, MarkSound DEF AuthInv
<1>5. CASE Fresh
  <2> DEFINE jwk == find_key(cache, Token(r).kid)
  <2>1. Decide(r, jwk) /\ UNCHANGED writer
    BY <1>5 DEF LockKeys
  <2>2. /\ RequestTypes' /\ Alone(r) /\ pc'[r] \in {"idle", "limit", "api_key"}
        /\ pc'[r] # "idle" => "jwt" \in passed'[r]
    BY <1>2, <2>1, DecideSound DEF AuthInv
  <2>3. PublishedWithin(cache, age + MaxFetch) /\ age + MaxFetch \in Int /\ age + MaxFetch <= Ttl + MaxFetch
    BY <1>5, AuthAssumption DEF AuthInv, KeysInv, KeyTypes, Fresh
  <2>4. Authorised(r)
    BY <1>2, <2>1, <2>3, RecentKeysAuthorise
  <2> HIDE DEF jwk
  <2>5. LineTypes'
    BY <1>3, <2>2, LineKept DEF AuthInv, Asking
  <2>6. WriterTypes'
    BY <1>1, <2>1, <2>2, WriterLeft DEF AuthInv, Fetching
  <2>7. KeyTypes' /\ KeysInv'
    <3>1. \A s \in Requests : pc'[s] = "fetched" => pc[s] = "fetched"
      BY <2>2 DEF Alone
    <3> QED
      BY <1>1, <2>1, <3>1, KeysKept DEF AuthInv
  <2>8. JourneyInv'
    BY <2>2, JourneysKept DEF AuthInv
  <2> QED
    BY <1>4, <2>2, <2>4, <2>5, <2>6, <2>7, <2>8 DEF AuthInv
<1>6. CASE ~Fresh
  <2>1. GoOn(r, "fetching", {}) /\ writer' = r
    BY <1>6 DEF LockKeys, Goto
  <2>2. "fetching" \in Stages
    BY DEF Stages, AuthStages
  <2>3. RequestTypes' /\ Alone(r) /\ pc'[r] = "fetching" /\ passed'[r] = passed[r] \cup {}
    BY <1>2, <2>1, <2>2, GoOnSound DEF AuthInv
  <2>4. Authorised(r)
    BY <2>3 DEF Authorised
  <2>5. LineTypes'
    BY <1>3, <2>3, LineKept DEF AuthInv, Asking
  <2>6. WriterTypes'
    BY <1>1, <2>1, <2>3, WriterTakes DEF AuthInv, Fetching
  <2>7. KeyTypes' /\ KeysInv'
    <3>1. \A s \in Requests : pc'[s] = "fetched" => pc[s] = "fetched"
      BY <2>3 DEF Alone
    <3> QED
      BY <1>1, <1>6, <3>1, KeysKept DEF AuthInv
  <2>8. JourneyInv'
    BY <2>3, JourneysKept DEF AuthInv
  <2> QED
    BY <1>4, <2>3, <2>4, <2>5, <2>6, <2>7, <2>8 DEF AuthInv
<1> QED
  BY <1>5, <1>6

\* The one who fetches is the one who holds the lock, and there is only one.
LEMMA OneFetches ==
  ASSUME AuthInv, NEW r \in Requests, pc[r] \in Fetching
  PROVE  /\ writer = r /\ writer # None /\ ~Fresh
         /\ \A s \in Requests \ {r} : pc[s] \notin Fetching
         /\ pc[r] \notin Asking /\ pc[r] # "idle"
BY AuthAssumption DEF AuthInv, WriterTypes, KeysInv, Fetching, Asking

\* The issuer's answer is the publication now in force.
LEMMA AnswerKeeps ==
  ASSUME AuthInv, NEW r \in Requests, IssuerAnswers(r)
  PROVE  AuthInv' /\ Alone(r) /\ Authorised(r)
<1>1. /\ pc[r] = "fetching" /\ reply' = Publications[published] /\ GoOn(r, "fetched", {})
      /\ UNCHANGED <<queue, writer, cache, age, transit, published, rotated, stale>>
  BY DEF IssuerAnswers, Goto, issuer
<1>2. pc[r] \in Fetching
  BY <1>1 DEF Fetching
<1>3. /\ writer = r /\ ~Fresh /\ pc[r] # "idle" /\ pc[r] \notin Asking
      /\ \A s \in Requests \ {r} : pc[s] \notin Fetching
  BY <1>2, OneFetches
<1>4. "fetched" \in Stages
  BY DEF Stages, AuthStages
<1>5. RequestTypes' /\ Alone(r) /\ pc'[r] = "fetched" /\ passed'[r] = passed[r] \cup {}
  BY <1>1, <1>3, <1>4, GoOnSound DEF AuthInv
<1>6. Authorised(r)
  BY <1>5 DEF Authorised
<1>7. LineTypes'
  BY <1>1, <1>3, <1>5, LineLeft DEF AuthInv, Asking
<1>8. WriterTypes'
  BY <1>1, <1>2, <1>5, WriterLeft DEF AuthInv, Fetching
<1>9. published \in DOMAIN Publications /\ published \in 1 .. published
  BY AuthAssumption DEF AuthInv, KeyTypes
<1>10. reply' # None /\ reply' \in Range(Publications)
  <2>1. Publications[published] \in Seq(Jwk)
    BY <1>9, AuthAssumption
  <2> QED
    BY <1>1, <1>9, <2>1, AuthAssumption DEF Range
<1>11. KeyTypes'
  BY <1>1, <1>10 DEF AuthInv, KeyTypes
<1>12. KeysInv'
  <2>1. Fresh' = Fresh
    BY <1>1 DEF Fresh
  <2>2. cache' # None => PublishedWithin(cache, age + MaxFetch)'
    BY <1>1 DEF AuthInv, KeysInv, PublishedWithin
  <2>3. PublishedWithin(reply, transit)'
    <3>1. ~(published < published)
      BY <1>9, AuthAssumption
    <3> QED
      BY <1>1, <1>9, <3>1 DEF PublishedWithin
  <2> QED
    BY <1>3, <1>10, <2>1, <2>2, <2>3 DEF KeysInv
<1>13. StaleTypes'
  BY <1>1 DEF AuthInv, StaleTypes
<1>14. JourneyInv'
  BY <1>5, JourneysKept DEF AuthInv
<1> QED
  BY <1>5, <1>6, <1>7, <1>8, <1>11, <1>12, <1>13, <1>14 DEF AuthInv

\* The answer becomes the cache, no older than its way took.
LEMMA ArrivalKeeps ==
  ASSUME AuthInv, NEW r \in Requests, FetchArrives(r)
  PROVE  AuthInv' /\ Alone(r) /\ Authorised(r) /\ ~Fresh
<1> DEFINE jwk == find_fetched(reply, Token(r).kid)
<1>1. /\ pc[r] = "fetched" /\ cache' = reply /\ age' = 0 /\ reply' = None /\ transit' = 0
      /\ writer' = None /\ Decide(r, jwk) /\ Mark(r, FALSE)
      /\ UNCHANGED <<queue, published, rotated>>
  BY DEF FetchArrives, issuer
<1>2. pc[r] \in Fetching
  BY <1>1 DEF Fetching
<1>3. /\ writer = r /\ ~Fresh /\ pc[r] # "idle" /\ pc[r] \notin Asking
      /\ \A s \in Requests \ {r} : pc[s] \notin Fetching
  BY <1>2, OneFetches
<1>4. /\ PublishedWithin(reply, transit) /\ reply # None
      /\ transit \in Int /\ transit <= MaxFetch /\ transit <= Ttl + MaxFetch
  BY <1>1, AuthAssumption DEF AuthInv, KeysInv, KeyTypes
<1>5. /\ RequestTypes' /\ Alone(r) /\ pc'[r] \in {"idle", "limit", "api_key"}
      /\ pc'[r] # "idle" => "jwt" \in passed'[r]
  BY <1>1, <1>3, DecideSound DEF AuthInv
<1>6. Authorised(r)
  BY <1>1, <1>3, <1>4, RecentKeysAuthorise
<1> HIDE DEF jwk
<1>7. LineTypes'
  BY <1>1, <1>3, <1>5, LineLeft DEF AuthInv, Asking
<1>8. WriterTypes'
  BY <1>1, <1>3, <1>5, WriterLetsGo DEF AuthInv, Fetching
<1>9. KeyTypes'
  BY <1>1, <1>4, AuthAssumption DEF AuthInv, KeyTypes
<1>10. KeysInv'
  <2>1. PublishedWithin(cache, age + MaxFetch)'
    <3>1. PICK p \in 1 .. published :
             reply = Publications[p] /\ (p < published => rotated <= transit)
      BY <1>4 DEF PublishedWithin
    <3>2. p < published => rotated <= 0 + MaxFetch
      BY <3>1, <1>4, AuthAssumption DEF AuthInv, KeyTypes
    <3> QED
      BY <1>1, <3>1, <3>2 DEF PublishedWithin
  <2>2. \A s \in Requests : pc'[s] # "fetched"
    BY <1>3, <1>5 DEF Alone, Fetching
  <2> QED
    BY <1>1, <2>1, <2>2 DEF KeysInv
<1>11. StaleTypes'
  BY <1>1, MarkSound DEF AuthInv
<1>12. JourneyInv'
  BY <1>5, JourneysKept DEF AuthInv
<1> QED
  BY <1>3, <1>5, <1>6, <1>7, <1>8, <1>9, <1>10, <1>11, <1>12 DEF AuthInv

\* Without an answer the lock is given back and the old keys, if any, decide.
LEMMA FailureKeeps ==
  ASSUME AuthInv, NEW r \in Requests, FetchFails(r)
  PROVE  AuthInv' /\ Alone(r) /\ Authorised(r)
<1> DEFINE jwk == find_key(cache, Token(r).kid)
<1>1. /\ pc[r] \in Fetching /\ reply' = None /\ transit' = 0 /\ writer' = None
      /\ Goto(r, "idle") \/ Decide(r, jwk)
      /\ Mark(r, TRUE)
      /\ UNCHANGED <<queue, cache, age, published, rotated>>
  BY DEF FetchFails, issuer, Fetching
<1> HIDE DEF jwk
<1>2. /\ writer = r /\ ~Fresh /\ pc[r] # "idle" /\ pc[r] \notin Asking
      /\ \A s \in Requests \ {r} : pc[s] \notin Fetching
  BY <1>1, OneFetches
<1>3. /\ RequestTypes' /\ Alone(r) /\ pc'[r] \in {"idle", "limit", "api_key"}
      /\ pc'[r] = "idle" => passed'[r] = {}
      /\ pc'[r] # "idle" => /\ "jwt" \in passed'[r]
                            /\ Token(r).alg \notin Symmetric
                            /\ Token(r).aud \in Audience \cup {None}
                            /\ Token(r).iss \in Issuers \cup {None}
      /\ pc'[r] = "limit" => route[r].auth \cap Mandatory \subseteq passed'[r]
  <2>1. CASE Goto(r, "idle")
    <3>1. "idle" \in Stages /\ GoOn(r, "idle", {})
      BY <2>1 DEF Stages, Goto
    <3>2. RequestTypes' /\ Alone(r) /\ pc'[r] = "idle" /\ passed'[r] = {}
      BY <1>2, <3>1, GoOnSound DEF AuthInv
    <3> QED
      BY <3>2
  <2>2. CASE Decide(r, jwk)
    BY <1>2, <2>2, DecideSound DEF AuthInv
  <2> QED
    BY <1>1, <2>1, <2>2
<1>4. StaleTypes' /\ (pc'[r] # "idle" => stale'[r])
  BY <1>1, MarkSound DEF AuthInv
<1>5. Authorised(r)
  BY <1>3, <1>4 DEF Authorised
<1>6. LineTypes'
  BY <1>1, <1>2, <1>3, LineLeft DEF AuthInv, Asking
<1>7. WriterTypes'
  BY <1>1, <1>2, <1>3, WriterLetsGo DEF AuthInv, Fetching
<1>8. KeyTypes'
  BY <1>1, AuthAssumption DEF AuthInv, KeyTypes
<1>9. KeysInv'
  <2>1. cache' # None => PublishedWithin(cache, age + MaxFetch)'
    BY <1>1 DEF AuthInv, KeysInv, PublishedWithin
  <2>2. \A s \in Requests : pc'[s] # "fetched"
    BY <1>2, <1>3 DEF Alone, Fetching
  <2> QED
    BY <1>1, <2>1, <2>2 DEF KeysInv
<1>10. JourneyInv'
  BY <1>3, JourneysKept DEF AuthInv
<1> QED
  BY <1>3, <1>4, <1>5, <1>6, <1>7, <1>8, <1>9, <1>10 DEF AuthInv

\* The client goes away: its place in line, or the lock and the answer under way,
\* go with it.
LEMMA CancelKeeps ==
  ASSUME AuthInv, NEW r \in Requests, Cancel(r)
  PROVE  AuthInv' /\ Alone(r) /\ pc'[r] = "idle" /\ passed'[r] = {}
<1>1. /\ pc[r] # "idle" /\ GoOn(r, "idle", {}) /\ Mark(r, FALSE)
      /\ \/ \E i \in DOMAIN queue : queue[i] = r /\ queue' = RemoveAt(queue, i)
         \/ r \notin Range(queue) /\ UNCHANGED queue
      /\ writer' = IF writer = r THEN None ELSE writer
      /\ reply' = IF writer = r THEN None ELSE reply
      /\ transit' = IF writer = r THEN 0 ELSE transit
      /\ UNCHANGED <<cache, age, published, rotated>>
  BY DEF Cancel, Goto, DropAuth, issuer
<1>2. "idle" \in Stages
  BY DEF Stages
<1>3. RequestTypes' /\ Alone(r) /\ pc'[r] = "idle" /\ passed'[r] = {}
  BY <1>1, <1>2, GoOnSound DEF AuthInv
<1>4. StaleTypes'
  BY <1>1, MarkSound DEF AuthInv
<1>5. Line(queue') /\ Range(queue') = Range(queue) \ {r}
  <2>1. Line(queue)
    BY DEF AuthInv, LineTypes
  <2>2. CASE \E i \in DOMAIN queue : queue[i] = r /\ queue' = RemoveAt(queue, i)
    BY <2>1, <2>2, LineRemove
  <2>3. CASE r \notin Range(queue) /\ UNCHANGED queue
    BY <2>1, <2>3
  <2> QED
    BY <1>1, <2>2, <2>3
<1>6. LineTypes'
  BY <1>3, <1>5, LineKept DEF AuthInv, Asking
<1>7. JourneyInv'
  BY <1>3, JourneysKept DEF AuthInv
<1>8. CASE writer = r
  <2>1. pc[r] \in Fetching
    BY <1>8 DEF AuthInv, WriterTypes, Fetching
  <2>2. \A s \in Requests \ {r} : pc[s] \notin Fetching
    BY <2>1, OneFetches
  <2>3. WriterTypes'
    BY <1>1, <1>3, <1>8, WriterLetsGo DEF AuthInv, Fetching
  <2>4. KeyTypes'
    BY <1>1, <1>8, AuthAssumption DEF AuthInv, KeyTypes
  <2>5. KeysInv'
    <3>1. cache' # None => PublishedWithin(cache, age + MaxFetch)'
      BY <1>1 DEF AuthInv, KeysInv, PublishedWithin
    <3>2. \A s \in Requests : pc'[s] # "fetched"
      BY <1>3, <2>2 DEF Alone, Fetching
    <3> QED
      BY <1>1, <1>8, <3>1, <3>2 DEF KeysInv
  <2> QED
    BY <1>3, <1>4, <1>6, <1>7, <2>3, <2>4, <2>5 DEF AuthInv
<1>9. CASE writer # r
  <2>1. pc[r] \notin Fetching
    BY <1>9 DEF AuthInv, WriterTypes, Fetching
  <2>2. UNCHANGED <<writer, reply, transit, cache, age, issuer>>
    BY <1>1, <1>9 DEF issuer
  <2>3. WriterTypes'
    BY <1>3, <2>1, <2>2, WriterLeft DEF AuthInv, Fetching
  <2>4. \A s \in Requests : pc'[s] = "fetched" => pc[s] = "fetched"
    BY <1>3 DEF Alone
  <2>5. KeyTypes' /\ KeysInv'
    BY <2>2, <2>4, KeysKept DEF AuthInv
  <2> QED
    BY <1>3, <1>4, <1>6, <1>7, <2>3, <2>5 DEF AuthInv
<1> QED
  BY <1>3, <1>8, <1>9

\* Time: the keys and the publication grow old together.
LEMMA TickKeeps ==
  ASSUME AuthInv, AuthTick
  PROVE  AuthInv' /\ (Fresh => age' >= age)
<1>0. /\ Ttl \in Nat /\ MaxFetch \in Nat /\ MaxRotated = Ttl + MaxFetch + 1
      /\ age \in 0 .. Ttl + 1 /\ transit \in 0 .. MaxFetch /\ rotated \in 0 .. MaxRotated
      /\ published \in DOMAIN Publications /\ published \in Nat
  BY AuthAssumption DEF AuthInv, KeyTypes, MaxRotated
<1>1. /\ transit < MaxFetch \/ reply = None
      /\ age' = IF cache = None THEN 0 ELSE AtMost(age + 1, Ttl + 1)
      /\ rotated' = AtMost(rotated + 1, MaxRotated)
      /\ transit' = IF reply = None THEN 0 ELSE transit + 1
      /\ UNCHANGED <<pc, req, route, queue, writer, cache, reply, published, passed, stale>>
  BY DEF AuthTick
<1>2. age' \in 0 .. Ttl + 1 /\ transit' \in 0 .. MaxFetch /\ rotated' \in 0 .. MaxRotated
  BY <1>0, <1>1 DEF AtMost
<1>3. KeyTypes'
  BY <1>1, <1>2 DEF AuthInv, KeyTypes
<1>4. RequestTypes' /\ LineTypes' /\ WriterTypes' /\ StaleTypes' /\ JourneyInv'
  BY <1>1 DEF AuthInv, RequestTypes, LineTypes, Line, WriterTypes, StaleTypes, JourneyInv
<1>5. cache' # None => PublishedWithin(cache, age + MaxFetch)'
  <2> SUFFICES ASSUME cache' # None PROVE PublishedWithin(cache, age + MaxFetch)'
    OBVIOUS
  <2>1. PICK p \in 1 .. published :
           cache = Publications[p] /\ (p < published => rotated <= age + MaxFetch)
    BY <1>1 DEF AuthInv, KeysInv, PublishedWithin
  <2>2. p < published => rotated' <= age' + MaxFetch
    BY <1>0, <1>1, <2>1 DEF AtMost
  <2> QED
    BY <1>1, <2>1, <2>2 DEF PublishedWithin
<1>6. reply' # None => PublishedWithin(reply, transit)'
  <2> SUFFICES ASSUME reply' # None PROVE PublishedWithin(reply, transit)'
    OBVIOUS
  <2>1. PICK p \in 1 .. published :
           reply = Publications[p] /\ (p < published => rotated <= transit)
    BY <1>1 DEF AuthInv, KeysInv, PublishedWithin
  <2>2. p < published => rotated' <= transit'
    BY <1>0, <1>1, <2>1 DEF AtMost
  <2> QED
    BY <1>1, <2>1, <2>2 DEF PublishedWithin
<1>7. Fresh => age' >= age
  BY <1>0, <1>1 DEF Fresh, AtMost
<1>8. ~Fresh => ~Fresh'
  BY <1>0, <1>1 DEF Fresh, AtMost
<1>9. KeysInv'
  BY <1>1, <1>5, <1>6, <1>8 DEF AuthInv, KeysInv
<1> QED
  BY <1>3, <1>4, <1>7, <1>9 DEF AuthInv

\* The issuer publishes other keys: what was in force has been superseded just now.
LEMMA RotateKeeps ==
  ASSUME AuthInv, RotateKeys
  PROVE  AuthInv'
<1>0. /\ Ttl \in Nat /\ MaxFetch \in Nat /\ age \in Nat /\ transit \in Nat
      /\ published \in DOMAIN Publications /\ published \in Nat
      /\ DOMAIN Publications = 1 .. Len(Publications) /\ Len(Publications) \in Nat
  BY AuthAssumption DEF AuthInv, KeyTypes
<1>1. /\ published < Len(Publications) /\ published' = published + 1 /\ rotated' = 0
      /\ UNCHANGED <<pc, req, route, queue, writer, cache, age, reply, transit, passed, stale>>
  BY DEF RotateKeys, keys
<1>2. published' \in DOMAIN Publications /\ 0 \in 0 .. MaxRotated
  BY <1>0, <1>1 DEF MaxRotated
<1>3. KeyTypes'
  BY <1>1, <1>2 DEF AuthInv, KeyTypes
<1>4. RequestTypes' /\ LineTypes' /\ WriterTypes' /\ StaleTypes' /\ JourneyInv'
  BY <1>1 DEF AuthInv, RequestTypes, LineTypes, Line, WriterTypes, StaleTypes, JourneyInv
<1>5. ASSUME NEW list, NEW time \in Nat, PublishedWithin(list, time)
      PROVE  \E p \in 1 .. published' : list = Publications[p] /\ (p < published' => rotated' <= time)
  <2>1. PICK p \in 1 .. published : list = Publications[p]
    BY <1>5 DEF PublishedWithin
  <2>2. p \in 1 .. published' /\ rotated' <= time
    BY <1>0, <1>1
  <2> QED
    BY <2>1, <2>2
<1>6. cache' # None => PublishedWithin(cache, age + MaxFetch)'
  <2>1. age + MaxFetch \in Nat
    BY <1>0
  <2> QED
    BY <1>1, <1>5, <2>1 DEF AuthInv, KeysInv, PublishedWithin
<1>7. reply' # None => PublishedWithin(reply, transit)'
  BY <1>0, <1>1, <1>5 DEF AuthInv, KeysInv, PublishedWithin
<1>8. KeysInv'
  BY <1>1, <1>6, <1>7 DEF AuthInv, KeysInv, Fresh
<1> QED
  BY <1>3, <1>4, <1>8 DEF AuthInv

-----------------------------------------------------------------------------
(* Every step *)

LEMMA InvParts == PipelineInv <=> AuthInv /\ ReloadTypes /\ ReloadInv
BY DEF PipelineInv, TypeOK, AuthInv, RequestTypes, LineTypes, Line, WriterTypes, KeyTypes,
       StaleTypes, ReloadTypes

Reloads ==
  \/ \E c \in DOMAIN Configs : ReadFile(c)
  \/ KeepConfig \/ SwapConfig \/ NotifyReload \/ TakeUpdate \/ Rebuild

\* What RefreshedOnce says of one step.
NoWaste == cache' # cache \/ age' < age => ~Fresh

\* The hand-over from the file to the router.
LEMMA ReloadKeeps ==
  ASSUME ReloadTypes, ReloadInv, Reloads
  PROVE  ReloadTypes' /\ ReloadInv' /\ UNCHANGED authVars
<1> USE PipelineAssumption DEF ReloadTypes, ReloadInv
<1>0. Valid \subseteq DOMAIN Configs /\ None \notin DOMAIN Configs
  BY DEF Valid
<1>1. ASSUME NEW c \in DOMAIN Configs, ReadFile(c)
      PROVE  ReloadTypes' /\ ReloadInv' /\ UNCHANGED authVars
  <2>1. ~swapped
    BY <1>0, <1>1 DEF ReadFile
  <2> QED
    BY <1>0, <1>1, <2>1 DEF ReadFile, Valid
<1>2. CASE KeepConfig
  BY <1>0, <1>2 DEF KeepConfig, Valid
<1>3. CASE SwapConfig
  BY <1>0, <1>3 DEF SwapConfig, Valid
<1>4. CASE NotifyReload
  BY <1>0, <1>4 DEF NotifyReload, Valid
<1>5. CASE TakeUpdate
  BY <1>0, <1>5 DEF TakeUpdate, Valid
<1>6. CASE Rebuild
  BY <1>0, <1>6 DEF Rebuild, Valid
<1> QED
  BY <1>1, <1>2, <1>3, <1>4, <1>5, <1>6 DEF Reloads

\* The steps of one request.
LEMMA HandleKeeps ==
  ASSUME AuthInv, ReloadTypes, NEW r \in Requests,
         (\E q \in Shapes : Arrive(r, q)) \/ Handle(r) \/ Cancel(r)
  PROVE  AuthInv' /\ UNCHANGED reload /\ NoWaste /\ \A s \in Requests : Authorised(s)
<1>0. age \in Int
  BY AuthAssumption DEF AuthInv, KeyTypes
<1>1. ASSUME Alone(r), Authorised(r) PROVE \A s \in Requests : Authorised(s)
  BY <1>1 DEF Alone, Authorised
<1>2. ASSUME NEW q \in Shapes, Arrive(r, q)
      PROVE  AuthInv' /\ UNCHANGED reload /\ NoWaste /\ \A s \in Requests : Authorised(s)
  <2>1. AuthInv'
    BY <1>2, ArriveKeeps
  <2>2. UNCHANGED <<reload, cache, age, passed>> /\ pc' = [pc EXCEPT ![r] = "gate"]
    BY <1>2 DEF Arrive, keys
  <2>3. \A s \in Requests : Authorised(s)
    BY <2>2 DEF Authorised, AuthInv, RequestTypes
  <2> QED
    BY <1>0, <2>1, <2>2, <2>3 DEF NoWaste
<1>3. CASE Admit(r)
  <2>1. /\ AuthInv' /\ Alone(r) /\ passed'[r] \subseteq passed[r]
        /\ pc'[r] = "limit" => route[r].auth \cap Mandatory \subseteq passed'[r]
    BY <1>3, AdmitKeeps
  <2>2. UNCHANGED <<reload, cache, age>>
    BY <1>3 DEF Admit
  <2>3. Authorised(r)
    BY <2>1 DEF Authorised
  <2> QED
    BY <1>0, <1>1, <2>1, <2>2, <2>3 DEF NoWaste
<1>4. ASSUME NEW from \in {"gate", "limit", "lookup", "send"},
             NEW to \in {"idle", "lookup", "send"}, Pass(r, from, to)
      PROVE  AuthInv' /\ UNCHANGED reload /\ NoWaste /\ \A s \in Requests : Authorised(s)
  <2>1. AuthInv' /\ Alone(r) /\ pc'[r] # "limit" /\ passed'[r] \subseteq passed[r]
    BY <1>4, PassKeeps
  <2>2. UNCHANGED <<reload, cache, age>>
    BY <1>4 DEF Pass, keys
  <2>3. Authorised(r)
    BY <2>1 DEF Authorised
  <2> QED
    BY <1>0, <1>1, <2>1, <2>2, <2>3 DEF NoWaste
<1>5. CASE Authenticate(r)
  <2>0. UNCHANGED reload /\ AuthStep(r)
    BY <1>5 DEF Authenticate
  <2>1. CASE ReadKeys(r)
    <3>1. AuthInv' /\ Alone(r) /\ Authorised(r)
      BY <2>1, ReadKeysKeeps
    <3>2. UNCHANGED <<cache, age>>
      BY <2>1 DEF ReadKeys
    <3> QED
      BY <1>0, <1>1, <2>0, <3>1, <3>2 DEF NoWaste
  <2>2. CASE LockKeys(r)
    <3>1. AuthInv' /\ Alone(r) /\ Authorised(r)
      BY <2>2, LockKeysKeeps
    <3>2. UNCHANGED <<cache, age>>
      BY <2>2 DEF LockKeys
    <3> QED
      BY <1>0, <1>1, <2>0, <3>1, <3>2 DEF NoWaste
  <2>3. CASE IssuerAnswers(r)
    <3>1. AuthInv' /\ Alone(r) /\ Authorised(r)
      BY <2>3, AnswerKeeps
    <3>2. UNCHANGED <<cache, age>>
      BY <2>3 DEF IssuerAnswers
    <3> QED
      BY <1>0, <1>1, <2>0, <3>1, <3>2 DEF NoWaste
  <2>4. CASE FetchArrives(r)
    <3>1. AuthInv' /\ Alone(r) /\ Authorised(r) /\ ~Fresh
      BY <2>4, ArrivalKeeps
    <3> QED
      BY <1>1, <2>0, <3>1 DEF NoWaste
  <2>5. CASE FetchFails(r)
    <3>1. AuthInv' /\ Alone(r) /\ Authorised(r)
      BY <2>5, FailureKeeps
    <3>2. UNCHANGED <<cache, age>>
      BY <2>5 DEF FetchFails
    <3> QED
      BY <1>0, <1>1, <2>0, <3>1, <3>2 DEF NoWaste
  <2>6. CASE ApiKeyAccepted(r) \/ ApiKeyRefused(r)
    <3>1. /\ AuthInv' /\ Alone(r)
          /\ pc'[r] = "limit" => route[r].auth \cap Mandatory \subseteq passed'[r]
          /\ "jwt" \in passed'[r] => "jwt" \in passed[r]
      BY <2>6, ApiKeyKeeps
    <3>2. UNCHANGED <<cache, age>>
      BY <2>6 DEF ApiKeyAccepted, ApiKeyRefused, keys
    <3>3. Authorised(r)
      BY <3>1 DEF Authorised
    <3> QED
      BY <1>0, <1>1, <2>0, <3>1, <3>2, <3>3 DEF NoWaste
  <2> QED
    BY <2>0, <2>1, <2>2, <2>3, <2>4, <2>5, <2>6 DEF AuthStep
<1>6. CASE Cancel(r)
  <2>1. AuthInv' /\ Alone(r) /\ pc'[r] = "idle" /\ passed'[r] = {}
    BY <1>6, CancelKeeps
  <2>2. UNCHANGED <<reload, cache, age>>
    BY <1>6 DEF Cancel, DropAuth
  <2>3. Authorised(r)
    BY <2>1 DEF Authorised
  <2> QED
    BY <1>0, <1>1, <2>1, <2>2, <2>3 DEF NoWaste
<1>7. ASSUME Reject(r) \/ LimitDenies(r) \/ LimitAllows(r) \/ CacheHit(r) \/ CacheMiss(r)
             \/ NoPool(r) \/ UpstreamDone(r)
      PROVE  \E from \in {"gate", "limit", "lookup", "send"}, to \in {"idle", "lookup", "send"} :
               Pass(r, from, to)
  BY <1>7 DEF Reject, LimitDenies, LimitAllows, CacheHit, CacheMiss, NoPool, UpstreamDone
<1> QED
  BY <1>2, <1>3, <1>4, <1>5, <1>6, <1>7 DEF Handle

LEMMA PipelineInit == Init => PipelineInv
<1> SUFFICES ASSUME Init PROVE AuthInv /\ ReloadTypes /\ ReloadInv
  BY InvParts
<1> USE AuthAssumption, PipelineAssumption
<1>1. ReloadTypes /\ ReloadInv
  BY DEF Init, ReloadTypes, ReloadInv, Valid
<1>2. RequestTypes
  BY DEF Init, AuthInit, RequestTypes, Stages
<1>3. LineTypes
  BY DEF Init, AuthInit, LineTypes, Line, Range
<1>4. WriterTypes
  BY DEF Init, AuthInit, WriterTypes
<1>5. KeyTypes
  <2>1. 1 \in DOMAIN Publications
    OBVIOUS
  <2> QED
    BY <2>1 DEF Init, AuthInit, KeyTypes, MaxRotated
<1>6. StaleTypes /\ KeysInv /\ JourneyInv
  BY DEF Init, AuthInit, StaleTypes, KeysInv, JourneyInv
<1> QED
  BY <1>1, <1>2, <1>3, <1>4, <1>5, <1>6 DEF AuthInv

LEMMA PipelineNext ==
  PipelineInv /\ [Next]_vars
    => PipelineInv' /\ [NoWaste]_vars /\ [\A s \in Requests : Authorised(s)]_vars
<1> SUFFICES ASSUME PipelineInv, [Next]_vars
             PROVE  /\ AuthInv' /\ ReloadTypes' /\ ReloadInv'
                    /\ UNCHANGED vars \/ (NoWaste /\ \A s \in Requests : Authorised(s))
  <2>1. (AuthInv' /\ ReloadTypes' /\ ReloadInv') => PipelineInv'
    BY InvParts DEF PipelineInv, TypeOK, AuthInv, RequestTypes, LineTypes, Line, WriterTypes,
                    KeyTypes, StaleTypes, ReloadTypes
  <2> QED
    BY <2>1
<1>0. AuthInv /\ ReloadTypes /\ ReloadInv
  BY InvParts
<1>a. age \in Int
  BY <1>0, AuthAssumption DEF AuthInv, KeyTypes
<1>f. ASSUME UNCHANGED reload PROVE ReloadTypes' /\ ReloadInv'
  BY <1>0, <1>f DEF reload, ReloadTypes, ReloadInv, Valid
<1>k. ASSUME UNCHANGED authVars PROVE AuthInv'
  BY <1>0, <1>k DEF authVars, keys, issuer, AuthInv, RequestTypes, LineTypes, Line, WriterTypes,
     KeyTypes, StaleTypes, KeysInv, PublishedWithin, JourneyInv, Fresh
<1>1. ASSUME NEW r \in Requests,
             (\E q \in Shapes : Arrive(r, q)) \/ Handle(r) \/ Cancel(r)
      PROVE  AuthInv' /\ UNCHANGED reload /\ NoWaste /\ \A s \in Requests : Authorised(s)
  BY <1>0, <1>1, HandleKeeps
<1>2. ASSUME Reloads
      PROVE  /\ AuthInv' /\ ReloadTypes' /\ ReloadInv'
             /\ NoWaste /\ \A s \in Requests : Authorised(s)
  <2>1. ReloadTypes' /\ ReloadInv' /\ UNCHANGED authVars
    BY <1>0, <1>2, ReloadKeeps
  <2>2. UNCHANGED <<pc, passed, cache, age>>
    BY <2>1 DEF authVars, keys
  <2> QED
    BY <1>a, <1>k, <2>1, <2>2 DEF NoWaste, Authorised
<1>3. CASE Tick
  <2>1. AuthTick /\ UNCHANGED reload
    BY <1>3 DEF Tick
  <2>2. AuthInv' /\ (Fresh => age' >= age) /\ age' \in Int
    BY <1>0, <2>1, TickKeeps, AuthAssumption DEF AuthInv, KeyTypes
  <2>3. UNCHANGED <<pc, passed, cache>>
    BY <2>1 DEF AuthTick
  <2> QED
    BY <1>a, <1>f, <2>1, <2>2, <2>3 DEF NoWaste, Authorised
<1>4. CASE Rotate
  <2>1. RotateKeys /\ UNCHANGED reload
    BY <1>4 DEF Rotate
  <2>2. AuthInv'
    BY <1>0, <2>1, RotateKeeps
  <2>3. UNCHANGED <<pc, passed, cache, age>>
    BY <2>1 DEF RotateKeys, keys
  <2> QED
    BY <1>a, <1>f, <2>1, <2>2, <2>3 DEF NoWaste, Authorised
<1>5. CASE UNCHANGED vars
  BY <1>f, <1>k, <1>5 DEF vars
<1> QED
  BY <1>1, <1>2, <1>3, <1>4, <1>5, <1>f DEF Next, Reloads

-----------------------------------------------------------------------------
(* The router *)

\* f is defined from its value one step earlier.
Follows(f, V, base, n, step) ==
  /\ f \in [0 .. n -> V]
  /\ f[0] = base /\ \A k \in 1 .. n : f[k] = step[k][f[k - 1]]

\* Such a function exists.
LEMMA RecursionExists ==
  \A V, base, n, step :
    base \in V /\ n \in Nat /\ step \in [1 .. n -> [V -> V]] =>
      \E f : Follows(f, V, base, n, step)
<1> SUFFICES ASSUME NEW V, NEW base \in V, NEW n \in Nat, NEW step \in [1 .. n -> [V -> V]]
             PROVE  \E f : Follows(f, V, base, n, step)
  OBVIOUS
<1> DEFINE Good(f, m) == f[0] = base /\ \A k \in 1 .. m : f[k] = step[k][f[k - 1]]
           T == {m \in 0 .. n : ~\E f \in [0 .. m -> V] : Good(f, m)}
<1>0. T \in SUBSET Nat
  OBVIOUS
<1>1. ASSUME T # {} PROVE FALSE
  <2>1. PICK m \in T : \A y \in T : m <= y
    <3> HIDE DEF T
    <3> QED
      BY <1>0, <1>1, LeastNat
  <2>2. m \in 0 .. n /\ m \in Nat /\ ~\E f \in [0 .. m -> V] : Good(f, m)
    OBVIOUS
  <2>3. CASE m = 0
    <3> DEFINE g == [k \in 0 .. m |-> base]
    <3>1. g \in [0 .. m -> V] /\ g[0] = base
      BY <2>3
    <3>2. Good(g, m)
      BY <2>3, <3>1
    <3> HIDE DEF g, Good
    <3> QED
      BY <2>2, <3>1, <3>2
  <2>4. CASE m # 0
    <3>1. m - 1 \in 0 .. n /\ m \in 1 .. n
      BY <2>2, <2>4
    <3>2. m - 1 \notin T
      <4> HIDE DEF T
      <4> QED
        BY <2>1, <2>2, <3>1
    <3>3. PICK h \in [0 .. m - 1 -> V] : Good(h, m - 1)
      <4> HIDE DEF Good
      <4> QED
        BY <3>1, <3>2
    <3> DEFINE g == [k \in 0 .. m |-> IF k = m THEN step[m][h[m - 1]] ELSE h[k]]
    <3>4. h[m - 1] \in V /\ step[m] \in [V -> V]
      BY <3>1
    <3>5. g \in [0 .. m -> V] /\ g[m] = step[m][h[m - 1]]
          /\ \A k \in 0 .. m - 1 : g[k] = h[k]
      BY <2>2, <3>4
    <3> HIDE DEF g
    <3>6. ASSUME NEW k \in 1 .. m
          PROVE  g[k] = step[k][g[k - 1]]
      <4>1. k - 1 \in 0 .. m - 1 /\ (k = m \/ k \in 1 .. m - 1)
        BY <3>1
      <4> QED
        BY <3>3, <3>5, <4>1
    <3>7. g[0] = base
      BY <3>1, <3>3, <3>5
    <3> QED
      BY <2>2, <3>5, <3>6, <3>7
  <2> QED
    BY <2>3, <2>4
<1>2. n \notin T
  <2> HIDE DEF T
  <2> QED
    BY <1>1
<1> HIDE DEF Good
<1>3. \E f \in [0 .. n -> V] : Good(f, n)
  <2>1. n \in 0 .. n
    OBVIOUS
  <2> QED
    BY <1>2, <2>1
<1> QED
  BY <1>3 DEF Good, Follows

\* A segment as the tries see it.
Segment == {LowerCase[s] : s \in STRING}

\* Normalising a path gives one again.
LEMMA NormalisedPath ==
  ASSUME NEW path \in Seq(STRING)
  PROVE  normalise_path(path) \in Seq(Segment)
<1> DEFINE n == Len(path)
           V == Seq(Segment)
           step == [k \in 1 .. n |-> [o \in V |->
                      IF path[k] = "" THEN o ELSE Append(o, LowerCase[path[k]])]]
           Body(f) == [k \in 0 .. Len(path) |->
                         IF k = 0 THEN <<>>
                         ELSE IF path[k] = "" THEN f[k - 1]
                         ELSE Append(f[k - 1], LowerCase[path[k]])]
<1>1. n \in Nat /\ <<>> \in V
  OBVIOUS
<1>2. ASSUME NEW k \in 1 .. n, NEW o \in V
      PROVE  (IF path[k] = "" THEN o ELSE Append(o, LowerCase[path[k]])) \in V
  <2>1. path[k] \in STRING
    BY ElementOfSeq, Zenon
  <2>2. PICK x \in Segment : x = LowerCase[path[k]]
    BY <2>1, Zenon DEF Segment
  <2>3. Append(o, x) \in V
    OBVIOUS
  <2> QED
    BY <2>2, <2>3
<1>3. step \in [1 .. n -> [V -> V]]
  BY <1>2
<1>4. PICK f : Follows(f, V, <<>>, n, step)
  <2> HIDE DEF step, n, V
  <2> QED
    BY <1>1, <1>3, RecursionExists, Zenon
<1>5. f = Body(f)
  <2>1. ASSUME NEW k \in 0 .. n
        PROVE  f[k] = IF k = 0 THEN <<>>
                      ELSE IF path[k] = "" THEN f[k - 1]
                      ELSE Append(f[k - 1], LowerCase[path[k]])
    <3>1. CASE k = 0
      BY <1>4, <3>1 DEF Follows
    <3>2. CASE k # 0
      <4>1. k \in 1 .. n /\ k - 1 \in 0 .. n
        BY <1>1, <3>2
      <4>2. f[k] = step[k][f[k - 1]] /\ f[k - 1] \in V
        BY <1>4, <4>1 DEF Follows
      <4> QED
        BY <3>2, <4>1, <4>2
    <3> QED
      BY <3>1, <3>2
  <2> QED
    BY <1>4, <2>1 DEF Follows
<1> DEFINE out == CHOOSE g : g = Body(g)
<1>6. out = Body(out)
  BY <1>5, Zenon
<1>7. normalise_path(path) = out[n]
  BY DEF normalise_path
<1> HIDE DEF out
<1> DEFINE T == {k \in 0 .. n : out[k] \notin V}
<1>8. ASSUME T # {} PROVE FALSE
  <2>0. T \in SUBSET Nat
    BY <1>1
  <2>1. PICK k \in T : \A y \in T : k <= y
    <3> HIDE DEF T
    <3> QED
      BY <1>8, <2>0, LeastNat
  <2>2. k # 0
    BY <1>1, <1>6, <2>1
  <2>3. k \in 1 .. n /\ k - 1 \in 0 .. n /\ k - 1 \notin T
    BY <1>1, <2>1, <2>2
  <2>4. out[k] = IF path[k] = "" THEN out[k - 1] ELSE Append(out[k - 1], LowerCase[path[k]])
    BY <1>6, <2>2, <2>3
  <2> QED
    BY <1>2, <2>1, <2>3, <2>4
<1> QED
  BY <1>1, <1>7, <1>8

\* A set of positions has a last one, which Max finds, and a first, which Min finds.
LEMMA FirstAndLast ==
  ASSUME NEW n \in Nat, NEW T \in SUBSET (1 .. n), T # {}
  PROVE  /\ Max(T) \in T /\ \A y \in T : y <= Max(T)
         /\ Min(T) \in T /\ \A y \in T : Min(T) <= y
<1>1. \E x \in T : \A y \in T : x <= y
  BY LeastNat
<1> DEFINE U == {n - x : x \in T}
<1>2. U \in SUBSET Nat /\ U # {}
  <2>1. \A x \in T : n - x \in Nat
    OBVIOUS
  <2> QED
    BY <2>1, Zenon
<1>3. PICK u \in U : \A v \in U : u <= v
  BY <1>2, LeastNat
<1>4. PICK x \in T : u = n - x
  BY <1>3
<1>5. ASSUME NEW y \in T PROVE x >= y
  <2>1. n - x <= n - y
    BY <1>3, <1>4
  <2> QED
    BY <2>1
<1>6. Max(T) \in T /\ \A y \in T : Max(T) >= y
  BY <1>5 DEF Max
<1>7. Min(T) \in T /\ \A y \in T : Min(T) <= y
  BY <1>1 DEF Min
<1> QED
  BY <1>6, <1>7

\* The segments of a prefix are those of a node on the way down.
LEMMA PrefixIsNode ==
  ASSUME NEW V, NEW p \in Seq(V), NEW path \in Seq(V), NEW d \in 0 .. Len(path)
  PROVE  p = SubSeq(path, 1, d) <=> IsPrefix(p, path) /\ Len(p) = d
<1>1. SubSeq(path, 1, d) \in Seq(V) /\ Len(SubSeq(path, 1, d)) = d
  OBVIOUS
<1>2. SubSeq(p, 1, Len(p)) = p
  OBVIOUS
<1>3. p = SubSeq(path, 1, d) => IsPrefix(p, path) /\ Len(p) = d
  BY <1>1, <1>2 DEF IsPrefix
<1>4. IsPrefix(p, path) /\ Len(p) = d => p = SubSeq(path, 1, d)
  BY <1>2 DEF IsPrefix
<1> QED
  BY <1>3, <1>4

\* The types of a table's paths.
LEMMA RoutePaths ==
  ASSUME NEW cfg, GatewayConfig(cfg)
  PROVE  /\ Len(cfg.routes) \in Nat /\ DOMAIN cfg.routes = 1 .. Len(cfg.routes)
         /\ \A i \in DOMAIN cfg.routes : cfg.routes[i].kind \in {"exact", "prefix"} =>
              normalise_path(cfg.routes[i].path) \in Seq(Segment)
<1>1. cfg.routes \in Seq(Range(cfg.routes))
  BY DEF GatewayConfig
<1>2. ASSUME NEW i \in DOMAIN cfg.routes, cfg.routes[i].kind \in {"exact", "prefix"}
      PROVE  normalise_path(cfg.routes[i].path) \in Seq(Segment)
  <2>1. cfg.routes[i].path \in Seq(STRING)
    BY <1>2 DEF GatewayConfig, RouteConfig, PathMatch
  <2> QED
    BY <2>1, NormalisedPath
<1> QED
  BY <1>1, <1>2

Segments(cfg, i) == Len(normalise_path(cfg.routes[i].path))

\* The prefix routes at a node on the way down are those with as many segments.
LEMMA NodeOnTheWay ==
  ASSUME NEW cfg, GatewayConfig(cfg), NEW q, q.path \in Seq(STRING),
         NEW d \in 0 .. Len(normalise_path(q.path))
  PROVE  Accepted(cfg, q, collect_prefix_matches(cfg, normalise_path(q.path), d))
           = {i \in Suitable(cfg, q, "prefix") : Segments(cfg, i) = d}
<1> DEFINE path == normalise_path(q.path)
<1>1. path \in Seq(Segment)
  BY NormalisedPath
<1>2. ASSUME NEW i \in DOMAIN cfg.routes, cfg.routes[i].kind = "prefix"
      PROVE  normalise_path(cfg.routes[i].path) = SubSeq(path, 1, d)
               <=> /\ IsPrefix(normalise_path(cfg.routes[i].path), path)
                   /\ Segments(cfg, i) = d
  <2>1. normalise_path(cfg.routes[i].path) \in Seq(Segment)
    BY <1>2, RoutePaths
  <2> HIDE DEF path
  <2> QED
    BY <1>1, <2>1, PrefixIsNode DEF Segments, path
<1> QED
  BY <1>2, Zenon DEF Accepted, collect_prefix_matches, TrieNode, Suitable

\* prefix_match goes up from the deepest node: it ends at the deepest one at or above
\* d that has a route for the request, with the last of its routes.
LEMMA PrefixTier ==
  ASSUME NEW cfg, GatewayConfig(cfg), NEW q, q.path \in Seq(STRING)
  PROVE  LET S == Suitable(cfg, q, "prefix")
             won == prefix_match(cfg, q, normalise_path(q.path))
         IN  \/ S = {} /\ won = {}
             \/ \E i \in S : /\ won = {i}
                             /\ \A j \in S : \/ Segments(cfg, i) > Segments(cfg, j)
                                             \/ Segments(cfg, i) = Segments(cfg, j) /\ i >= j
<1> DEFINE path == normalise_path(q.path)
           n == Len(path)
           S == Suitable(cfg, q, "prefix")
           Found(d) == Accepted(cfg, q, collect_prefix_matches(cfg, path, d))
           At(d) == {i \in S : Segments(cfg, i) = d}
           V == {{}} \cup {{Max(Found(d))} : d \in 0 .. n}
           base == IF Found(0) # {} THEN {Max(Found(0))} ELSE {}
           step == [d \in 1 .. n |-> [up \in V |-> IF Found(d) # {} THEN {Max(Found(d))} ELSE up]]
           Body(f) == [d \in 0 .. Len(path) |->
                         IF Found(d) # {} THEN {Max(Found(d))}
                         ELSE IF d = 0 THEN {} ELSE f[d - 1]]
<1>1. path \in Seq(Segment) /\ n \in Nat
  BY NormalisedPath
<1>2. PICK f : Follows(f, V, base, n, step)
  <2>1. base \in V /\ n \in Nat
    BY <1>1
  <2>2. step \in [1 .. n -> [V -> V]]
    <3>1. 1 .. n \subseteq 0 .. n
      BY <1>1
    <3> HIDE DEF Found, n
    <3> QED
      BY <3>1
  <2> HIDE DEF base, step, n, V
  <2> QED
    BY <2>1, <2>2, RecursionExists, Zenon
<1>3. f = Body(f)
  <2>1. ASSUME NEW d \in 0 .. n
        PROVE  f[d] = IF Found(d) # {} THEN {Max(Found(d))} ELSE IF d = 0 THEN {} ELSE f[d - 1]
    <3>1. CASE d = 0
      <4> HIDE DEF Found
      <4> QED
        BY <1>2, <3>1 DEF Follows
    <3>2. CASE d # 0
      <4>1. d \in 1 .. n /\ d - 1 \in 0 .. n
        BY <1>1, <3>2
      <4> HIDE DEF Found, V
      <4>2. f[d] = step[d][f[d - 1]] /\ f[d - 1] \in V
        BY <1>2, <4>1 DEF Follows
      <4> QED
        BY <3>2, <4>1, <4>2
    <3> QED
      BY <3>1, <3>2
  <2>2. f \in [0 .. n -> V]
    BY <1>2 DEF Follows
  <2> HIDE DEF Found, V
  <2> QED
    BY <2>1, <2>2
<1> DEFINE tried == CHOOSE g : g = Body(g)
<1>4. tried = Body(tried)
  <2> HIDE DEF Body
  <2> QED
    BY <1>3, Zenon
<1>5. prefix_match(cfg, q, path) = tried[n]
  BY DEF prefix_match
<1> HIDE DEF tried
<1>6. ASSUME NEW d \in 0 .. n
      PROVE  tried[d] = IF At(d) # {} THEN {Max(At(d))} ELSE IF d = 0 THEN {} ELSE tried[d - 1]
  <2>1. Found(d) = At(d)
    BY NodeOnTheWay
  <2> HIDE DEF Found, At, n
  <2>2. tried[d] = IF Found(d) # {} THEN {Max(Found(d))} ELSE IF d = 0 THEN {} ELSE tried[d - 1]
    BY <1>4 DEF n
  <2> QED
    BY <2>1, <2>2
<1> HIDE DEF Found, V, base, step, Body
\* The search has not found anything up to d, or it stopped at a node e.
<1> DEFINE Ended(d) ==
      \/ tried[d] = {} /\ \A e \in 0 .. d : At(e) = {}
      \/ \E e \in 0 .. d : /\ At(e) # {} /\ tried[d] = {Max(At(e))}
                           /\ \A h \in e + 1 .. d : At(h) = {}
           T == {d \in 0 .. n : ~Ended(d)}
<1>7. ASSUME T # {} PROVE FALSE
  <2>0. T \in SUBSET Nat
    BY <1>1
  <2>1. PICK d \in T : \A y \in T : d <= y
    <3> HIDE DEF T
    <3> QED
      BY <1>7, <2>0, LeastNat
  <2>2. d \in 0 .. n /\ ~Ended(d)
    <3> HIDE DEF Ended
    <3> QED
      OBVIOUS
  <2>3. d \in 0 .. n /\ d \in Nat
    BY <1>1, <2>2
  <2>4. tried[d] = IF At(d) # {} THEN {Max(At(d))} ELSE IF d = 0 THEN {} ELSE tried[d - 1]
    BY <1>6, <2>3
  <2> HIDE DEF At
  <2>5. At(d) = {}
    <3> SUFFICES ASSUME At(d) # {} PROVE FALSE
      OBVIOUS
    <3>1. tried[d] = {Max(At(d))} /\ d \in 0 .. d /\ \A h \in d + 1 .. d : At(h) = {}
      BY <2>4, <2>3
    <3> QED
      BY <2>2, <3>1
  <2>6. d # 0
    <3> SUFFICES ASSUME d = 0 PROVE FALSE
      OBVIOUS
    <3>1. tried[d] = {} /\ \A e \in 0 .. d : At(e) = {}
      BY <2>4, <2>3, <2>5
    <3> QED
      BY <2>2, <3>1
  <2>7. d - 1 \in 0 .. n /\ tried[d] = tried[d - 1]
    BY <1>1, <2>4, <2>3, <2>5, <2>6
  <2>8. Ended(d - 1)
    <3>1. d - 1 \notin T
      <4> HIDE DEF T
      <4> QED
        BY <2>1, <2>3
    <3> QED
      BY <2>7, <3>1
  <2>9. CASE tried[d - 1] = {} /\ \A e \in 0 .. d - 1 : At(e) = {}
    <3>1. \A e \in 0 .. d : At(e) = {}
      BY <2>3, <2>5, <2>9
    <3> QED
      BY <2>2, <2>7, <2>9, <3>1
  <2>10. ASSUME NEW e \in 0 .. d - 1, At(e) # {}, tried[d - 1] = {Max(At(e))},
               \A h \in e + 1 .. d - 1 : At(h) = {}
        PROVE  FALSE
    <3>1. e \in 0 .. d /\ \A h \in e + 1 .. d : At(h) = {}
      BY <2>3, <2>5, <2>10
    <3> QED
      BY <2>2, <2>7, <2>10, <3>1
  <2> QED
    BY <2>8, <2>9, <2>10
<1>8. Ended(n)
  <2>1. n \in 0 .. n
    BY <1>1
  <2> HIDE DEF Ended, n
  <2> QED
    BY <1>7, <2>1
<1>9. ASSUME NEW j \in S
      PROVE  Segments(cfg, j) \in 0 .. n /\ j \in At(Segments(cfg, j)) /\ j \in DOMAIN cfg.routes
  <2>1. /\ j \in DOMAIN cfg.routes /\ cfg.routes[j].kind = "prefix"
        /\ IsPrefix(normalise_path(cfg.routes[j].path), path)
    BY DEF Suitable
  <2>2. normalise_path(cfg.routes[j].path) \in Seq(Segment)
    BY <2>1, RoutePaths
  <2> QED
    BY <1>1, <2>1, <2>2 DEF IsPrefix, Segments
<1>10. ASSUME \A e \in 0 .. n : At(e) = {}
       PROVE  S = {}
  BY <1>9, <1>10
<1>11. ASSUME NEW e \in 0 .. n, At(e) # {}, tried[n] = {Max(At(e))},
              \A h \in e + 1 .. n : At(h) = {}
       PROVE  \E i \in S : /\ tried[n] = {i}
                           /\ \A j \in S : \/ Segments(cfg, i) > Segments(cfg, j)
                                           \/ Segments(cfg, i) = Segments(cfg, j) /\ i >= j
  <2> DEFINE i == Max(At(e))
  <2>1. Len(cfg.routes) \in Nat /\ At(e) \in SUBSET (1 .. Len(cfg.routes))
    BY <1>9, RoutePaths
  <2>2. i \in At(e) /\ \A j \in At(e) : j <= i
    <3> HIDE DEF At
    <3> QED
      BY <1>11, <2>1, FirstAndLast
  <2>3. i \in S /\ Segments(cfg, i) = e /\ i \in Nat
    BY <2>1, <2>2
  <2> HIDE DEF i
  <2>4. ASSUME NEW j \in S
        PROVE  \/ Segments(cfg, i) > Segments(cfg, j)
               \/ Segments(cfg, i) = Segments(cfg, j) /\ i >= j
    <3> DEFINE m == Segments(cfg, j)
    <3>1. m \in 0 .. n /\ At(m) # {} /\ j \in At(m) /\ j \in Nat
      BY <1>9, RoutePaths
    <3> HIDE DEF m, At
    <3>2. ~(m > e)
      BY <1>1, <1>11, <3>1
    <3>3. CASE m = e
      BY <2>2, <2>3, <3>1, <3>3 DEF m
    <3>4. CASE m # e
      BY <1>1, <2>3, <3>1, <3>2, <3>4 DEF m
    <3> QED
      BY <3>3, <3>4
  <2> QED
    BY <1>11, <2>3, <2>4 DEF i
<1> HIDE DEF At, S
<1>12. \/ S = {} /\ tried[n] = {}
       \/ \E i \in S : /\ tried[n] = {i}
                       /\ \A j \in S : \/ Segments(cfg, i) > Segments(cfg, j)
                                       \/ Segments(cfg, i) = Segments(cfg, j) /\ i >= j
  <2>1. CASE \E e \in 0 .. n : /\ At(e) # {} /\ tried[n] = {Max(At(e))}
                               /\ \A h \in e + 1 .. n : At(h) = {}
    BY <1>11, <2>1
  <2> QED
    BY <1>8, <1>10, <2>1
<1> QED
  BY <1>5, <1>12 DEF S

\* find_exact looks at the first route of the node, which has no other.
LEMMA ExactTier ==
  ASSUME NEW cfg, GatewayConfig(cfg), NEW q, q.path \in Seq(STRING), ~Ambiguous(cfg, q)
  PROVE  Accepted(cfg, q, find_exact(cfg, normalise_path(q.path)))
           = Suitable(cfg, q, "exact")
<1> DEFINE path == normalise_path(q.path)
           node == TrieNode(cfg, "exact", path)
<1>1. Len(cfg.routes) \in Nat /\ DOMAIN cfg.routes = 1 .. Len(cfg.routes)
  BY RoutePaths
<1>2. \A i \in node : i \in DOMAIN cfg.routes
  BY DEF TrieNode
<1>3. Suitable(cfg, q, "exact") = {i \in node : matches_predicates(cfg.routes[i], q)}
  BY DEF Suitable, TrieNode
<1>4. find_exact(cfg, path) = IF node = {} THEN {} ELSE {Min(node)}
  BY DEF find_exact
<1>5. \A i, j \in node : i = j
  BY <1>2 DEF Ambiguous
<1> HIDE DEF node, path
<1>6. find_exact(cfg, path) = node
  <2>1. CASE node = {}
    BY <1>4, <2>1
  <2>2. CASE node # {}
    <3>1. node \in SUBSET (1 .. Len(cfg.routes))
      BY <1>1, <1>2
    <3>2. Min(node) \in node
      BY <1>1, <2>2, <3>1, FirstAndLast
    <3> QED
      BY <1>4, <1>5, <2>2, <3>2
  <2> QED
    BY <2>1, <2>2
<1> QED
  BY <1>3, <1>6 DEF Accepted, path

\* Without two equal ones, the longest prefix route that is made for a request is one.
LEMMA LongestIsOne ==
  ASSUME NEW cfg, GatewayConfig(cfg), NEW q, q.path \in Seq(STRING), ~Ambiguous(cfg, q),
         NEW i \in Suitable(cfg, q, "prefix"), NEW j \in Suitable(cfg, q, "prefix"),
         Segments(cfg, i) = Segments(cfg, j)
  PROVE  i = j
<1> DEFINE path == normalise_path(q.path)
           Way(k) == normalise_path(cfg.routes[k].path)
<1>1. path \in Seq(Segment)
  BY NormalisedPath
<1>2. ASSUME NEW k \in Suitable(cfg, q, "prefix")
      PROVE  /\ k \in DOMAIN cfg.routes /\ Way(k) \in Seq(Segment)
             /\ IsPrefix(Way(k), path)
  <2>1. /\ k \in DOMAIN cfg.routes /\ cfg.routes[k].kind = "prefix"
        /\ IsPrefix(Way(k), path)
    BY DEF Suitable
  <2> QED
    BY <2>1, RoutePaths
<1>3. PICK a \in Seq(Segment), b \in Seq(Segment) :
        a = Way(i) /\ b = Way(j) /\ IsPrefix(a, path) /\ IsPrefix(b, path)
  BY <1>2
<1>4. Len(a) = Len(b)
  BY <1>3 DEF Segments
<1> HIDE DEF path, Way
<1>5. a = b
  <2>1. a = SubSeq(path, 1, Len(a)) /\ b = SubSeq(path, 1, Len(b))
    BY <1>3 DEF IsPrefix
  <2> QED
    BY <1>4, <2>1
<1>6. Way(i) = Way(j)
  BY <1>3, <1>5
<1> QED
  BY <1>2, <1>6 DEF Ambiguous, Way

\* Router::match_request gives a request the route that the documented order names,
\* with every table that has no two equal ones for it.
LEMMA MatchIsWinner ==
  ASSUME NEW cfg, GatewayConfig(cfg), NEW q, q.path \in Seq(STRING), ~Ambiguous(cfg, q)
  PROVE  match_request(cfg, q) = Winner(cfg, q)
<1> DEFINE path == normalise_path(q.path)
           exact == Accepted(cfg, q, find_exact(cfg, path))
           prefix == prefix_match(cfg, q, path)
           regex == regex_match(cfg, q)
           S == Suitable(cfg, q, "prefix")
           best == CHOOSE i \in S : \A j \in S :
                     \/ Segments(cfg, i) > Segments(cfg, j)
                     \/ Segments(cfg, i) = Segments(cfg, j) /\ i <= j
<1>1. exact = Suitable(cfg, q, "exact")
  BY ExactTier
<1>2. regex = Suitable(cfg, q, "regex")
  BY DEF regex_match, RegexRoutes, Suitable, Accepted
<1>3. S = {} <=> prefix = {}
  BY PrefixTier
<1>4. ASSUME prefix # {}
      PROVE  Min(prefix) = best
  <2>0. PICK i \in S : /\ prefix = {i}
                       /\ \A j \in S : \/ Segments(cfg, i) > Segments(cfg, j)
                                       \/ Segments(cfg, i) = Segments(cfg, j) /\ i >= j
    BY <1>4, PrefixTier
  <2>2. ASSUME NEW j \in S
        PROVE  j \in Nat /\ Segments(cfg, j) \in Nat
    <3>1. j \in DOMAIN cfg.routes /\ cfg.routes[j].kind = "prefix"
      BY DEF Suitable
    <3>2. j \in 1 .. Len(cfg.routes) /\ normalise_path(cfg.routes[j].path) \in Seq(Segment)
      BY <3>1, RoutePaths
    <3> QED
      BY <3>2 DEF Segments
  <2>1. \A j \in S : \/ Segments(cfg, i) > Segments(cfg, j)
                     \/ Segments(cfg, i) = Segments(cfg, j) /\ i <= j
    <3> SUFFICES ASSUME NEW j \in S, Segments(cfg, i) = Segments(cfg, j) PROVE i <= j
      BY <2>0
    <3>1. i = j
      BY LongestIsOne
    <3> QED
      BY <2>2, <3>1
  <2>3. best \in S /\ \A j \in S : \/ Segments(cfg, best) > Segments(cfg, j)
                                   \/ Segments(cfg, best) = Segments(cfg, j) /\ best <= j
    <3> HIDE DEF S
    <3> QED
      BY <2>1, Zenon
  <2> HIDE DEF best, S
  <2>4. i = best
    <3>1. Segments(cfg, i) = Segments(cfg, best) /\ i <= best /\ best <= i
      BY <2>1, <2>2, <2>3
    <3> QED
      BY <2>2, <2>3, <3>1
  <2>5. Min({i}) = i
    <3>1. i <= i
      BY <2>2
    <3> QED
      BY <3>1 DEF Min
  <2> QED
    BY <2>0, <2>4, <2>5
<1>5. match_request(cfg, q)
        = CASE exact # {} -> cfg.routes[Min(exact)]
            [] exact = {} /\ prefix # {} -> cfg.routes[Min(prefix)]
            [] exact = {} /\ prefix = {} /\ regex # {} -> cfg.routes[Min(regex)]
            [] OTHER -> None
  BY DEF match_request
<1>6. Winner(cfg, q)
        = CASE exact # {} -> cfg.routes[Min(exact)]
            [] exact = {} /\ S # {} -> cfg.routes[best]
            [] exact = {} /\ S = {} /\ regex # {} -> cfg.routes[Min(regex)]
            [] OTHER -> None
  <2> HIDE DEF exact, regex
  <2> QED
    BY <1>1, <1>2 DEF Winner, Segments
<1> HIDE DEF exact, prefix, regex, S, best
<1> QED
  BY <1>3, <1>4, <1>5, <1>6

-----------------------------------------------------------------------------
\* The reload, the keys and the requests are, in every reachable state, as the
\* inductive invariant says: the three parts of handle, JwtProvider and
\* ConfigWatcher that the results below rest on.
THEOREM PipelineInvariant == Spec => []PipelineInv
BY PipelineInit, PipelineNext, PTL DEF Spec

\* Whatever is cancelled, those who wait for the lock of the key cache are in line
\* once, and the one who asks the issuer is the one who holds it.
THEOREM PipelineTypes == Spec => []TypeOK
BY PipelineInvariant, PTL DEF PipelineInv

\* No reload is lost, whatever the order in which file, watch channel and rebuild
\* take their turns.
THEOREM ReloadsReachTheRouter == Spec => []RouterFollowsConfig
<1>1. PipelineInv => RouterFollowsConfig
  BY PipelineAssumption DEF PipelineInv, ReloadInv, RouterFollowsConfig, Valid
<1> QED
  BY <1>1, PipelineInvariant, PTL

\* Whatever is reloaded, and with every table: the tries and the list of regexes give
\* each request the route that "exact, prefix (longest first), regex (declaration
\* order)" names, and 404 only where no route is made for it, unless the table has two
\* exact routes or two equal prefixes for it.
THEOREM MatchesFollowPrecedence == Spec => []MatchFollowsPrecedence
<1>1. PipelineInv => MatchFollowsPrecedence
  <2> SUFFICES ASSUME PipelineInv, NEW q \in Clear[table]
               PROVE  Matches[table][q] = Winners[table][q]
    BY DEF MatchFollowsPrecedence
  <2>1. table \in DOMAIN Configs /\ GatewayConfig(Configs[table])
    BY PipelineAssumption DEF PipelineInv, TypeOK
  <2>2. q \in Shapes /\ ~Ambiguous(Configs[table], q)
    BY <2>1 DEF Clear
  <2>3. match_request(Configs[table], q) = Winner(Configs[table], q)
    BY <2>1, <2>2, PipelineAssumption, MatchIsWinner
  <2> QED
    BY <2>1, <2>2, <2>3 DEF Matches, Winners
<1> QED
  BY <1>1, PipelineInvariant, PTL

\* No request gets past AuthPipeline without what its route asks for, and no token
\* counts that its key pair did not sign or whose key is long withdrawn, unless the
\* fetch that should have told has failed.
THEOREM OnlyTheAuthorisedPass == Spec => OnlyAuthorised
<1>1. PipelineInv /\ [Next]_vars => [\A r \in Requests : Authorised(r)]_vars
  BY PipelineNext
<1> QED
  BY <1>1, PipelineInvariant, PTL DEF Spec, OnlyAuthorised

\* A fetch replaces only keys that have expired: the second look under the write
\* lock makes the others of a herd use what the first has fetched.
THEOREM NoHerd == Spec => RefreshedOnce
<1>1. PipelineInv /\ [Next]_vars => [NoWaste]_vars
  BY PipelineNext
<1> QED
  BY <1>1, PipelineInvariant, PTL DEF Spec, RefreshedOnce, NoWaste
=============================================================================
