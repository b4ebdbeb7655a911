---------------------------- MODULE LocalLimiter ----------------------------
(***************************************************************************)
(* L1 of the rate limiter: the token buckets of one gateway process, one   *)
(* per key.  Every request that is let through has passed its bucket,      *)
(* before Redis is asked and whatever Redis then says; nothing flows back  *)
(* from L2, so the rest of the request is left out.                        *)
(***************************************************************************)
EXTENDS TokenBucket, Sequences, FiniteSets

CONSTANTS Clients,        \* who sends requests
          Subject,        \* authenticated subject of each, or None
          ForwardedFor,   \* first hop of its X-Forwarded-For, or None
          RealIp,         \* its X-Real-IP, or None
          None,
          Anonymous,      \* the identity of a client with none of these
          Capacity, Rate  \* policy.local, in units

ASSUME LocalLimiterAssumption ==
  /\ Capacity \in Nat /\ Rate \in Nat
  /\ None \notin [tokens : Nat, last_refill : Nat]

\* Mutant: the address comes before the authenticated subject.
derive_key_address_first(c) ==
  IF ForwardedFor[c] # None THEN ForwardedFor[c]
  ELSE IF RealIp[c] # None THEN RealIp[c]
  ELSE IF Subject[c] # None THEN Subject[c]
  ELSE Anonymous

\* The identity a request is counted under, for one route.
derive_key(c) ==
  IF Subject[c] # None THEN Subject[c]
  ELSE IF ForwardedFor[c] # None THEN ForwardedFor[c]
  ELSE IF RealIp[c] # None THEN RealIp[c]
  ELSE Anonymous

Keys == {derive_key(c) : c \in Clients}

VARIABLES buckets,   \* L1LocalLimiter.buckets: a bucket per key seen, or None
          passes     \* history: when requests of each client passed

localVars == <<time, buckets, passes>>

LocalInit ==
  /\ time = 0
  /\ buckets = [k \in Keys |-> None]
  /\ passes = [c \in Clients |-> <<>>]

\* entry(key).or_insert_with(Bucket::new): a new bucket is full.
Entry(k) ==
  IF buckets[k] = None THEN [tokens |-> Capacity, last_refill |-> time] ELSE buckets[k]

\* The bucket as consume() leaves it.
Refilled(tokens) == [tokens |-> tokens, last_refill |-> time]

\* The tokens consume() finds after its refill.
Available(k) ==
  Refill(Entry(k).tokens, Capacity, Rate, Elapsed(time, Entry(k).last_refill))

\* check() refuses: 429.  The refill is kept.
Deny(c) ==
  LET k == derive_key(c)
  IN  /\ Available(k) < One
      /\ buckets' = [buckets EXCEPT ![k] = Refilled(Available(k))]
      /\ UNCHANGED <<time, passes>>

\* check() takes a token, and it is spent whatever L2 says.
Pass(c) ==
  LET k == derive_key(c)
  IN  /\ Available(k) >= One
      /\ buckets' = [buckets EXCEPT ![k] = Refilled(Available(k) - One)]
      /\ passes' = [passes EXCEPT ![c] = Append(@, time)]
      /\ UNCHANGED time

\* The process starts again, with no buckets, and with them a budget begins anew: the
\* history is that of one life of the process.
Restart ==
  /\ buckets' = [k \in Keys |-> None]
  /\ passes' = [c \in Clients |-> <<>>]
  /\ UNCHANGED time

LocalTick ==
  /\ time < MaxTime
  /\ time' = time + 1
  /\ UNCHANGED <<buckets, passes>>

LocalNext == LocalTick \/ Restart \/ \E c \in Clients : Deny(c) \/ Pass(c)

LocalSpec == LocalInit /\ [][LocalNext]_localVars

-----------------------------------------------------------------------------
(* Properties *)

\* Every variable has its type: a bucket never owes tokens and never holds
\* more than its capacity.
LocalTypeOK ==
  /\ time \in Times
  /\ buckets \in [Keys -> {None} \cup [tokens : 0 .. Capacity, last_refill : 0 .. time]]
  /\ passes \in [Clients -> Seq(Times)]

\* Requests of clients C that passed from time a to time b.
PassedIn(C, a, b) ==
  UNION {{<<c, i>> : i \in {j \in DOMAIN passes[c] : passes[c][j] \in a .. b}} : c \in C}

Passed(C, a, b) == Cardinality(PassedIn(C, a, b))

\* "The L1 local bucket is your protection during that window": over every
\* interval, the requests of one subject that a gateway lets through, from
\* whatever addresses they come, fit in a full bucket and the refill.
LocalBudget ==
  \A s \in {Subject[c] : c \in Clients} \ {None} : \A a, b \in Times :
    a <= b => One * Passed({c \in Clients : Subject[c] = s}, a, b)
                <= Capacity + Rate * (b - a)

\* A refusal is never gratuitous: some interval that ends now has no room for
\* one more request of the key.  Retrying early does not cost the refill.
DenialJustified ==
  [][\A c \in Clients : Deny(c) =>
       \E a \in 0 .. time :
         One * (Passed({d \in Clients : derive_key(d) = derive_key(c)}, a, time) + 1)
           > Capacity + Rate * (time - a)]_localVars
=============================================================================
