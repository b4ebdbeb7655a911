# stateform: TLA+ models, checks and proofs

stateform is an API gateway: a Rust data plane (`src/crates/`, one tokio process
per instance) and a Go control plane (`src/control-plane/`) that watches
Kubernetes and streams configuration to the data planes. This directory models
the parts whose correctness depends on orders of events that tests hardly reach.

## 1. Inventory

| Component | State | Operations | Hard because |
|---|---|---|---|
| Concurrency gate (`gateway-core/concurrency.rs`) | a global semaphore, one per capped route | `acquire` (two awaits with timeouts), drop of the permit | futures dropped at either await, permits handed to tasks that are about to give up, two queues at once |
| Startup (`gateway-proxy/main.rs`, `server.rs`, `tls.rs`) | the parts built so far, the tasks spawned so far | load, build, spawn, bind | every step may fail; a signal may come at any of them |
| Server and shutdown (`server.rs`, `shutdown.rs`, `gateway-proxy/main.rs`) | watch channel, drain counter, connection gauge, a task per connection and per HTTP/2 request | accept, serve, signal, drain, exit | the accept loop, the signal task, the connections and the exit of `main` race |
| Health checks (`health.rs`, `upstream.rs`) | per endpoint: state, two streak counters, time of the last transition | `mark_failure`, `mark_success` | thresholds reached while a cooldown suppresses transitions; a settable clock |
| Load balancing and retries (`upstream.rs`) | `rr_counter`; per endpoint weight, health, `active_conns`, `ewma_latency` | `select_endpoint`, `send`, `send_with_retry`, `update_ewma` | several reads of atomics that others write, cancellation, machine arithmetic |
| Request pipeline (`pipeline.rs`) | none of its own | match, gate, auth, rate limit, cache, upstream, store | order of the stages, early returns that hold permits |
| Router (`gateway-router`) | a trie behind an ArcSwap | `match_request`, `rebuild` | precedence among routes |
| Rate limiter (`gateway-ratelimit`) | L1 buckets in a concurrent map, L2 buckets in Redis | `check`, refill, fail-open | clocks of several gateways, check-then-act |
| Cache (`gateway-cache`) | L1 map, L2 Redis | `lookup`, `store`, eviction | capacity race, expiry on two levels, Vary |
| Authentication (`gateway-auth`) | JWKS cache, API key table | JWT, API key, mTLS providers in order | stale keys, refresh races |
| Configuration (`gateway-config`) | the current config, a notification channel | load, validate, `hot_reload` | what a reload does and does not rebuild |
| Metrics (`gateway-metrics`) | a registry of counters, histograms and gauges | record, expose | a request is counted in several places, between which it may be dropped |
| Control plane loader (`internal/config/loader.go`) | config text and version | `Reload`, `Current` | the file is read outside the lock |
| Control plane server (`internal/grpc/server.go`) | map of subscribers | `Subscribe`, `Reload`, `BroadcastSnapshot` | every publisher and every call is a goroutine |
| Admin API (`internal/admin/server.go`) | none | reload, read-only GETs | one more concurrent publisher |
| Kubernetes watcher (`internal/k8s/watcher.go`) | client-go's informers | event handlers | handlers of one informer run one at a time |

Interactions: `serve_http` calls `pipeline::handle`, which takes a permit of the
gate, passes the other stages and calls `UpstreamPool::send`; the health tasks
write the atomics that `select_endpoint` reads; the signal task flips the watch
channel that the accept loop selects on. In the control plane informer handlers,
Admin requests and Reload RPCs all call `Reload`, `Current`, `BroadcastSnapshot`
with no common lock, on the same streams that `Subscribe` calls write to.

## 2. Modules

| Module | Models | Extends / instantiates |
|---|---|---|
| `Admission` | what the gate promises, abstractly | |
| `Concurrency` | the gate, request by request; tokio's FIFO semaphore is external | `INSTANCE Admission` |
| `Telemetry` | the metrics registry and its recording calls, pure | |
| `Exchange` | one request from its head to its answer, with what it counts | `Telemetry` |
| `Startup` | `main()` and `run()` up to the accept loop, and the signal task | |
| `Shutdown` | the process from `main()` to its exit | `Startup`, `Exchange` |
| `Health` | one endpoint and its health task | |
| `LoadBalancer` | the pure parts of selection, averaging and backoff | |
| `Upstream` | requests on one pool, step by step | `LoadBalancer` |
| `ControlPlane` | loader, publishers, subscriptions, stop | |
| `TokenBucket` | real time, and the arithmetic both token buckets share | |
| `LocalLimiter` | L1 of the rate limiter: the buckets of one process | `TokenBucket` |
| `SharedLimiter` | L2: one key's bucket or window in Redis, used by several gateways | `TokenBucket` |
| `Cache` | the two-tier response cache of several gateways, for one resource | |
| `Router` | validation of a configuration and the matching of requests, pure | |
| `Auth` | the providers in order, and the JWKS cache behind its lock | |
| `Pipeline` | requests through all stages while the configuration is reloaded | `Auth`, `INSTANCE Router` |
| `MC*` | constants for TLC | the module they are named after |
| `ConcurrencyProofs`, `HealthProofs`, `ControlPlaneProofs`, `CacheProofs`, `UpstreamProofs`, `ShutdownProofs`, `PipelineProofs` | TLAPS proofs | the module they are named after |
| `LimiterProofs` | TLAPS proofs about both levels of the rate limiter | `LocalLimiter`, `SharedLimiter` |

Definitions named in a comment as *Mutant* are faulty variants of the definition
that follows them; no specification uses them. Putting one in the place of the
real definition must make TLC report the property it is listed with.

**Concurrency.** `avail`, `held` and `waiters` are the semaphores; `pc` says how
far each request is. `Arrive`/`AcquireRoute`/`SkipRoute`/`Enter` are the path
through `acquire`, `TimeoutGlobal`/`TimeoutRoute` its two timeouts,
`CancelGlobal`/`CancelRoute` the drop of the future at either await,
`Unwind`, `Finish`, `DropRoute` the destructors in field order (global before
route). tokio hands a returned permit to the first waiter, who notices when it
is next polled; `Abandon` covers a waiter that is dropped or times out in between. A semaphore is
never closed by the code, so the "closed" arms are unreachable and left out.

**Telemetry.** A registry is a function from the series it has to their counts; a
series is a family with the label that says how a request went. `AuthError` is here too, since its variants decide both the status
of a refusal and the label it is counted under.

**Exchange.** `req[q].at` is the await a request's handler is at. `Receive`,
`ReadByte`, `BodyEnds` and `BodyBreaks` are the reading of the body in `serve_http`,
byte by byte up to `MaxBody`; from `Match` on it is `pipeline::handle`, in which the
other components are the outcomes they may have. Each action counts what the code
counts before its next await. An answered request keeps only what it was told.

**Startup.** `main` walks through the awaits of `main()`, `build()` and `run()`;
`BootFails`, `AcceptorFails` and `KilledEarly` end the process. `coord` is the task
that waits for the signal. `build_acceptor` needs every file the TLS block names.

**Shutdown.** `select!` may take either ready branch. An accept error sleeps
without looking at the signal (`AcceptError`, `BackoffOver`). `Exit` is the
return of `run()` and `main()`: tokio drops every task where it is (`Perish`).
`connOf[q]` is the connection a request is served on. Over HTTP/1 the handler is
part of the connection's task and ends with it (`ServeEnds`); over HTTP/2 it is a
task of its own, which notices that its stream or connection is gone when it is
polled (`DropStream`).

**Health.** The wall clock appears only as `now - last_state_change_ms`
(`since`), saturated at the cooldown; `StepClock` is a change of the system time.
`valid_url` says whether a request can be built from the endpoint's address and the
health path; if not, the loop goes on without a result (`BuildFails`).
`dwell`, `stepped` and `recent` are history for the properties.

**Upstream.** Filter, sum and walk are separate steps because health may change
between them; within one scan over the endpoints all are read at one instant.
`Word` is one more than the largest machine integer (2^64 and 2^32 in the code).
`HealthChange` makes any transition `Health` can make. `Pool` has the numbers of the
configured endpoints that start as active, in the configuration's order; the lists
the code filters from it are sets of such numbers, walked upwards.

**ControlPlane.** A file content is the number of the write that produced it.
`pub[p].pc` walks through `reload()`, `Current()` and `BroadcastSnapshot`; `strm`
through `Subscribe`. The subscriber map is a set of streams with the map's
overwrite-and-delete-by-id behaviour in `Without`. Concurrent `Send`s on one
stream, which grpc-go does not promise to order, are delivered whole and in
either order. The read-only GET handlers change nothing and are left out. A data
plane in `Slow` may stop reading for ever, so that a `Send` to it never ends.

**LocalLimiter.** A request passes `L1LocalLimiter::check` before Redis is asked,
and its token is spent whatever Redis says; nothing flows back from L2 to L1. So
L1 is a module of its own: `Deny` and `Pass` are the two outcomes of `consume()`,
refill included, and `derive_key` picks the identity a request is counted under.
Tokens are counted in units of which `One` make a token, so fractions survive.
`passes` is history: the times at which each client was let through since the process
started. `Restart` clears it together with the buckets, so a budget is that of one
life of the process; across a restart a client has a full bucket again.

**SharedLimiter.** `check_inner` reads the gateway's own clock before the round
trip (`Send`), and a script runs atomically in Redis later (`TokenBucketScript`,
`SlidingWindowScript`) with that older time. `CallFails` loses the call or only
its answer; `FailOpen` is what the caller makes of it; `Abandon` is a dropped
request whose call still arrives. With a `refill_rate` of 0 the script's `EXPIRE`
gets an infinite time and fails after `HMSET` has written
(`TokenBucketScriptFails`). Routes without a policy change no state, and unknown
algorithms are rejected by the validation. The sorted set of the window is the set of
its members with their scores; a member is named by the number of its grant, which
stands for the unique `req_id`. `Spread` bounds how far two gateways' clocks are
apart. A refusal's milliseconds reach the client as whole seconds, rounded down
(`RetryAfter`); `Second` is a second in ticks. `grants`, `back` and `due` are history:
when the scripts granted requests, how far calls have moved `last_refill` back in
all, and when the client that was refused last may be back: a second after what it was
told, which makes up for the rounding, on the slowest of the clocks.

**Cache.** A step ends at each await and inside `L1Cache::put`, whose length check,
choice of a victim and insertion are separate operations on a concurrent map.
Requests walk through `lookup` (`Lookup`, `GetL1*`, `GetL2*`, `Promote*`,
`Respond`) and `store` (`Fetch`, `Store*`, `PutL2`); `Bypass` skips the lookup and
still stores. Redis runs a GET in `GetL2`, and its reply arrives later (`GetL2Hit`,
`GetL2Miss`). Redis may fail or be slow at every call. `invalidate` is modelled
although nothing in the repository calls it. The fields `by`, `created` and
`private` of an entry are history.

**Router.** A path is the sequence of strings between its slashes; empty ones
vanish in the tries (`normalise_path`, segment by segment), while a regex sees the
path as it was sent. A node of a trie is the set of the positions of the routes
inserted there, so their order in it is that of the configuration. `find_exact`
returns the first of a node; `prefix_match` walks from the deepest node on the
request's path to the root and takes the last route of a node first, which is the
order of the reversed list of candidates; `match_request` searches the three tiers.
`Winner` is the reference: the documented order stated as a maximum over the declared
routes, with no trie and no walk. `Ambiguous` are the requests for which a table has
two exact routes, or two equal prefixes: there the code does not follow the documents
(section 5), and `MatchFollowsPrecedence` leaves them out. A regex is the set of the paths it matches, a header pattern
the set of the values it matches. `GatewayConfig` and its parts say which
configurations deserialise, `validate` which of them are accepted.

**Auth.** tokio's read-write lock is external and fair: `queue` holds those who
asked for it, in order. `ReadKeys` is the fast path, `LockKeys` the second look
under the write lock, `FetchArrives` and `FetchFails` the two ends of the fetch,
during which the writer keeps the lock. `find_key` and `find_fetched` differ for a
token that names no key, as in the code. A token has the key id and algorithm of its
header, the key pair that signed it and the claims that are checked; `decode_header`
and `decode` are what jsonwebtoken 9 makes of them. No code attaches a
`PeerCertificate` to a request, so the mTLS provider only ever finds none.
`passed`, `stale` and `rotated` are history.

**Pipeline.** `Arrive` to `UpstreamDone` are the stages of `handle`; the gate, the
limiter, the cache and the pools, which have modules of their own, are one await
each with its outcomes. The 404 changes nothing and is the guard of `Arrive`.
`Cancel` drops the handler at any await, lock included. `ReadFile` to
`NotifyReload` are `ConfigWatcher::reload`; the file may hold any configuration
when it is read. `TakeUpdate` and `Rebuild` are the task spawned in `run()`. One
reload runs at a time: nothing in the repository calls `reload`, and the method
itself would let two calls store and send in different orders.

## 3. Runs

| Run | Question | Distinct states |
|---|---|---|
| `gate` | Do permits survive every mix of completion, timeout and cancellation? Is anyone left waiting? Does the gate implement `Admission`? | 16 302 |
| `shutdown` | Do the counters say what happened, whatever was dropped half-way? Do bodies arrive whole or empty? Is "drained" true, and does a signalled process end, even one that is still starting? | 72 428 |
| `shutdown_cut` (violation) | Is no request cut off mid-flight? | |
| `health` | Are transitions earned, spaced by the cooldown, and eventually made? | 7 271 |
| `upstream` | Are connections accounted through errors and retries, only filtered endpoints chosen, requests resent only when safe, averages sane? | 1 077 507 |
| `jitter` (violation) | Is the retry delay within 25% of its base? | |
| `control_plane` | Is every snapshot an installed config? Does the map hold live calls only? | 2 785 362 |
| `control_plane_live` | Does an update reach a data plane that subscribes meanwhile, while another has stopped reading? Does a stop end? | 235 276 |
| `local_limiter` | Does one subject stay within its bucket from whatever addresses, and is a refusal ever unjustified? | 273 724 |
| `shared_limiter` | What do the scripts grant when clocks differ and calls overtake each other? Is a client that waits a second longer than Retry-After says back in time? | 2 872 873 |
| `cache` | Does a private response stay home, and is what is served fresh up to the time Redis takes? | 978 826 |
| `pipeline` | Does matching follow the documented precedence where no two routes are equal, is any reload lost, does only an authorised request get through, are good keys fetched again? | 831 276 |

### Bounds

* gate: three requests of a route capped at 1, two of another, three global
  permits: both queues fill, the route can occupy the pool, and a hand-over can
  race a timeout or a cancellation. The proofs remove the bound.
* shutdown: two connections, a request on either over either protocol, and a drain
  of two polls: a request in flight at the signal, one arriving later, and a drain
  that ends either way. One request is enough for the counters, because requests
  meet only in the components modelled elsewhere and in HTTP/1's rule of one at a
  time, and a registry adds up what each has counted. Bodies of up to three bytes
  under a limit of two; one refusal of each auth mechanism; two limiters to build
  and two TLS files of which either may be missing. An answered request is final,
  so the counters stay finite.
* health: thresholds 2 and 3, a cooldown of 3 ticks, so that streaks pass a
  threshold inside it; clock steps of 2 either way. Counters saturate at `Cap`
  above both thresholds, where the code distinguishes no values. Endpoints whose
  probe can be built and one whose cannot are both initial states.
* upstream: two endpoints of weights 1 and 3 and an inactive one, two requests, two attempts each:
  one request's writes fall between any two reads of the other.
* control plane: two publishers, an informer and an Admin request (or an RPC), so
  two reloads overlap; two `Subscribe` calls of one instance and three file contents,
  of which the second is invalid, for safety; for liveness one call of each of two
  instances, the first of which may stop reading, and one informer with two events.
* local limiter: two clients of one subject behind different addresses and one
  without a subject; three units to a token and a refill of two per tick, so that
  fractions matter; five ticks refill an empty bucket completely.
* shared limiter: two gateways whose clocks are a tick apart, one request at each,
  calls of up to one tick (`MaxDelay`), so either may overtake the other; each of
  the two algorithms, a refill rate of 0 and a limit of 0; six ticks outlast the window of four
  and a bucket's time to live. No new call is sent once `last_refill` has been
  moved back by `MaxBack` in all, which keeps the history finite. `WindowLimit`
  speaks of intervals shorter than the window by the delay and the spread of the
  clocks: within those the limit holds, beyond them it need not. A second is two
  ticks, so that rounding down loses something.
* cache: two gateways with clocks a tick apart, two requests, an L1 of one entry
  (every put evicts), a route ttl of two ticks of three, two stores or
  invalidations in all: one to be found and one to race with it. The header that
  responses vary on has one value, since no lookup gets as far as to compare it
  (`VariantsNeverServed`). Four ticks are enough
  for an entry to be late on its way to Redis and again on its way back. `FreshEnough`
  allows for the longest call both ways (`2 * MaxDelay`) or for the difference between
  the clocks of the gateway that stored the entry and the one that serves it, and no
  more; with an allowance of one `MaxDelay` TLC finds it violated. The two
  requests are interchangeable, so their symmetry is used.
* pipeline: two interchangeable requests (symmetry), enough for one to hold the
  lock while the other waits, and to expire together; keys that live one tick and
  an answer under way for up to one (`MaxFetch`); one rotation of the issuer's
  keys, from an RSA to an EC pair next to a key of an unknown type; tokens that name
  a key, name none, or claim a symmetric algorithm; three configurations, of which the second adds a route, a policy and an
  upstream and the third is invalid; an exact route for another method than that of
  the request, two equal prefixes that headers tell apart, a deeper and a wider prefix,
  and a regex, with upper case and superfluous slashes.

### Fairness

* gate: the runtime polls ready tasks and runs destructors. That timers fire is
  assumed for `AcquireEnds` only, that admitted requests end for
  `QueuedGetsTurn` only; each stands in the property itself.
* shutdown: weak fairness of `main()` once the signal task exists (binding a
  listener and reading the TLS files end) and of the accept loop's and the signal
  task's own steps; strong fairness of the stop branch, because `select!` picks
  among ready branches at random. Nothing is assumed of clients and handlers.
* health: the interval ticks, every probe that is sent ends (it has a timeout), time
  passes, and clock steps stop in the end. A probe that cannot be built has no result,
  so `ProbesDecide` promises that failures take an endpoint out only where it can.
* control plane: goroutines run. A `Send` to a data plane outside `Slow` ends,
  because it reads; one to a data plane in `Slow` is only known to end when the
  transport is gone, since the code sets no deadline on it.

Deadlock checking is off where the modelled clients may simply stop coming
(`Shutdown`, `Upstream`, `ControlPlane`), and where the bounded time may
run out (`SharedLimiter`, `Cache`).

## 4. Proofs

Every safety property of the passing runs is a theorem for all values of the
constants. A proof module states the inductive invariant, proves what each action
does to each of its parts and derives the theorems. Every invariant was first
checked by TLC on the constants of the component's run. The assumptions are the
`ASSUME`s of the modules, which TLC evaluates in every run: numbers are numbers,
sets that are counted (requests, connections) are finite, and a `None` is none of
the values it is told apart from.

| Module | Theorem | States |
|---|---|---|
| `ConcurrencyProofs` | `GateTypes` | `TypeOK` |
| | `GateSafety` | `PermitConservation` and `NothingLeftBehind` |
| | `GateRefinesAdmission` | the gate implements `Admission` |
| `HealthProofs` | `HealthTypes`, `CountsStreaks` | `TypeOK`, `CountersAreStreaks` |
| | `EarnsItsState`, `HoldsEachState` | `TransitionsEarned`, `StaysForCooldown` |
| `ControlPlaneProofs` | `SnapshotsGenuine`, `SubscribersLive` | `SnapshotsAreGenuine`, `NoGhostSubscriber` |
| `CacheProofs` | `CacheTypes`, `PrivateAtHome`, `ServedFresh` | `TypeOK`, `PrivateStaysHome`, `FreshEnough` |
| | `VariantsNeverServed` | no response with a `Vary` is ever served |
| `UpstreamProofs` | `UpstreamTypes`, `ConnectionsCounted` | `TypeOK`, `ConnsAccounted` |
| | `PicksAvailable`, `RetriesAreSafe` | `NeverPicksFiltered`, `ResentOnlyAfterAnswer` |
| | `AverageIsBounded` | `EwmaWithinSamples` |
| `ShutdownProofs` | `CountersAreExact`, `DrainIsReal` | `CountersMatch`, `DrainedIsTrue` |
| | `MetricsTellTheTruth`, `BodiesAreWhole` | `AnswersAccounted`, `BodiesWholeOrEmpty` |
| `PipelineProofs` | `PipelineTypes`, `ReloadsReachTheRouter` | `TypeOK`, `RouterFollowsConfig` |
| | `OnlyTheAuthorisedPass`, `NoHerd` | `OnlyAuthorised`, `RefreshedOnce` |
| | `MatchesFollowPrecedence` | `MatchFollowsPrecedence` |
| `LimiterProofs` | `LocalTypes`, `LocalBudgetHolds`, `DenialsAreJustified` | `LocalTypeOK`, `LocalBudget`, `DenialJustified` |
| | `SharedTypes`, `WindowLimitHolds`, `TokenBudgetHolds` | `SharedTypeOK`, `WindowLimit`, `TokenBudget` |
| | `RetriesAreEnough` | `RetryIsEnough` |

Each module also has its inductive invariant as a theorem (`GateInvariant`,
`HealthInvariant` and so on). Why the invariants are what they are:

* **Gate** (`GateInv`; any sets of requests and routes, any capacities, zero
  included). Conservation by itself is not inductive: dropping a permit preserves the
  sum only if the dropper really holds one, and a hand-over only if the first waiter
  does not. So `SemaphoreInv` adds that holders and waiters are disjoint and nobody
  queues twice, and `PlacementInv` ties each request's `pc` to the semaphores that
  know of it. `AcquireSound`, `ReleaseSound`, `DequeueSound` and `AbandonSound` say
  what each operation does to one semaphore. For the refinement, requests past the
  gate hold permits, so by conservation they are within every ceiling.
* **Health** (`HealthInv`; any thresholds, cooldown and clock steps). `TypeOK` and
  `CountersAreStreaks`, which has a counter equal to its streak in the history, are
  inductive together, and the action properties follow: a
  step decides with counters that are the streaks of the history, and `since` is the
  real time since the last transition unless the clock was stepped.
* **Control plane** (`ControlInv`; any publishers and calls, over `Safety`, the
  specification without fairness). What a data plane has received was before
  in a publisher's or a call's hands, and before that read from the file, so the
  invariant says of every place a snapshot passes through that what is there is valid
  and has its own version.
* **Cache** (`CacheInv`; any gateways, skews, delays and responses). The stores are
  safe only if what requests have in hand between two awaits is: a private entry is
  only held by a request of the gateway that fetched it; an entry on its way to Redis
  has aged no longer than the call has taken, so one in Redis is overdue by less than
  `MaxDelay`, and one on its way back by less than that and the time its reply has
  taken (`RequestInv`); and a request works with an extended key only to store.
* **Upstream** (`UpstreamInv`; any pool, algorithm, word and retry policy).
  `RequestInv` says which endpoint, log and attempt number a request may have at each
  `pc`; averages that were loaded are within the samples as well as those stored,
  because a concurrent update overwrites one with a value made of the other. `ConnsInv` also
  counts the requests that were cancelled on an endpoint, which no step subtracts
  again; without any, it is `ConnsAccounted`. A counter that wraps is compared modulo
  `Word`. The weighted walk always ends on an endpoint:
  the running sum of weights reaches the total, which is a statement about a recursive
  function, shown by taking the least number at which it fails.
* **Serving process** (`ServingInv`, `ExchangeInv`; any connections, requests, bodies
  and replies). The drain counter is inductive with the states of the connections;
  that a request which somebody awaits is on an open connection gives `DrainedIsTrue`.
  `Tallied` says, for each series, which requests it has counted, as a function of how
  far each is and where it was dropped; `AnswersAccounted` is the sum of these. It
  says of `requests_total` only what code and comments agree on: no request is in it
  twice, or in a class its client was not told.
* **Pipeline** (`PipelineInv`; any requests, configurations, routes and publications).
  `ReloadInv` says that whatever the router's task has not taken, is building or has
  built is the last value sent, and that only a reload between its two steps has more
  to send. `KeysInv` says of keys in the cache and on their way that they were
  published within a known time, and that the write lock is held only over keys that
  are not good. `JourneyInv` carries the first provider's verdict past the second. The
  queue of the lock has no duplicates, without which a cancelled request could leave a
  place in it behind.
* **Router** (any configuration that deserialises, any path, method and headers). Of a
  table the invariant only says that it is a configuration; the rest is the lemma
  `MatchIsWinner` about pure operators. A recursive function of TLA+ is a choice, so
  that the walk exists at all is a theorem (`RecursionExists`: take the least number
  up to which there is none). `PrefixTier` shows by a least counterexample that the
  walk from depth d returns the best suitable route of at most d segments, a node
  being on the way exactly if it stands for a prefix (`NodeOnTheWay`); the `CHOOSE` of
  the reference has one candidate, because depth and position order all routes.
* **Local limiter** (`LocalInv`; any clients, identities, capacity and rate). The
  tokens in a bucket say nothing about the past. `Covers` does: what has passed since
  any moment plus what the bucket holds is at most a full bucket and the refill since,
  and for some moment it is exactly that. The first half gives `LocalBudget`, the
  second `DenialJustified`.
* **Shared limiter** (`SharedInv`; any gateways, skews, policies and delays). `CallInv`:
  the time a call carries is its gateway's, read at most `MaxDelay` ago. For the bucket,
  `BalanceInv` is `TokenBudget` without the condition that the key is alive: it must
  survive expiry, after which a script starts with a full bucket. It does because the
  key only expires once the refill since would have filled the bucket on the clock
  of every gateway, for which the buffer in the time to live has to cover delay and
  spread. For the window, `EntriesInv` says that a grant is in the sorted set, under a
  score not much older than itself, for as long as an interval that reaches from it to
  the present could be one that `WindowLimit` speaks of, whoever has pruned the set
  with whichever clock; so the script has counted it. `DueInv` gives `RetryIsEnough`:
  since the last refusal the key is as that script left it, and at the time `due` the
  bucket has a token again, or an entry has left the window, by every gateway's clock
  (`BucketRefilled`, `WindowMoved`).

Sums over a set are stated as the cardinality of the set of things counted, and facts
about recursive functions go through the least-number principle of
`WellFoundedInduction`, since none of the provers can instantiate an induction rule
that takes a predicate.

What stays with TLC: liveness under fairness (`AcquireEnds`, `QueuedGetsTurn`,
`ProbesDecide`, `SignalledExits`, `UpdatesReachEveryone`, `StopsWhenAlone`), which is out
of the prover's reach.

## 5. Known disagreements between code and documents

Checked by a run: requests are cut at exit because nothing waits for the drain
(`shutdown_cut`); half of the jitter values make a retry sleep for `u64::MAX` ms
(`jitter`).

Read off the same models. Where a property touches one of these, it leaves the case
out and says so here, rather than state what the code does as what it should do:

* `active_conns` keeps counting a cancelled request for ever; `upstream.rs:112`
  calls it the "Active in-flight request count". `ConnsAccounted` holds it to that on
  endpoints where no request was cancelled. The loss is at the await `upstream.rs:344`.
* A `Healthy` endpoint can go straight to `Unhealthy` once failures pile up during
  the cooldown (`upstream.rs:168`: "Step down to Degraded first"), and a step of
  the system clock ends the cooldown early; `StaysForCooldown` excludes it.
* An endpoint for which no probe request can be built (`health.rs:118-123`) is never
  marked, so it stays `Healthy` whatever happens to it.
* A key's backend changes with the number of available endpoints (`README.md:88`).
* Snapshots can reach a data plane in the wrong order, and a reload that read the
  old file can install it under the newest version (`control_plane.proto:14`, `:26`).
* `endpointsChanged` compares how many subsets there are and how many addresses and
  ports each has, so a replaced address goes unnoticed (`watcher.go:195`: "returns true
  when the ready addresses or ports changed").
* `GracefulStop` waits for `Subscribe` calls that nothing ends (`server.go:91`);
  `StopsWhenAlone` is what remains.
* The gate takes the global permit before the route's, so requests queueing for one
  capped route can hold the whole global pool (`concurrency.rs:10-12` and
  `schema.rs:181-185` promise isolation); `Admission` promises ceilings only.
* Two broadcasts that fail on the same data plane both close its channel, and the
  second close crashes the control plane (`grpc/server.go:156`, comment at `:35`).
* When a data plane reconnects under the same id, the deferred `delete` of its old
  call removes the new entry (`grpc/server.go:78`); `control_plane_live` therefore
  gives each instance one call, and `UpdatesReachEveryone` is claimed for that.
* A call whose clock is behind moves the shared bucket's `last_refill` back, and
  the same time is refilled twice (`README.md:57` "enforced consistently",
  `l2_redis.rs:119-122` "no race conditions"). `TokenBudget` has the exact sum.
* A `refill_rate` of 0, which the validation accepts, makes every L2 call fail and
  so pass.
* The `Retry-After` of an L1 refusal is always one second (`limiter.rs:134`), and
  `limiter.rs:45` truncates the milliseconds of an L2 refusal (`limiter.rs:193-203`
  expects 3500 to be told as 3), so a client that waits as told may be up to a second
  early (`limiter.rs:25`: "Milliseconds until retry").
  `RetryIsEnough` has that second.
* A response without `Vary` is never stored: `parse_vary` returns `None` for it as
  for `*` (`control.rs:105-111`; `README.md:66`). A response that does vary is
  stored under a key built from its own headers (`pipeline.rs:221`), with nothing
  under the base key, so no lookup finds it. Were it stored under the base key,
  the `unwrap_or` at `cache.rs:114` would serve it whatever the headers.
  `VariantsNeverServed` proves that no response with a `Vary` is served at all.
* Two concurrent puts that both find room, or both choose the same victim, leave L1
  of the cache over its capacity (`l1_local.rs:10`: "bounded by `capacity` entries");
  the victim is any entry, not the least recent one (`README.md:63`: "LRU").
* `find_exact` returns the first route of a node only (`router.rs:38-39`: "Within
  each tier, method and header predicates are applied to narrow candidates"), so a
  second exact route on one path is out of reach although `trie.rs:9-10` has "multiple
  routes" share a node that "differ in method or headers". Of equal prefixes the last
  declared one wins (`schema.rs:158`: "evaluated top-to-bottom").
  `MatchFollowsPrecedence` is about all other requests.
* Header patterns are compiled at every match and one that does not compile never
  matches; `predicate.rs:42` calls them pre-validated, and the validation skips them.
* A reload rebuilds the router alone. A route to a new upstream answers 502, a new
  rate limit policy lets everything pass, and new caps are unknown to the gate
  (`limiter.rs:68`: "On reload, a new `RateLimiter` is built"). Nothing
  in the data plane calls `reload` to begin with.
* The fetch of the issuer's keys happens under the write lock with no timeout, so
  every verification waits for it (`jwt.rs:72-74`: "in the background to avoid
  blocking the hot path").
* A token that names no key is refused by the request that fetched the keys, unless
  a key has no id, and accepted from the cache right after.
* A token without `aud` or `iss` is accepted whatever audience and issuers are
  configured: jsonwebtoken only checks the claims a token has.
* `requests_total` counts the answers that came from an upstream and no others: no
  404, 413, 429, 401, 403 or 503 of the gateway, no cache hit, no 502 or 504
  (`registry.rs:19`: "Total requests received", `recorder.rs:42`: "Call once per
  request"). `AnswersAccounted` says of it only that it has none twice or in a wrong
  class; the other counters are held to their exact sums.
* The label of `concurrency_rejected_total` is always `limit` (`registry.rs:77`:
  "global" or "route"), that of a cache hit always `hit` (`registry.rs:47`:
  "hit_l1", "hit_l2"). `config_reloads_total` with `failure` never grows: what
  could fail has been validated before.
* A body that cannot be read to its end is forwarded as an empty one
  (`server.rs:253-254`); `BodiesWholeOrEmpty` has it as the one exception.
* The drain guard belongs to a connection, not to a request (`shutdown.rs:37`:
  "Held by each in-flight request"): an idle keep-alive connection holds up the
  drain, and HTTP/2 handlers may outlive theirs. `DrainedIsTrue` says that nobody
  waits for those.
* A signal that comes before the signal task has first run kills the process at once;
  `/healthz` on the metrics port answers before the listener is bound and during
  the drain.
* A `response_set` header is not added to a cache hit (`schema.rs:256`), and the
  answers of the gate and of the body limit have no request id.
* Passive health checks are announced (`health.rs:21-24`) and implemented nowhere.
* `ewma_alpha` is ignored (α is 0.2), a route's `load_balancing` only changes the
  header the hash key is taken from, and `virtual_nodes: 0` or a health check
  `interval` of 0, which the validation accepts, panic.
* A `Send` to a data plane that does not read does not block the others of the same
  broadcast (`grpc/server.go:35`), but its publisher waits for it, and with an
  informer every later event does.
* `loader.go` accepts configurations that the gateway rejects: a weight of 0, an
  unknown policy, a path regex that does not compile.
* A required client certificate is never found (`mtls.rs:59`: "Attached to each
  request by the TLS acceptor").

## 6. Not modelled

* The metrics server, which renders the registry and answers `/healthz`, changes
  nothing; `RequestTimer` is used nowhere. Bucket boundaries and the labels that
  name routes and upstreams are data, and `config_reloads_total` counts `Rebuild`.
* Certificates and cryptography: an acceptor is built or not, a handshake succeeds
  or not, a signature belongs to a key pair.
* Panics: the release profile aborts (`Cargo.toml:79`), so no task unwinds past
  `connection_close` or a guard while the process goes on. Under a debug build's
  unwinding a panic in a connection's task would leave the gauge one too high.
* Keys of the cache are told apart by what they are made of. As strings
  (`key.rs:78-83`) two could coincide, if a path has the text of a `Vary` header in it.
* Header mutations and request ids, which no other part reads.
* `src/files` holds older copies of the configuration crate that no manifest
  compiles; the protobuf bindings are generated.
* What a rotation of weighted round robin gives each endpoint is not checked, nor is
  it that every request is answered in the end (the upstream's and the limiter's
  calls have timeouts, the issuer's has none).
* hyper, tokio, Redis, grpc-go and client-go are external.

## 7. Plan

1. *(done)* gate with proofs; shutdown; health; load balancing; control plane.
2. *(done)* rate limiter (L1 and L2, clocks that disagree, fail-open) and cache
   (lookup and store racing expiry and eviction).
3. *(done)* config reload (watcher, router rebuild, pools that stay), the router
   against a reference definition, authentication with its key cache, and the
   pipeline that composes the stages.
4. *(done)* startup and its failures, HTTP/2 next to HTTP/1, requests with their
   bodies and counters, slow data planes, credentials in detail, the schema.
5. *(done)* proofs about the gate, health, control plane, cache, upstream,
   serving process, pipeline with its router, and both levels of the limiter
   (section 4).
6. Two overlapping reloads, should a caller of `reload` appear; the shares of a
   rotation.
