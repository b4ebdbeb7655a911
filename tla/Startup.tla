------------------------------- MODULE Startup -------------------------------
(***************************************************************************)
(* main() up to the accept loop: load the configuration, build the parts   *)
(* (three of which may wait for Redis), then run(): bind the metrics port, *)
(* spawn the background tasks, bind the listener and build the TLS         *)
(* acceptor.  Every `?` on the way ends the process.                       *)
(*                                                                         *)
(* The task that handles SIGTERM and SIGINT is spawned half-way, and       *)
(* registers its handlers when it first runs.  Until then a signal kills   *)
(* the process.                                                            *)
(***************************************************************************)
EXTENDS Naturals, FiniteSets

CONSTANTS TlsFiles,  \* the files listener.tls names: certificate chain, private key and
                     \* the CA of client certificates, if any; none without TLS
          Policies   \* the rate limit policies

ASSUME StartupAssumption == IsFiniteSet(TlsFiles) /\ IsFiniteSet(Policies)

VARIABLES up,         \* the process is alive
          main,       \* where main() is
          limiters,   \* the policies whose limiters have been built
          signalled,  \* the watch channel's value
          coord       \* the signal task

startupVars == <<up, main, limiters, signalled, coord>>

Booting == {"load", "auth", "ratelimit", "cache", "metrics", "bind"}

StartupInit ==
  up = TRUE /\ main = "load" /\ limiters = {} /\ signalled = FALSE /\ coord = "none"

\* main() gets from one of its awaits to the next.
Boot(from, to) ==
  /\ up /\ main = from
  /\ main' = to
  /\ UNCHANGED <<up, limiters, signalled>>

\* The configuration has been read and is valid.
Load == Boot("load", "auth") /\ UNCHANGED coord

\* AuthPipeline::new, with a connection for the API keys.
BuildAuth == Boot("auth", "ratelimit") /\ UNCHANGED coord

\* RateLimiter::new, with a connection for each policy in turn.
BuildLimiter(p) ==
  /\ up /\ main = "ratelimit" /\ p \in Policies \ limiters
  /\ limiters' = limiters \cup {p}
  /\ UNCHANGED <<up, main, signalled, coord>>

LimitersBuilt == limiters = Policies /\ Boot("ratelimit", "cache") /\ UNCHANGED coord

\* ResponseCache::new, with a connection; the other parts are built at once.
BuildCache == Boot("cache", "metrics") /\ UNCHANGED coord

\* MetricsServer::spawn has its port.  run() spawns the health checks, the reload
\* task and the signal task before it goes on to the listener.
SpawnTasks == Boot("metrics", "bind") /\ coord' = "spawned"

\* An acceptor is built from these files; one that cannot be read or holds no
\* certificate or no PKCS#8 key is an error.
build_acceptor(readable) == TlsFiles \subseteq readable

\* The listener is bound, then the acceptor is built.
Bind(readable) == build_acceptor(readable) /\ Boot("bind", "select") /\ UNCHANGED coord

\* An `?` ends main().
Fail ==
  /\ up /\ main \in Booting
  /\ up' = FALSE
  /\ UNCHANGED <<main, limiters, signalled, coord>>

AcceptorFails(readable) == main = "bind" /\ ~build_acceptor(readable) /\ Fail

\* An unreadable or invalid configuration, no answer from Redis, or an address in use.
BootFails == Fail

-----------------------------------------------------------------------------
(* The signal task *)

\* wait_for_os_signal, up to its select!.
RegisterHandlers ==
  /\ up /\ coord = "spawned"
  /\ coord' = "waiting"
  /\ UNCHANGED <<up, main, limiters, signalled>>

\* A signal without a handler has its default effect.
KilledEarly ==
  /\ up /\ coord \in {"none", "spawned"}
  /\ up' = FALSE
  /\ UNCHANGED <<main, limiters, signalled, coord>>

\* SIGTERM or SIGINT: phase 1 of shutdown().  A signal may come before the loop.
Signal ==
  /\ up /\ coord = "waiting"
  /\ signalled' = TRUE
  /\ coord' = "draining"
  /\ UNCHANGED <<up, main, limiters>>
=============================================================================
