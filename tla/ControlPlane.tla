----------------------------- MODULE ControlPlane -----------------------------
(***************************************************************************)
(* The Go control plane: the config Loader, the goroutines that reload it  *)
(* and broadcast the result (informer handlers, Admin API requests, Reload *)
(* RPCs), the Subscribe calls of the data planes, and the process's stop.  *)
(*                                                                         *)
(* A file content is the number of the write that produced it, so that     *)
(* smaller means older.  Each goroutine interleaves with the others        *)
(* wherever the code does not hold a lock.                                 *)
(***************************************************************************)
EXTENDS Naturals, Sequences, FiniteSets

CONSTANTS Informers,   \* client-go listeners: each runs its handlers one by one
          AdminCalls,  \* POST /reload requests to the Admin API
          RpcCalls,    \* Reload RPCs
          Streams,     \* Subscribe calls
          Slow,        \* those whose data plane may stop reading
          InstanceId,  \* the instance_id each of them presents
          Events,      \* Kubernetes events an informer may deliver
          MaxEvents,   \* how many of them arrive
          Invalid,     \* contents that do not parse or validate
          LastFile     \* how often the file is written

Publishers == Informers \cup AdminCalls \cup RpcCalls
MaxVersion == 1 + Cardinality(AdminCalls \cup RpcCalls) + MaxEvents

ASSUME ControlPlaneAssumption ==
  /\ MaxEvents \in Nat /\ LastFile \in Nat \ {0} /\ 1 \notin Invalid
  /\ \A s \in Streams : s \in DOMAIN InstanceId
  /\ Slow \subseteq Streams

VARIABLES file,       \* the content of the config file
          loaded,     \* Loader.rawYAML and Loader.version
          pub,        \* each publishing goroutine
          queue,      \* events delivered to an informer and not handled
          arrived,    \* how many events arrived
          subs,       \* Server.subscribers, whose keys are their instance ids
          strm,       \* each Subscribe call
          first,      \* the snapshot it took for its initial Send
          broken,     \* streams whose transport knows the client is gone
          done,       \* streams whose done channel is closed
          last, high, \* the latest snapshot a data plane got on a stream, and
                      \* the highest version
          installed,  \* history: the content of each version
          stopping, up

loaderVars == <<file, loaded, installed>>
serverVars == <<subs, done, last, high>>
callVars == <<strm, first, broken>>
kubeVars == <<queue, arrived>>
process == <<stopping, up>>
vars == <<loaderVars, pub, kubeVars, serverVars, callVars, process>>

Nothing == [version |-> 0, yaml |-> 0]
Idle == [pc |-> "idle", raw |-> 0, snap |-> Nothing, todo |-> {}, failed |-> {}]

\* NewLoader has loaded the file once before anything else starts.
Init ==
  /\ file = 1 /\ loaded = [version |-> 1, yaml |-> 1] /\ installed = <<1>>
  /\ pub = [p \in Publishers |-> Idle]
  /\ queue = [i \in Informers |-> <<>>] /\ arrived = 0
  /\ subs = {} /\ strm = [s \in Streams |-> "new"]
  /\ first = [s \in Streams |-> Nothing]
  /\ broken = {} /\ done = {}
  /\ last = [s \in Streams |-> Nothing] /\ high = [s \in Streams |-> 0]
  /\ stopping = FALSE /\ up = TRUE

\* An operator rewrites the config file.
WriteFile ==
  /\ up /\ file < LastFile
  /\ file' = file + 1
  /\ UNCHANGED <<loaded, installed, pub, kubeVars, serverVars, callVars, process>>

-----------------------------------------------------------------------------
(* Kubernetes events.  old and new are the subsets of an Endpoints object, *)
(* in order, each with its sets of ready addresses and of ports; match is  *)
(* matchesLabel of its labels.                                             *)

\* Numbers are compared, of subsets and, one by one, of what is in them.
EndpointsChanged(old, new) ==
  \/ Len(old) # Len(new)
  \/ \E i \in DOMAIN old :
       \/ Cardinality(old[i].addresses) # Cardinality(new[i].addresses)
       \/ Cardinality(old[i].ports) # Cardinality(new[i].ports)

\* A deletion the informer only infers arrives as a tombstone, which DeleteFunc
\* ignores.
Triggers(e) ==
  /\ e.match
  /\ e.kind # "tombstone"
  /\ e.kind = "update" => EndpointsChanged(e.old, e.new)

KubeEvent(i, e) ==
  /\ up /\ ~stopping /\ arrived < MaxEvents
  /\ queue' = [queue EXCEPT ![i] = Append(@, e)]
  /\ arrived' = arrived + 1
  /\ UNCHANGED <<loaderVars, pub, serverVars, callVars, process>>

\* A handler runs to its end before the listener takes the next event.
HandleEvent(i) ==
  /\ up /\ pub[i].pc = "idle" /\ queue[i] # <<>>
  /\ queue' = [queue EXCEPT ![i] = Tail(@)]
  /\ pub' = [pub EXCEPT ![i].pc = IF Triggers(Head(queue[i])) THEN "reload" ELSE "idle"]
  /\ UNCHANGED <<loaderVars, arrived, serverVars, callVars, process>>

\* An Admin API request or a Reload RPC arrives.
Call(p) ==
  /\ up /\ ~stopping /\ pub[p].pc = "idle"
  /\ pub' = [pub EXCEPT ![p].pc = "reload"]
  /\ UNCHANGED <<loaderVars, kubeVars, serverVars, callVars, process>>

-----------------------------------------------------------------------------
(* Loader *)

\* What a publisher is once it is through.
Finished(p) == [Idle EXCEPT !.pc = IF p \in Informers THEN "idle" ELSE "returned"]

\* reload() reads, parses and validates without the lock; on an error the
\* publisher gives up and the old config stays.
ReadFile(p) ==
  /\ up /\ pub[p].pc = "reload"
  /\ pub' = IF file \in Invalid
            THEN [pub EXCEPT ![p] = Finished(p)]
            ELSE [pub EXCEPT ![p].pc = "install", ![p].raw = file]
  /\ UNCHANGED <<loaderVars, kubeVars, serverVars, callVars, process>>

\* The end of reload(), under the lock.
Install(p) ==
  /\ up /\ pub[p].pc = "install"
  /\ loaded' = [version |-> loaded.version + 1, yaml |-> pub[p].raw]
  /\ installed' = Append(installed, pub[p].raw)
  /\ pub' = [pub EXCEPT ![p].pc = "current"]
  /\ UNCHANGED <<file, kubeVars, serverVars, callVars, process>>

\* Mutant: the publisher pairs the version with the YAML it read itself.
CurrentOwnYaml(p) ==
  /\ up /\ pub[p].pc = "current"
  /\ pub' = [pub EXCEPT ![p].pc = "broadcast",
                        ![p].snap = [loaded EXCEPT !.yaml = pub[p].raw]]
  /\ UNCHANGED <<loaderVars, kubeVars, serverVars, callVars, process>>

\* Current(), and buildSnapshot.
Current(p) ==
  /\ up /\ pub[p].pc = "current"
  /\ pub' = [pub EXCEPT ![p].pc = "broadcast", ![p].snap = loaded]
  /\ UNCHANGED <<loaderVars, kubeVars, serverVars, callVars, process>>

-----------------------------------------------------------------------------
(* BroadcastSnapshot *)

\* The subscribers are copied under the read lock, and a goroutine started for
\* each.
FanOut(p) ==
  /\ up /\ pub[p].pc = "broadcast"
  /\ pub' = IF subs = {}
            THEN [pub EXCEPT ![p] = Finished(p)]
            ELSE [pub EXCEPT ![p].pc = "sending", ![p].todo = subs]
  /\ UNCHANGED <<loaderVars, kubeVars, serverVars, callVars, process>>

\* Send fails once the transport knows that the client is gone, or the Subscribe
\* call has returned.
Sendable(s) == s \notin broken /\ strm[s] # "ended"

Deliver(s, snap) ==
  /\ last' = [last EXCEPT ![s] = snap]
  /\ high' = [high EXCEPT ![s] = IF @ < snap.version THEN snap.version ELSE @]

\* Mutant: one goroutine sends to the subscribers in turn.
SendOkInTurn(p, s) ==
  /\ up /\ pub[p].pc = "sending" /\ pub[p].todo # {} /\ Sendable(s)
  /\ s = CHOOSE t \in pub[p].todo : TRUE
  /\ Deliver(s, pub[p].snap)
  /\ pub' = [pub EXCEPT ![p].todo = @ \ {s}]
  /\ UNCHANGED <<loaderVars, kubeVars, subs, done, callVars, process>>

SendOk(p, s) ==
  /\ up /\ pub[p].pc = "sending" /\ s \in pub[p].todo /\ Sendable(s)
  /\ Deliver(s, pub[p].snap)
  /\ pub' = [pub EXCEPT ![p].todo = @ \ {s}]
  /\ UNCHANGED <<loaderVars, kubeVars, subs, done, callVars, process>>

\* close() of a channel that is closed panics, and the panic of a goroutine ends
\* the process.
SendFail(p, s) ==
  /\ up /\ pub[p].pc = "sending" /\ s \in pub[p].todo /\ ~Sendable(s)
  /\ done' = done \cup {s}
  /\ up' = (s \notin done)
  /\ pub' = [pub EXCEPT ![p].todo = @ \ {s}, ![p].failed = @ \cup {InstanceId[s]}]
  /\ UNCHANGED <<loaderVars, kubeVars, subs, last, high, callVars, stopping>>

\* delete() of some keys of the map.
Without(ids) == {s \in subs : InstanceId[s] \notin ids}

\* wg.Wait() returns, and the failed ids are removed.
Cleanup(p) ==
  /\ up /\ pub[p].pc = "sending" /\ pub[p].todo = {}
  /\ subs' = Without(pub[p].failed)
  /\ pub' = [pub EXCEPT ![p] = Finished(p)]
  /\ UNCHANGED <<loaderVars, kubeVars, done, last, high, callVars, process>>

-----------------------------------------------------------------------------
(* Subscribe *)

Register(s) ==
  /\ up /\ ~stopping /\ strm[s] = "new"
  /\ subs' = Without({InstanceId[s]}) \cup {s}
  /\ strm' = [strm EXCEPT ![s] = "registered"]
  /\ UNCHANGED <<loaderVars, pub, kubeVars, done, last, high, first, broken, process>>

TakeInitial(s) ==
  /\ up /\ strm[s] = "registered"
  /\ first' = [first EXCEPT ![s] = loaded]
  /\ strm' = [strm EXCEPT ![s] = "initial"]
  /\ UNCHANGED <<loaderVars, pub, kubeVars, serverVars, broken, process>>

SendInitial(s) ==
  /\ up /\ strm[s] = "initial"
  /\ IF s \in broken
     THEN /\ strm' = [strm EXCEPT ![s] = "ending"]
          /\ UNCHANGED <<last, high>>
     ELSE /\ strm' = [strm EXCEPT ![s] = "open"]
          /\ Deliver(s, first[s])
  /\ first' = [first EXCEPT ![s] = Nothing]
  /\ UNCHANGED <<loaderVars, pub, kubeVars, subs, done, broken, process>>

\* Mutant: only a failed broadcast ends the call.
WakeOnDone(s) ==
  /\ up /\ strm[s] = "open" /\ s \in done
  /\ strm' = [strm EXCEPT ![s] = "ending"]
  /\ UNCHANGED <<loaderVars, pub, kubeVars, serverVars, first, broken, process>>

\* The select on sub.done and the stream's context.
Wake(s) ==
  /\ up /\ strm[s] = "open" /\ s \in done \cup broken
  /\ strm' = [strm EXCEPT ![s] = "ending"]
  /\ UNCHANGED <<loaderVars, pub, kubeVars, serverVars, first, broken, process>>

\* Mutant: removing the entry is left to BroadcastSnapshot.
DeregisterNot(s) ==
  /\ up /\ strm[s] = "ending"
  /\ strm' = [strm EXCEPT ![s] = "ended"]
  /\ UNCHANGED <<loaderVars, pub, kubeVars, serverVars, first, broken, process>>

\* The deferred function: it deletes the key, whoever's entry it holds.
Deregister(s) ==
  /\ up /\ strm[s] = "ending"
  /\ subs' = Without({InstanceId[s]})
  /\ strm' = [strm EXCEPT ![s] = "ended"]
  /\ UNCHANGED <<loaderVars, pub, kubeVars, done, last, high, first, broken, process>>

\* The client goes away and the transport notices.
Disconnect(s) ==
  /\ up /\ strm[s] \notin {"new", "ended"} /\ s \notin broken
  /\ broken' = broken \cup {s}
  /\ UNCHANGED <<loaderVars, pub, kubeVars, serverVars, strm, first, process>>

-----------------------------------------------------------------------------
(* SIGTERM: the context is cancelled.  The admin listener and the watcher  *)
(* return at once; GracefulStop lets every RPC in progress end.            *)

Stop ==
  /\ up /\ ~stopping
  /\ stopping' = TRUE
  /\ UNCHANGED <<loaderVars, pub, kubeVars, serverVars, callVars, up>>

Exit ==
  /\ up /\ stopping
  /\ \A s \in Streams : strm[s] \in {"new", "ended"}
  /\ \A p \in RpcCalls : pub[p].pc \in {"idle", "returned"}
  /\ up' = FALSE
  /\ UNCHANGED <<loaderVars, pub, kubeVars, serverVars, callVars, stopping>>

Publish(p) ==
  \/ ReadFile(p) \/ Install(p) \/ Current(p) \/ FanOut(p) \/ Cleanup(p)
  \/ \E s \in Streams : SendOk(p, s) \/ SendFail(p, s)

Next ==
  \/ WriteFile \/ Stop \/ Exit
  \/ \E i \in Informers : HandleEvent(i) \/ \E e \in Events : KubeEvent(i, e)
  \/ \E p \in AdminCalls \cup RpcCalls : Call(p)
  \/ \E p \in Publishers : Publish(p)
  \/ \E s \in Streams :
       \/ Register(s) \/ TakeInitial(s) \/ SendInitial(s) \/ Wake(s) \/ Deregister(s)
       \/ Disconnect(s)

Safety == Init /\ [][Next]_vars

\* Goroutines run, and data planes read what they are sent, the slow ones excepted:
\* a Send to one of those may block until its transport is gone.
Fairness ==
  /\ WF_vars(Exit)
  /\ \A i \in Informers : WF_vars(HandleEvent(i))
  /\ \A p \in Publishers :
       /\ WF_vars(ReadFile(p) \/ Install(p) \/ Current(p) \/ FanOut(p) \/ Cleanup(p))
       /\ \A s \in Streams \ Slow : WF_vars(SendOk(p, s) \/ SendFail(p, s))
       /\ \A s \in Slow : WF_vars(SendFail(p, s))
  /\ \A s \in Streams \ Slow :
       WF_vars(TakeInitial(s) \/ SendInitial(s) \/ Wake(s) \/ Deregister(s))
  /\ \A s \in Slow :
       WF_vars(TakeInitial(s) \/ (s \in broken /\ SendInitial(s)) \/ Wake(s) \/ Deregister(s))

Spec == Safety /\ Fairness

-----------------------------------------------------------------------------
(* Properties *)

Snapshots == [version : Nat, yaml : Nat]

Publisher ==
  [pc : {"idle", "reload", "install", "current", "broadcast", "sending", "returned"},
   raw : Nat, snap : Snapshots, todo : SUBSET Streams,
   failed : SUBSET {InstanceId[s] : s \in Streams}]

\* Every variable has its type, and no version is skipped or lost by reloads
\* that overlap: there are as many as reloads have installed.
TypeOK ==
  /\ file \in 1 .. LastFile
  /\ loaded \in Snapshots /\ installed \in Seq(1 .. LastFile)
  /\ loaded.version = Len(installed)
  /\ pub \in [Publishers -> Publisher]
  /\ queue \in [Informers -> Seq(Events)] /\ arrived \in 0 .. MaxEvents
  /\ subs \subseteq Streams /\ broken \subseteq Streams /\ done \subseteq Streams
  /\ strm \in [Streams -> {"new", "registered", "initial", "open", "ending", "ended"}]
  /\ first \in [Streams -> Snapshots]
  /\ last \in [Streams -> Snapshots] /\ high \in [Streams -> Nat]
  /\ stopping \in BOOLEAN /\ up \in BOOLEAN

Genuine(snap) ==
  /\ snap.version \in DOMAIN installed
  /\ snap.yaml = installed[snap.version]
  /\ snap.yaml \notin Invalid

\* However reloads, broadcasts and subscriptions overlap, every snapshot a data
\* plane receives is one the loader installed: a valid config under its own version.
SnapshotsAreGenuine ==
  \A s \in Streams : last[s] # Nothing => Genuine(last[s])

\* The map holds one entry per instance, and never one whose call has returned:
\* ActiveSubscribers counts live calls.
NoGhostSubscriber ==
  /\ \A s \in subs : strm[s] \notin {"new", "ended"}
  /\ \A s, t \in subs : InstanceId[s] = InstanceId[t] => s = t

\* "A slow or disconnected subscriber cannot block others": a connected data plane
\* that reads gets every config that becomes current while it is connected, or a
\* later one, whatever the others do, also when it subscribes in the middle of a
\* reload.
UpdatesReachEveryone ==
  \A s \in Streams \ Slow : \A v \in 1 .. MaxVersion :
    (loaded.version = v /\ strm[s] = "open") ~> (high[s] >= v \/ s \in broken \/ ~up)

\* A stopped control plane whose data planes have all gone exits.
StopsWhenAlone ==
  (stopping /\ \A s \in Streams : strm[s] = "new" \/ s \in broken) ~> ~up
=============================================================================
