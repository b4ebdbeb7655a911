-------------------------- MODULE ControlPlaneProofs --------------------------
(***************************************************************************)
(* Proofs about the control plane, for any number of reloads, broadcasts   *)
(* and subscriptions and every way in which they overlap.                  *)
(*                                                                         *)
(* SnapshotsAreGenuine speaks of what data planes received.  It is         *)
(* inductive only with the snapshots that are still on their way: the      *)
(* loader's own, those publishers and Subscribe calls hold between reading *)
(* the loader and sending, and the content a reload has read and not yet   *)
(* installed.                                                              *)
(***************************************************************************)
EXTENDS ControlPlane, SequenceTheorems, TLAPS

PublisherInv(p) ==
  /\ pub[p].pc = "install" => pub[p].raw \in (1 .. LastFile) \ Invalid
  /\ pub[p].pc \in {"broadcast", "sending"} => Genuine(pub[p].snap)

StreamInv(s) ==
  /\ strm[s] = "initial" => Genuine(first[s])
  /\ last[s] # Nothing => Genuine(last[s])

ControlInv ==
  /\ TypeOK
  /\ Genuine(loaded)
  /\ \A p \in Publishers : PublisherInv(p)
  /\ \A s \in Streams : StreamInv(s)
  /\ NoGhostSubscriber

-----------------------------------------------------------------------------
(* Types *)

\* A publisher at a point of its code is a publisher.
LEMMA PublisherSteps ==
  ASSUME NEW p \in Publishers, TypeOK,
         NEW pc \in {"idle", "reload", "install", "current", "broadcast", "sending",
                     "returned"}
  PROVE  /\ [pub EXCEPT ![p].pc = pc] \in [Publishers -> Publisher]
         /\ \A raw \in Nat :
              [pub EXCEPT ![p].pc = pc, ![p].raw = raw] \in [Publishers -> Publisher]
         /\ \A snap \in Snapshots :
              [pub EXCEPT ![p].pc = pc, ![p].snap = snap] \in [Publishers -> Publisher]
         /\ \A todo \in SUBSET Streams :
              [pub EXCEPT ![p].pc = pc, ![p].todo = todo] \in [Publishers -> Publisher]
         /\ [pub EXCEPT ![p] = Finished(p)] \in [Publishers -> Publisher]
<1>1. Finished(p) \in Publisher
  BY DEF Finished, Idle, Nothing, Publisher, Snapshots
<1>2. QED
  BY <1>1 DEF TypeOK, Publisher

\* Delivering a snapshot leaves a snapshot and a version.
LEMMA DeliverTypes ==
  ASSUME NEW s \in Streams, NEW snap \in Snapshots, TypeOK, Deliver(s, snap)
  PROVE  last' \in [Streams -> Snapshots] /\ high' \in [Streams -> Nat]
BY DEF TypeOK, Deliver, Snapshots

LEMMA TypesInductive == ControlInv /\ [Next]_vars => TypeOK'
<1> SUFFICES ASSUME ControlInv, [Next]_vars PROVE TypeOK'
  OBVIOUS
<1>0. TypeOK /\ \A p \in Publishers : PublisherInv(p)
  BY DEF ControlInv
<1> USE <1>0
<1> USE DEF loaderVars, serverVars, callVars, kubeVars, process
<1>1. CASE WriteFile
  BY <1>1, ControlPlaneAssumption DEF WriteFile, TypeOK
<1>2. CASE Stop \/ Exit
  BY <1>2 DEF Stop, Exit, TypeOK
<1>3. ASSUME NEW i \in Informers, HandleEvent(i)
      PROVE  TypeOK'
  <2>1. queue' \in [Informers -> Seq(Events)]
    BY <1>3 DEF HandleEvent, TypeOK
  <2>2. pub' \in [Publishers -> Publisher]
    BY <1>3, PublisherSteps DEF HandleEvent, Publishers
  <2>3. QED
    BY <1>3, <2>1, <2>2 DEF HandleEvent, TypeOK
<1>4. ASSUME NEW i \in Informers, NEW e \in Events, KubeEvent(i, e)
      PROVE  TypeOK'
  BY <1>4, ControlPlaneAssumption DEF KubeEvent, TypeOK
<1>5. ASSUME NEW p \in AdminCalls \cup RpcCalls, Call(p)
      PROVE  TypeOK'
  BY <1>5, PublisherSteps DEF Call, TypeOK, Publishers
<1>6. ASSUME NEW p \in Publishers, ReadFile(p)
      PROVE  TypeOK'
  <2>0. file \in Nat
    BY ControlPlaneAssumption DEF TypeOK
  <2>1. pub' \in [Publishers -> Publisher]
    BY <1>6, <2>0, PublisherSteps DEF ReadFile
  <2>2. QED
    BY <1>6, <2>1 DEF ReadFile, TypeOK
<1>7. ASSUME NEW p \in Publishers, Install(p)
      PROVE  TypeOK'
  <2>0. pub[p].raw \in 1 .. LastFile
    BY <1>7 DEF Install, PublisherInv
  <2>1. pub' \in [Publishers -> Publisher]
    BY <1>7, PublisherSteps DEF Install
  <2>2. /\ installed' \in Seq(1 .. LastFile) /\ loaded' \in Snapshots
        /\ loaded'.version = Len(installed')
    BY <1>7, <2>0, ControlPlaneAssumption DEF Install, TypeOK, Snapshots
  <2>3. QED
    BY <1>7, <2>1, <2>2 DEF Install, TypeOK
<1>8. ASSUME NEW p \in Publishers, Current(p)
      PROVE  TypeOK'
  <2>0. loaded \in Snapshots
    BY DEF TypeOK
  <2>1. pub' \in [Publishers -> Publisher]
    BY <1>8, <2>0, PublisherSteps DEF Current
  <2>2. QED
    BY <1>8, <2>1 DEF Current, TypeOK
<1>9. ASSUME NEW p \in Publishers, FanOut(p)
      PROVE  TypeOK'
  <2>0. subs \in SUBSET Streams
    BY DEF TypeOK
  <2>1. pub' \in [Publishers -> Publisher]
    BY <1>9, <2>0, PublisherSteps DEF FanOut
  <2>2. QED
    BY <1>9, <2>1 DEF FanOut, TypeOK
<1>10. ASSUME NEW p \in Publishers, Cleanup(p)
       PROVE  TypeOK'
  <2>1. pub' \in [Publishers -> Publisher]
    BY <1>10, PublisherSteps DEF Cleanup
  <2>2. QED
    BY <1>10, <2>1 DEF Cleanup, Without, TypeOK
<1>11. ASSUME NEW p \in Publishers, NEW s \in Streams, SendOk(p, s)
       PROVE  TypeOK'
  <2>1. pub' \in [Publishers -> Publisher]
    BY <1>11 DEF SendOk, TypeOK, Publisher
  <2>2. pub[p].snap \in Snapshots
    BY DEF TypeOK, Publisher
  <2>3. last' \in [Streams -> Snapshots] /\ high' \in [Streams -> Nat]
    BY <1>11, <2>2, DeliverTypes DEF SendOk
  <2>4. QED
    BY <1>11, <2>1, <2>3 DEF SendOk, TypeOK
<1>12. ASSUME NEW p \in Publishers, NEW s \in Streams, SendFail(p, s)
       PROVE  TypeOK'
  <2>1. pub' \in [Publishers -> Publisher]
    <3> DEFINE failing == [pub[p] EXCEPT !.todo = @ \ {s},
                                         !.failed = @ \cup {InstanceId[s]}]
    <3>1. pub[p] \in Publisher
      BY DEF TypeOK
    <3>2. failing \in Publisher
      BY <3>1 DEF Publisher
    <3>3. pub' = [pub EXCEPT ![p] = failing]
      BY <1>12 DEF SendFail, TypeOK
    <3>4. QED
      BY <3>2, <3>3 DEF TypeOK
  <2>2. QED
    BY <1>12, <2>1 DEF SendFail, TypeOK
<1>13. ASSUME NEW s \in Streams, Register(s) \/ Deregister(s)
       PROVE  TypeOK'
  BY <1>13 DEF Register, Deregister, Without, TypeOK
<1>14. ASSUME NEW s \in Streams, TakeInitial(s)
       PROVE  TypeOK'
  BY <1>14 DEF TakeInitial, TypeOK
<1>15. ASSUME NEW s \in Streams, SendInitial(s)
       PROVE  TypeOK'
  <2>1. last' \in [Streams -> Snapshots] /\ high' \in [Streams -> Nat]
    <3>1. first[s] \in Snapshots
      BY DEF TypeOK
    <3>2. QED
      BY <1>15, <3>1, DeliverTypes DEF SendInitial, TypeOK
  <2>2. Nothing \in Snapshots
    BY DEF Nothing, Snapshots
  <2>3. QED
    BY <1>15, <2>1, <2>2 DEF SendInitial, TypeOK
<1>16. ASSUME NEW s \in Streams, Wake(s) \/ Disconnect(s)
       PROVE  TypeOK'
  BY <1>16 DEF Wake, Disconnect, TypeOK
<1>17. CASE UNCHANGED vars
  BY <1>17 DEF vars, TypeOK
<1>18. QED
  BY <1>1, <1>2, <1>3, <1>4, <1>5, <1>6, <1>7, <1>8, <1>9, <1>10, <1>11, <1>12,
     <1>13, <1>14, <1>15, <1>16, <1>17 DEF Next, Publish

-----------------------------------------------------------------------------
(* Snapshots *)

\* A snapshot stays genuine: versions are only ever added.
LEMMA GenuineStays ==
  ASSUME NEW snap, TypeOK, Genuine(snap),
         \/ UNCHANGED installed
         \/ \E raw \in 1 .. LastFile : installed' = Append(installed, raw)
  PROVE  Genuine(snap)'
<1>1. CASE UNCHANGED installed
  BY <1>1 DEF Genuine
<1>2. ASSUME NEW raw \in 1 .. LastFile, installed' = Append(installed, raw)
      PROVE  Genuine(snap)'
  <2> DEFINE Contents == 1 .. LastFile
  <2>0. raw \in Contents /\ installed \in Seq(Contents)
    BY DEF TypeOK
  <2> HIDE DEF Contents
  <2>1. DOMAIN installed = 1 .. Len(installed) /\ Len(installed) \in Nat
    BY <2>0
  <2>2. /\ installed' \in Seq(Contents)
        /\ Len(installed') = Len(installed) + 1
        /\ \A v \in 1 .. Len(installed) : installed'[v] = installed[v]
    BY <1>2, <2>0, AppendProperties
  <2>3. DOMAIN installed' = 1 .. Len(installed) + 1
    BY <2>2
  <2>4. QED
    BY <2>1, <2>2, <2>3 DEF Genuine
<1>3. QED
  BY <1>1, <1>2

\* What a step leaves alone stays sound.
LEMMA PublisherKept ==
  ASSUME NEW p \in Publishers, TypeOK, PublisherInv(p), pub'[p] = pub[p],
         \/ UNCHANGED installed
         \/ \E raw \in 1 .. LastFile : installed' = Append(installed, raw)
  PROVE  PublisherInv(p)'
BY GenuineStays DEF PublisherInv, Genuine

LEMMA StreamKept ==
  ASSUME NEW s \in Streams, TypeOK, StreamInv(s),
         UNCHANGED <<strm[s], first[s], last[s]>>,
         \/ UNCHANGED installed
         \/ \E raw \in 1 .. LastFile : installed' = Append(installed, raw)
  PROVE  StreamInv(s)'
BY GenuineStays DEF StreamInv, Genuine

\* Steps of a publisher that only change the publisher itself.
LEMMA PublisherStep ==
  ASSUME NEW p \in Publishers, ControlInv, PublisherInv(p)',
         \A q \in Publishers \ {p} : pub'[q] = pub[q],
         UNCHANGED <<installed, loaded, strm, first, last>>
  PROVE  /\ Genuine(loaded)'
         /\ \A q \in Publishers : PublisherInv(q)'
         /\ \A s \in Streams : StreamInv(s)'
<1>1. Genuine(loaded)'
  BY DEF ControlInv, Genuine
<1>2. \A q \in Publishers : PublisherInv(q)'
  BY PublisherKept DEF ControlInv
<1>3. \A s \in Streams : StreamInv(s)'
  BY StreamKept DEF ControlInv
<1>4. QED
  BY <1>1, <1>2, <1>3

\* Steps of a Subscribe call that only change the call itself.
LEMMA StreamStep ==
  ASSUME NEW s \in Streams, ControlInv, StreamInv(s)',
         \A t \in Streams \ {s} : UNCHANGED <<strm[t], first[t], last[t]>>,
         UNCHANGED <<installed, loaded, pub>>
  PROVE  /\ Genuine(loaded)'
         /\ \A p \in Publishers : PublisherInv(p)'
         /\ \A t \in Streams : StreamInv(t)'
<1>1. Genuine(loaded)'
  BY DEF ControlInv, Genuine
<1>2. \A p \in Publishers : PublisherInv(p)'
  BY PublisherKept DEF ControlInv
<1>3. \A t \in Streams : StreamInv(t)'
  BY StreamKept DEF ControlInv
<1>4. QED
  BY <1>1, <1>2, <1>3

LEMMA SnapshotsInductive ==
  ControlInv /\ [Next]_vars
    => /\ Genuine(loaded)'
       /\ \A p \in Publishers : PublisherInv(p)'
       /\ \A s \in Streams : StreamInv(s)'
<1> DEFINE Sound == /\ Genuine(loaded)'
                    /\ \A p \in Publishers : PublisherInv(p)'
                    /\ \A s \in Streams : StreamInv(s)'
<1> SUFFICES ASSUME ControlInv, [Next]_vars PROVE Sound
  OBVIOUS
<1>0. /\ TypeOK /\ Genuine(loaded)
      /\ \A p \in Publishers : PublisherInv(p)
      /\ \A s \in Streams : StreamInv(s)
  BY DEF ControlInv
<1> USE DEF loaderVars, serverVars, callVars, kubeVars, process
\* Neither the loader, a publisher nor a call moves.
<1>1. ASSUME UNCHANGED <<installed, loaded, pub, strm, first, last>>
      PROVE  Sound
  BY <1>0, <1>1, PublisherKept, StreamKept DEF Genuine
<1>2. CASE WriteFile \/ Stop \/ Exit \/ UNCHANGED vars
  BY <1>1, <1>2 DEF WriteFile, Stop, Exit, vars
<1>3. ASSUME NEW i \in Informers, NEW e \in Events, KubeEvent(i, e)
      PROVE  Sound
  BY <1>1, <1>3 DEF KubeEvent
<1>4. ASSUME NEW i \in Informers, HandleEvent(i)
      PROVE  Sound
  <2>1. i \in Publishers /\ pub'[i].pc \in {"reload", "idle"}
    BY <1>0, <1>4 DEF HandleEvent, TypeOK, Publishers, Publisher
  <2>2. PublisherInv(i)'
    BY <2>1 DEF PublisherInv
  <2>3. QED
    BY <1>0, <1>4, <2>1, <2>2, PublisherStep DEF HandleEvent, TypeOK
<1>5. ASSUME NEW p \in AdminCalls \cup RpcCalls, Call(p)
      PROVE  Sound
  <2>1. p \in Publishers /\ pub'[p].pc = "reload"
    BY <1>0, <1>5 DEF Call, TypeOK, Publishers, Publisher
  <2>2. PublisherInv(p)'
    BY <2>1 DEF PublisherInv
  <2>3. QED
    BY <1>0, <1>5, <2>1, <2>2, PublisherStep DEF Call, TypeOK
<1>6. ASSUME NEW p \in Publishers, ReadFile(p)
      PROVE  Sound
  <2>1. CASE file \in Invalid
    <3>1. pub'[p].pc \in {"idle", "returned"}
      BY <1>0, <1>6, <2>1 DEF ReadFile, Finished, Idle, TypeOK
    <3>2. QED
      BY <1>0, <1>6, <3>1, PublisherStep DEF ReadFile, TypeOK, PublisherInv
  <2>2. CASE file \notin Invalid
    <3>1. pub'[p].pc = "install" /\ pub'[p].raw = file
      BY <1>0, <1>6, <2>2 DEF ReadFile, TypeOK, Publisher
    <3>2. PublisherInv(p)'
      BY <1>0, <2>2, <3>1 DEF PublisherInv, TypeOK
    <3>3. QED
      BY <1>0, <1>6, <3>2, PublisherStep DEF ReadFile, TypeOK
  <2>3. QED
    BY <2>1, <2>2
<1>7. ASSUME NEW p \in Publishers, Install(p)
      PROVE  Sound
  <2>1. pub[p].raw \in (1 .. LastFile) \ Invalid
    BY <1>0, <1>7 DEF Install, PublisherInv
  <2>2. Genuine(loaded)'
    <3> DEFINE Contents == 1 .. LastFile
    <3>1. pub[p].raw \in Contents /\ installed \in Seq(Contents)
      BY <1>0, <2>1 DEF TypeOK
    <3> HIDE DEF Contents
    <3>2. /\ installed' \in Seq(Contents) /\ Len(installed') = Len(installed) + 1
          /\ installed'[Len(installed) + 1] = pub[p].raw /\ Len(installed) \in Nat
      BY <1>7, <3>1, AppendProperties DEF Install
    <3>3. loaded'.version = Len(installed) + 1 /\ loaded'.yaml = pub[p].raw
      BY <1>0, <1>7 DEF Install, TypeOK
    <3>4. loaded'.version \in DOMAIN installed'
      BY <3>2, <3>3
    <3>5. QED
      BY <2>1, <3>2, <3>3, <3>4 DEF Genuine
  <2>3. pub'[p].pc = "current" /\ \A q \in Publishers \ {p} : pub'[q] = pub[q]
    BY <1>0, <1>7 DEF Install, TypeOK, Publisher
  <2>4. \A q \in Publishers : PublisherInv(q)'
    <3>1. PublisherInv(p)'
      BY <2>3 DEF PublisherInv
    <3>2. ASSUME NEW q \in Publishers \ {p} PROVE PublisherInv(q)'
      BY <1>0, <1>7, <2>1, <2>3, PublisherKept DEF Install
    <3>3. QED
      BY <3>1, <3>2
  <2>5. \A s \in Streams : StreamInv(s)'
    BY <1>0, <1>7, <2>1, StreamKept DEF Install
  <2>6. QED
    BY <2>2, <2>4, <2>5
<1>8. ASSUME NEW p \in Publishers, Current(p)
      PROVE  Sound
  <2>1. pub'[p].pc = "broadcast" /\ pub'[p].snap = loaded
    BY <1>0, <1>8 DEF Current, TypeOK, Publisher
  <2>2. PublisherInv(p)'
    BY <1>0, <1>8, <2>1 DEF PublisherInv, Genuine, Current
  <2>3. QED
    BY <1>0, <1>8, <2>2, PublisherStep DEF Current, TypeOK
<1>9. ASSUME NEW p \in Publishers, FanOut(p) \/ Cleanup(p)
      PROVE  Sound
  <2>1. \/ pub'[p].pc \in {"idle", "returned"}
        \/ /\ pub'[p].pc = "sending" /\ pub'[p].snap = pub[p].snap
           /\ pub[p].pc = "broadcast"
    BY <1>0, <1>9 DEF FanOut, Cleanup, Finished, Idle, TypeOK, Publisher
  <2>2. PublisherInv(p)'
    BY <1>0, <1>9, <2>1 DEF PublisherInv, Genuine, FanOut, Cleanup
  <2>3. QED
    BY <1>0, <1>9, <2>2, PublisherStep DEF FanOut, Cleanup, TypeOK
<1>10. ASSUME NEW p \in Publishers, NEW s \in Streams, SendOk(p, s)
       PROVE  Sound
  <2>1. /\ pub'[p].pc = "sending" /\ pub'[p].snap = pub[p].snap
        /\ \A q \in Publishers \ {p} : pub'[q] = pub[q]
    BY <1>0, <1>10 DEF SendOk, TypeOK, Publisher
  <2>2. Genuine(pub[p].snap)
    BY <1>0, <1>10 DEF SendOk, PublisherInv
  <2>3. \A q \in Publishers : PublisherInv(q)'
    BY <1>0, <1>10, <2>1, <2>2, PublisherKept DEF SendOk, PublisherInv, Genuine
  <2>4. \A t \in Streams : StreamInv(t)'
    <3>1. /\ \A t \in Streams : UNCHANGED <<strm[t], first[t]>>
          /\ last'[s] = pub[p].snap
          /\ \A t \in Streams \ {s} : last'[t] = last[t]
      BY <1>0, <1>10 DEF SendOk, Deliver, TypeOK
    <3>2. StreamInv(s)'
      BY <1>0, <1>10, <2>2, <3>1 DEF StreamInv, Genuine, SendOk
    <3>3. ASSUME NEW t \in Streams \ {s} PROVE StreamInv(t)'
      BY <1>0, <1>10, <3>1, StreamKept DEF SendOk
    <3>4. QED
      BY <3>2, <3>3
  <2>5. QED
    BY <1>0, <1>10, <2>3, <2>4 DEF SendOk, Genuine
<1>11. ASSUME NEW p \in Publishers, NEW s \in Streams, SendFail(p, s)
       PROVE  Sound
  <2>1. pub'[p].pc = pub[p].pc /\ pub'[p].snap = pub[p].snap /\ pub'[p].raw = pub[p].raw
    BY <1>0, <1>11 DEF SendFail, TypeOK, Publisher
  <2>2. PublisherInv(p)'
    BY <1>0, <1>11, <2>1 DEF PublisherInv, Genuine, SendFail
  <2>3. QED
    BY <1>0, <1>11, <2>2, PublisherStep DEF SendFail, TypeOK
<1>12. ASSUME NEW s \in Streams,
              Register(s) \/ Wake(s) \/ Deregister(s) \/ Disconnect(s)
       PROVE  Sound
  <2>1. StreamInv(s)'
    BY <1>0, <1>12
    DEF StreamInv, Genuine, Register, Wake, Deregister, Disconnect, TypeOK
  <2>2. QED
    BY <1>0, <1>12, <2>1, StreamStep
    DEF Register, Wake, Deregister, Disconnect, TypeOK
<1>13. ASSUME NEW s \in Streams, TakeInitial(s)
       PROVE  Sound
  <2>1. StreamInv(s)'
    BY <1>0, <1>13 DEF StreamInv, Genuine, TakeInitial, TypeOK
  <2>2. QED
    BY <1>0, <1>13, <2>1, StreamStep DEF TakeInitial, TypeOK
<1>14. ASSUME NEW s \in Streams, SendInitial(s)
       PROVE  Sound
  <2>1. /\ strm'[s] \in {"ending", "open"}
        /\ last'[s] \in {last[s], first[s]}
    BY <1>0, <1>14 DEF SendInitial, Deliver, TypeOK
  <2>2. Genuine(first[s]) /\ UNCHANGED installed
    BY <1>0, <1>14 DEF SendInitial, StreamInv
  <2>3. StreamInv(s)'
    BY <1>0, <2>1, <2>2 DEF StreamInv, Genuine
  <2>4. QED
    BY <1>0, <1>14, <2>3, StreamStep DEF SendInitial, Deliver, TypeOK
<1>15. QED
  BY <1>2, <1>3, <1>4, <1>5, <1>6, <1>7, <1>8, <1>9, <1>10, <1>11, <1>12, <1>13,
     <1>14 DEF Next, Publish

-----------------------------------------------------------------------------
(* Subscribers *)

\* A step that adds nobody to the map and ends nobody in it keeps it clean.
LEMMA SubscribersKept ==
  ASSUME TypeOK, NoGhostSubscriber, subs' \subseteq subs,
         \A s \in subs' : strm'[s] = strm[s] \/ strm'[s] \notin {"new", "ended"}
  PROVE  NoGhostSubscriber'
BY DEF NoGhostSubscriber

LEMMA SubscribersInductive == ControlInv /\ [Next]_vars => NoGhostSubscriber'
<1> SUFFICES ASSUME ControlInv, [Next]_vars PROVE NoGhostSubscriber'
  OBVIOUS
<1>0. TypeOK /\ NoGhostSubscriber
  BY DEF ControlInv
<1> USE DEF loaderVars, serverVars, callVars, kubeVars, process
<1>1. ASSUME NEW s \in Streams, Register(s)
      PROVE  NoGhostSubscriber'
  <2>1. /\ subs' = Without({InstanceId[s]}) \cup {s}
        /\ strm' = [strm EXCEPT ![s] = "registered"]
    BY <1>1 DEF Register
  <2>2. \A t \in subs' : strm'[t] \notin {"new", "ended"}
    BY <1>0, <2>1 DEF Without, TypeOK, NoGhostSubscriber
  <2>3. \A t, u \in subs' : InstanceId[t] = InstanceId[u] => t = u
    BY <1>0, <2>1 DEF Without, NoGhostSubscriber
  <2>4. QED
    BY <2>2, <2>3 DEF NoGhostSubscriber
<1>2. ASSUME NEW s \in Streams, Deregister(s)
      PROVE  NoGhostSubscriber'
  <2>1. /\ subs' = Without({InstanceId[s]}) /\ s \notin subs'
        /\ strm' = [strm EXCEPT ![s] = "ended"]
    BY <1>2 DEF Deregister, Without
  <2>2. QED
    BY <1>0, <2>1, SubscribersKept DEF Without, TypeOK
<1>3. ASSUME NEW s \in Streams, TakeInitial(s) \/ SendInitial(s) \/ Wake(s)
      PROVE  NoGhostSubscriber'
  BY <1>0, <1>3, SubscribersKept DEF TakeInitial, SendInitial, Wake, TypeOK
<1>4. ASSUME NEW p \in Publishers, Cleanup(p)
      PROVE  NoGhostSubscriber'
  BY <1>0, <1>4, SubscribersKept DEF Cleanup, Without
<1>5. ASSUME UNCHANGED <<subs, strm>>
      PROVE  NoGhostSubscriber'
  BY <1>0, <1>5, SubscribersKept
<1>6. QED
  BY <1>1, <1>2, <1>3, <1>4, <1>5
  DEF Next, Publish, WriteFile, Stop, Exit, HandleEvent, KubeEvent, Call, ReadFile,
      Install, Current, FanOut, SendOk, SendFail, Disconnect, vars

-----------------------------------------------------------------------------
\* The inductive invariant holds of the control plane.
THEOREM ControlInvariant == Safety => []ControlInv
<1>1. Init => ControlInv
  <2> SUFFICES ASSUME Init PROVE ControlInv
    OBVIOUS
  <2>1. /\ installed = <<1>> /\ loaded = [version |-> 1, yaml |-> 1]
        /\ 1 \in 1 .. LastFile /\ 1 \notin Invalid
    BY ControlPlaneAssumption DEF Init
  <2>2. Nothing \in Snapshots /\ Idle \in Publisher
    BY DEF Nothing, Snapshots, Idle, Publisher
  <2>3. TypeOK
    <3>1. installed \in Seq(1 .. LastFile) /\ Len(installed) = 1
      BY <2>1
    <3>2. loaded \in Snapshots /\ loaded.version = 1
      BY <2>1 DEF Snapshots
    <3>3. queue \in [Informers -> Seq(Events)] /\ arrived \in 0 .. MaxEvents
      BY ControlPlaneAssumption DEF Init
    <3>4. QED
      BY <2>1, <2>2, <3>1, <3>2, <3>3 DEF Init, TypeOK
  <2>4. Genuine(loaded)
    BY <2>1 DEF Genuine
  <2>5. \A p \in Publishers : PublisherInv(p)
    BY DEF Init, Idle, PublisherInv
  <2>6. \A s \in Streams : StreamInv(s)
    BY DEF Init, StreamInv
  <2>7. NoGhostSubscriber
    BY DEF Init, NoGhostSubscriber
  <2>8. QED
    BY <2>3, <2>4, <2>5, <2>6, <2>7 DEF ControlInv
<1>2. ControlInv /\ [Next]_vars => ControlInv'
  BY TypesInductive, SnapshotsInductive, SubscribersInductive DEF ControlInv
<1>3. QED
  BY <1>1, <1>2, PTL DEF Safety

\* However many reloads, broadcasts and subscriptions overlap, a data plane only
\* receives snapshots the loader installed, valid and under their own version.
THEOREM SnapshotsGenuine == Safety => []SnapshotsAreGenuine
<1>1. ControlInv => SnapshotsAreGenuine
  BY DEF ControlInv, StreamInv, SnapshotsAreGenuine
<1>2. QED
  BY <1>1, ControlInvariant, PTL

\* The subscriber map holds live calls only, one per instance id, however
\* reconnects, failed broadcasts and deferred removals of the same key overlap.
THEOREM SubscribersLive == Safety => []NoGhostSubscriber
BY ControlInvariant, PTL DEF ControlInv
=============================================================================
