--------------------------- MODULE ShardDrainProofs ---------------------------
(***************************************************************************)
(* Proofs about ShardDrain, for every set of tablets and every bound.      *)
(*                                                                         *)
(* The two facts that make "at most one finished" inductive compare an     *)
(* old snapshot with the server: what is acknowledged there and not yet in *)
(* the snapshot is a plain drain request in the snapshot (so a pass that   *)
(* lists it finishes nothing), and what is finished there and not yet in   *)
(* the snapshot is the snapshot's first acknowledged drain (so a pass that *)
(* lists it can only finish the same Pod again).                           *)
(*                                                                         *)
(* Then, as long as nothing unplanned happens, that the primary is not     *)
(* finished, and, where nothing is aborted either, that every step is one  *)
(* of DrainContract: each builds on the inductive invariant of the first.  *)
(***************************************************************************)
EXTENDS ShardDrain, TLAPS

InPass == pc \in {"clear", "mark", "reparent"}

\* A Pod nobody wrote between two snapshots is the same in both.
Unwritten ==
  \A i, j \in 1..Len(log) : \A t \in Tablets :
    i <= j /\ (\A k \in (i+1)..j : log[k].wrote # t)
      => log[i].pods[t] = log[j].pods[t]

\* A Pod acknowledged in pods and not yet in snap is a request in snap.
AckBehind(snap, pods) ==
  \A t \in Tablets :
    pods[t].acked /\ ~snap[t].acked => snap[t].started

\* A Pod finished in pods and not in snap is snap's first acknowledged one.
FinishBehind(snap, pods) ==
  \A u \in Tablets :
    pods[u].finished /\ ~snap[u].finished
      => /\ snap[u].acked
         /\ \A t \in Tablets : snap[t].acked => u <= t

\* A finished Pod is acknowledged, and only existing Pods are annotated.
Valid(snap) ==
  \A t \in Tablets : /\ snap[t].finished => snap[t].acked
                     /\ snap[t].started \/ snap[t].acked => Exists(snap[t])

LogInv ==
  /\ Unwritten
  /\ \A i \in 1..Len(log) : Valid(log[i].pods)
  /\ \A i, j \in 1..Len(log) : i <= j => AckBehind(log[i].pods, log[j].pods)
  /\ \A i \in 1..Len(log) : FinishBehind(log[i].pods, Server)
  /\ AtMostOneFinished

PassInv ==
  InPass =>
    /\ \A t \in Tablets \ stale : \A i \in 1..Len(log) : log[i].pods[t] = view[t]
    /\ Valid(view)
    /\ \A i \in 1..Len(log) : AckBehind(view, log[i].pods)
    /\ FinishBehind(view, Server)
    /\ pc = "mark" => Aborted(view) = {}
    /\ pc = "clear" => todo \subseteq Aborted(view)

Inv == TypeOK /\ LogInv /\ PassInv

-----------------------------------------------------------------------------
(* The log grows at the server's end and shrinks at the cache's. *)

\* The Pods the code makes up (a new Pod, no Pod, an empty listing) are well typed.
LEMMA PodTypes ==
  /\ \A ph \in {"gone", "starting", "ready"} : NewPod(ph) \in Pods
  /\ Gone \in Pods /\ NoView \in [Tablets -> Pods]
BY DEF NewPod, Gone, Pods, NoView

\* What the cache and the server show is well typed.
LEMMA ServerType ==
  ASSUME TypeOK
  PROVE  /\ Len(log) \in Nat \ {0}
         /\ Server \in [Tablets -> Pods]
         /\ Cache \in [Tablets -> Pods]
         /\ \A i \in 1..Len(log) : log[i] \in Snapshots
<1>1. log \in Seq(Snapshots) /\ Len(log) \in Nat \ {0}
  BY DEF TypeOK
<1>2. \A i \in 1..Len(log) : log[i] \in Snapshots
  BY <1>1
<1>3. log[1] \in Snapshots /\ log[Len(log)] \in Snapshots
  BY <1>1, <1>2
<1> QED BY <1>1, <1>2, <1>3 DEF Server, Cache, Snapshots

\* What the server holds after it accepts a write of one Pod.
LEMMA WriteEffect ==
  ASSUME TypeOK, NEW t \in Tablets, NEW pod \in Pods, WritePod(t, pod)
  PROVE  LET n == Len(log)
         IN  /\ n \in Nat \ {0} /\ log' \in Seq(Snapshots)
             /\ Len(log') = n + 1
             /\ \A i \in 1..n : log'[i] = log[i]
             /\ \A i \in 1..(n+1) : i \in 1..n \/ i = n + 1
             /\ log'[n+1].wrote = t
             /\ Server \in [Tablets -> Pods]
             /\ Server = log[n].pods /\ Server' = log'[n+1].pods
             /\ \A u \in Tablets : /\ u # t => Server'[u] = Server[u]
                                   /\ u = t => Server'[u] = pod
<1> DEFINE n == Len(log)
           snap == [pods |-> [Server EXCEPT ![t] = pod], wrote |-> t]
<1>1. snap \in Snapshots /\ n \in Nat \ {0} /\ Server \in [Tablets -> Pods]
  BY ServerType DEF Snapshots
<1>2. log \in Seq(Snapshots) /\ log' = Append(log, snap)
  BY DEF TypeOK, WritePod
<1>3. /\ log' \in Seq(Snapshots)
      /\ Len(log') = n + 1
      /\ \A i \in 1..n : log'[i] = log[i]
      /\ log'[n+1] = snap
  BY <1>1, <1>2
<1>4. Server = log[n].pods /\ Server' = log'[n+1].pods
  BY <1>3 DEF Server
<1>5. snap.pods = [Server EXCEPT ![t] = pod] /\ snap.wrote = t
  OBVIOUS
<1> HIDE DEF snap
<1>6. log'[n+1].wrote = t /\ Server' = [Server EXCEPT ![t] = pod]
  BY <1>3, <1>4, <1>5
<1>7. \A u \in Tablets : /\ u # t => Server'[u] = Server[u]
                         /\ u = t => Server'[u] = pod
  BY <1>1, <1>6
<1>8. \A i \in 1..(n+1) : i \in 1..n \/ i = n + 1
  BY <1>1
<1> QED BY <1>1, <1>3, <1>4, <1>6, <1>7, <1>8

\* A write keeps the history honest about which Pod each snapshot changed.
LEMMA WriteUnwritten ==
  ASSUME TypeOK, Unwritten,
         NEW t \in Tablets, NEW pod \in Pods, WritePod(t, pod)
  PROVE  Unwritten'
<1> DEFINE n == Len(log)
<1>1. /\ n \in Nat \ {0} /\ Len(log') = n + 1
      /\ \A i \in 1..n : log'[i] = log[i]
      /\ \A i \in 1..(n+1) : i \in 1..n \/ i = n + 1
      /\ log'[n+1].wrote = t
      /\ Server = log[n].pods /\ Server' = log'[n+1].pods
      /\ \A u \in Tablets : u # t => Server'[u] = Server[u]
  BY WriteEffect
<1> SUFFICES ASSUME NEW i \in 1..(n+1), NEW j \in 1..(n+1), NEW u \in Tablets,
                    i <= j, \A k \in (i+1)..j : log'[k].wrote # u
             PROVE  log'[i].pods[u] = log'[j].pods[u]
  BY <1>1 DEF Unwritten
<1>2. CASE j \in 1..n
  <2>1. i \in 1..n /\ \A k \in (i+1)..j : log[k].wrote # u
    BY <1>2, <1>1
  <2>2. log[i].pods[u] = log[j].pods[u]
    BY <2>1, <1>2 DEF Unwritten
  <2> QED BY <2>1, <2>2, <1>2, <1>1
<1>3. CASE i = n + 1
  BY <1>3, <1>1
<1>4. CASE i \in 1..n /\ j = n + 1
  <2>1. u # t
    BY <1>4, <1>1
  <2>2. \A k \in (i+1)..n : log[k].wrote # u
    BY <1>4, <1>1
  <2>3. log[i].pods[u] = log[n].pods[u]
    BY <2>2, <1>4, <1>1 DEF Unwritten
  <2> QED BY <2>1, <2>3, <1>4, <1>1
<1> QED BY <1>2, <1>3, <1>4, <1>1

\* A watch event drops the oldest snapshot and changes nothing else.
LEMMA DeliverEffect ==
  ASSUME TypeOK, Deliver
  PROVE  /\ log' \in Seq(Snapshots)
         /\ Len(log') = Len(log) - 1 /\ Len(log') > 0
         /\ \A i \in 1..Len(log') : log'[i] = log[i + 1]
         /\ Server' = Server
<1>1. log \in Seq(Snapshots) /\ Len(log) > 1 /\ log' = Tail(log)
  BY DEF TypeOK, Deliver
<1>2. /\ log' \in Seq(Snapshots)
      /\ Len(log') = Len(log) - 1 /\ Len(log') > 0
      /\ \A i \in 1..Len(log') : log'[i] = log[i + 1]
  BY <1>1
<1> QED BY <1>1, <1>2 DEF Server

-----------------------------------------------------------------------------
(* Writes that neither acknowledge nor finish a drain *)

\* A write of a Pod that adds neither acknowledged nor finished keeps LogInv.
LEMMA HarmlessWrite ==
  ASSUME Inv, NEW t \in Tablets, NEW pod \in Pods, WritePod(t, pod),
         pod.acked => Server[t].acked,
         pod.finished => Server[t].finished,
         pod.finished => pod.acked,
         pod.started \/ pod.acked => Exists(pod)
  PROVE  /\ LogInv'
         /\ (/\ pc' = pc /\ view' = view /\ todo' \subseteq todo
             /\ InPass => t \in stale' /\ stale \subseteq stale')
               => PassInv'
<1> DEFINE n == Len(log)
<1> USE DEF Inv
<1>0. /\ n \in Nat \ {0} /\ Len(log') = n + 1
      /\ \A i \in 1..n : log'[i] = log[i]
      /\ \A i \in 1..(n+1) : i \in 1..n \/ i = n + 1
      /\ Server = log[n].pods /\ Server' = log'[n+1].pods
      /\ \A u \in Tablets : /\ u # t => Server'[u] = Server[u]
                            /\ u = t => Server'[u] = pod
  BY WriteEffect
<1>1. \A u \in Tablets : /\ Server'[u].acked => Server[u].acked
                         /\ Server'[u].finished => Server[u].finished
  BY <1>0
<1>2. Unwritten'
  BY WriteUnwritten DEF LogInv
<1>3. \A i \in 1..(n+1) : Valid(log'[i].pods)
  <2>1. Valid(Server)
    BY <1>0 DEF LogInv
  <2>2. Valid(Server')
    BY <2>1, <1>0, <1>1 DEF Valid
  <2> QED BY <2>2, <1>0 DEF LogInv
<1>4. \A i, j \in 1..(n+1) : i <= j => AckBehind(log'[i].pods, log'[j].pods)
  BY <1>0, <1>1 DEF LogInv, AckBehind
<1>5. \A i \in 1..(n+1) : FinishBehind(log'[i].pods, Server')
  BY <1>0, <1>1 DEF LogInv, FinishBehind
<1>6. AtMostOneFinished'
  BY <1>1 DEF LogInv, AtMostOneFinished, Finished
<1>7. LogInv'
  BY <1>0, <1>2, <1>3, <1>4, <1>5, <1>6 DEF LogInv
<1>8. ASSUME pc' = pc, view' = view, todo' \subseteq todo,
             InPass => t \in stale' /\ stale \subseteq stale'
      PROVE  PassInv'
  <2> SUFFICES ASSUME InPass PROVE PassInv'
    BY <1>8 DEF PassInv, InPass
  <2>1. \A u \in Tablets \ stale' : \A i \in 1..(n+1) : log'[i].pods[u] = view[u]
    BY <1>8, <1>0, <1>1 DEF PassInv
  <2>2. \A i \in 1..(n+1) : AckBehind(view, log'[i].pods)
    BY <1>0, <1>1 DEF PassInv, AckBehind
  <2>3. FinishBehind(view, Server')
    BY <1>1 DEF PassInv, FinishBehind
  <2> QED BY <1>8, <1>0, <2>1, <2>2, <2>3 DEF PassInv, Valid, Aborted
<1> QED BY <1>7, <1>8

-----------------------------------------------------------------------------
(* The controller's own writes *)

\* drain.GetState, as a test of the three annotations.
LEMMA GetStateOf ==
  ASSUME NEW pod \in Pods
  PROVE  /\ GetState(pod) = "Finished" <=> pod.finished
         /\ GetState(pod) = "Acknowledged" <=> ~pod.finished /\ pod.acked
         /\ GetState(pod) = "Draining"
              <=> ~pod.finished /\ ~pod.acked /\ pod.started
BY DEF GetState, Finished, Acknowledged, Started, Pods

\* What the listing shows when the state machine answers with a transition.
LEMMA TransitionMeans ==
  ASSUME NEW pods \in [Tablets -> Pods], Valid(pods), Aborted(pods) = {},
         NEW t \in DOMAIN StateTransitions(DrainsOf(pods))
  PROVE  LET s == StateTransitions(DrainsOf(pods))[t]
         IN  /\ t \in Tablets /\ pods[t].started
             /\ \/ s = "Acknowledged" /\ ~pods[t].acked
                \/ /\ s = "Finished" /\ pods[t].acked
                   /\ \A u \in Tablets :
                        /\ ~pods[u].finished
                        /\ pods[u].started => pods[u].acked
                        /\ pods[u].acked => t <= u
<1> DEFINE drains == DrainsOf(pods)
<1>1. \A u \in Tablets : u \in DOMAIN drains <=> pods[u].started
  BY DEF DrainsOf, Started
<1>2. DOMAIN drains \subseteq Tablets
  BY DEF DrainsOf
<1>3. \A u \in DOMAIN drains : /\ u \in Tablets
                               /\ drains[u] = GetState(pods[u])
  BY <1>2 DEF DrainsOf
<1>4. \A u \in Tablets : pods[u].finished \/ pods[u].acked => pods[u].started
  BY DEF Aborted, Started, Acknowledged, Finished
<1>5. \A u \in DOMAIN drains :
         /\ drains[u] = "Finished" <=> pods[u].finished
         /\ drains[u] = "Acknowledged" <=> ~pods[u].finished /\ pods[u].acked
         /\ drains[u] = "Draining"
              <=> ~pods[u].finished /\ ~pods[u].acked /\ pods[u].started
  BY <1>3, GetStateOf
<1> HIDE DEF drains
<1>6. CASE CanMarkFinished(drains)
  <2>1. /\ t \in FirstAcknowledged(drains)
        /\ StateTransitions(drains)[t] = "Finished"
    BY <1>6 DEF StateTransitions, drains
  <2>2. t \in DOMAIN drains /\ drains[t] = "Acknowledged"
    BY <2>1 DEF FirstAcknowledged, InState
  <2>3. \A u \in DOMAIN drains : drains[u] # "Draining" /\ drains[u] # "Finished"
    BY <1>6 DEF CanMarkFinished, InState
  <2>4. \A u \in DOMAIN drains : drains[u] = "Acknowledged" => t <= u
    BY <2>1 DEF FirstAcknowledged, InState
  <2>5. \A u \in Tablets : /\ ~pods[u].finished
                           /\ pods[u].started => pods[u].acked
                           /\ pods[u].acked => t <= u
    BY <2>3, <2>4, <1>1, <1>4, <1>5
  <2> QED BY <2>1, <2>2, <2>5, <1>2, <1>1, <1>5 DEF drains
<1>7. CASE ~CanMarkFinished(drains)
  <2>1. /\ t \in InState(drains, "Draining")
        /\ StateTransitions(drains)[t] = "Acknowledged"
    BY <1>7 DEF StateTransitions, drains
  <2> QED BY <2>1, <1>2, <1>1, <1>5 DEF InState, drains
<1> QED BY <1>6, <1>7

\* drain.StateTransitions only ever acknowledges or finishes.
LEMMA TransitionRange ==
  ASSUME NEW drains, NEW t \in DOMAIN StateTransitions(drains)
  PROVE  StateTransitions(drains)[t] \in {"Acknowledged", "Finished"}
BY DEF StateTransitions

\* updateDrainStatus writes a well-typed Pod.
LEMMA UpdatedPodType ==
  ASSUME NEW pod \in Pods, NEW s \in {"NotDraining", "Acknowledged", "Finished"}
  PROVE  UpdatedPod(pod, s) \in Pods
BY DEF UpdatedPod, Pods, Finish, Acknowledge, Unacknowledge, Unfinish

\* The acknowledge or finish write of a pass keeps the invariant: the heart of the proof.
LEMMA MarkPreserves ==
  ASSUME Inv, NEW t \in Tablets, MarkDrain(t)
  PROVE  LogInv' /\ PassInv'
<1> DEFINE n == Len(log)
           s == StateTransitions(DrainsOf(view))[t]
           pod == UpdatedPod(view[t], s)
<1>1. /\ pc = "mark" /\ InPass /\ t \in todo /\ t \notin stale
      /\ WritePod(t, pod)
      /\ stale' = stale \cup {t} /\ pc' = pc /\ view' = view
  BY DEF MarkDrain, UpdateDrainStatus, InPass
<1>2. /\ view \in [Tablets -> Pods]
      /\ t \in DOMAIN StateTransitions(DrainsOf(view))
  BY <1>1 DEF Inv, TypeOK
<1>3. Valid(view) /\ Aborted(view) = {}
  BY <1>1 DEF Inv, PassInv
<1>4. /\ view[t].started
      /\ \/ s = "Acknowledged" /\ ~view[t].acked
         \/ /\ s = "Finished" /\ view[t].acked
            /\ \A u \in Tablets : /\ ~view[u].finished
                                  /\ view[u].started => view[u].acked
                                  /\ view[u].acked => t <= u
  BY <1>2, <1>3, TransitionMeans
<1>5. \A i \in 1..n : log[i].pods[t] = view[t]
  BY <1>1 DEF Inv, PassInv
<1>6. TypeOK
  BY DEF Inv
<1>7. pod \in Pods
  BY <1>2, <1>4, UpdatedPodType
<1>8. pod = [view[t] EXCEPT !.acked = TRUE] \/ pod = [view[t] EXCEPT !.finished = TRUE]
  BY <1>4 DEF UpdatedPod, Finish, Acknowledge
<1> HIDE DEF pod
<1>9. /\ n \in Nat \ {0} /\ Len(log') = n + 1
      /\ \A i \in 1..n : log'[i] = log[i]
      /\ \A i \in 1..(n+1) : i \in 1..n \/ i = n + 1
      /\ Server = log[n].pods /\ Server' = log'[n+1].pods
      /\ Server \in [Tablets -> Pods]
      /\ \A u \in Tablets : /\ u # t => Server'[u] = Server[u]
                            /\ u = t => Server'[u] = pod
  BY <1>1, <1>6, <1>7, WriteEffect
<1>10. Unwritten'
  BY <1>1, <1>6, <1>7, WriteUnwritten DEF Inv, LogInv
<1>11. view[t] \in Pods /\ Server[t] = view[t]
  BY <1>2, <1>5, <1>9
<1>12. \A u \in Tablets :
         /\ Server'[u].acked => Server[u].acked \/ u = t
         /\ Server'[u].finished
              => Server[u].finished \/ (u = t /\ s = "Finished")
  BY <1>4, <1>7, <1>8, <1>9, <1>11 DEF Pods, pod, UpdatedPod, Acknowledge
<1>13. Valid(Server')
  <2>1. Valid(Server)
    BY <1>9 DEF Inv, LogInv
  <2>2. pod.finished => pod.acked
    BY <1>4, <1>3, <1>11 DEF Pods, pod, UpdatedPod, Acknowledge, Finish, Valid
  <2>3. Exists(pod)
    BY <1>4, <1>3, <1>8, <1>11 DEF Pods, Exists, Valid
  <2> QED BY <2>1, <2>2, <2>3, <1>9 DEF Valid
<1>14. \A i \in 1..n : AckBehind(log[i].pods, Server')
  <2>1. \A i \in 1..n : AckBehind(log[i].pods, Server)
    BY <1>9 DEF Inv, LogInv
  <2> QED BY <2>1, <1>4, <1>5, <1>12 DEF AckBehind
<1>15. AckBehind(view, Server')
  <2>1. AckBehind(view, Server)
    BY <1>1, <1>9 DEF Inv, PassInv
  <2> QED BY <2>1, <1>4, <1>12 DEF AckBehind
<1>16. ASSUME NEW snap, FinishBehind(snap, Server), snap[t] = view[t],
              s = "Finished" => \A u \in Tablets : snap[u].acked => view[u].acked
       PROVE  FinishBehind(snap, Server')
  BY <1>16, <1>4, <1>12 DEF FinishBehind
<1>17. s = "Finished" =>
         \A i \in 1..n : \A u \in Tablets : log[i].pods[u].acked => view[u].acked
  BY <1>1, <1>4 DEF Inv, PassInv, AckBehind
<1>18. \A i \in 1..n : FinishBehind(log[i].pods, Server')
  BY <1>5, <1>16, <1>17 DEF Inv, LogInv
<1>19. FinishBehind(view, Server')
  BY <1>1, <1>16 DEF Inv, PassInv
<1>20. AtMostOneFinished'
  <2>1. s = "Finished" => \A u \in Tablets : Server[u].finished => u = t
    <3> SUFFICES ASSUME s = "Finished", NEW u \in Tablets, Server[u].finished
                 PROVE  u = t
      OBVIOUS
    <3>1. view[u].acked /\ u <= t
      BY <1>1, <1>4 DEF Inv, PassInv, FinishBehind
    <3>2. t <= u
      BY <3>1, <1>4
    <3> QED BY <3>1, <3>2, ShardDrainAssumption
  <2>2. AtMostOneFinished
    BY DEF Inv, LogInv
  <2> QED BY <2>1, <2>2, <1>12 DEF AtMostOneFinished, Finished
<1>21. /\ \A i \in 1..(n+1) : Valid(log'[i].pods)
       /\ \A i, j \in 1..(n+1) : i <= j => AckBehind(log'[i].pods, log'[j].pods)
       /\ \A i \in 1..(n+1) : FinishBehind(log'[i].pods, Server')
  <2>1. \A i \in 1..(n+1) : Valid(log'[i].pods)
    BY <1>9, <1>13 DEF Inv, LogInv
  <2>2. \A i, j \in 1..(n+1) : i <= j => AckBehind(log'[i].pods, log'[j].pods)
    <3>1. AckBehind(Server', Server')
      BY DEF AckBehind
    <3> QED BY <3>1, <1>9, <1>14 DEF Inv, LogInv
  <2>3. \A i \in 1..(n+1) : FinishBehind(log'[i].pods, Server')
    <3>1. FinishBehind(Server', Server')
      BY DEF FinishBehind
    <3> QED BY <3>1, <1>9, <1>18
  <2> QED BY <2>1, <2>2, <2>3
<1>22. LogInv'
  BY <1>9, <1>10, <1>20, <1>21 DEF LogInv
<1>23. PassInv'
  <2>1. \A u \in Tablets \ stale' : \A i \in 1..(n+1) : log'[i].pods[u] = view[u]
    BY <1>1, <1>9 DEF Inv, PassInv
  <2>2. \A i \in 1..(n+1) : AckBehind(view, log'[i].pods)
    BY <1>1, <1>9, <1>15 DEF Inv, PassInv
  <2> QED BY <1>1, <1>3, <1>9, <1>19, <2>1, <2>2 DEF PassInv, Valid, Aborted
<1> QED BY <1>22, <1>23

-----------------------------------------------------------------------------
(* Every step preserves the types *)

\* Every step of ShardDrain preserves the types.
LEMMA TypeStep ==
  ASSUME TypeOK, [Next]_vars
  PROVE  TypeOK'
<1> USE ShardDrainAssumption
<1>1. ASSUME NEW t \in Tablets, NEW pod \in Pods, OthersWrite(t, pod),
             drainsLeft' \in Nat, troubleLeft' \in Nat
      PROVE  TypeOK'
  <2>1. log' \in Seq(Snapshots) /\ Len(log') > 0
    BY <1>1, WriteEffect DEF OthersWrite
  <2> QED BY <1>1, <2>1 DEF TypeOK, OthersWrite, Outdate
<1>2. ASSUME NEW t \in Tablets, Others(t)
      PROVE  TypeOK'
  <2>1. Server[t] \in Pods /\ drainsLeft \in Nat /\ troubleLeft \in Nat
    BY ServerType DEF TypeOK
  <2>2. /\ Start(Server[t]) \in Pods /\ Gone \in Pods /\ NewPod("starting") \in Pods
        /\ [Server[t] EXCEPT !.started = FALSE] \in Pods
        /\ [Server[t] EXCEPT !.phase = "ready"] \in Pods
        /\ [Server[t] EXCEPT !.phase = "starting"] \in Pods
    BY <2>1, PodTypes DEF Start, Pods
  <2>3. Trouble => troubleLeft' \in Nat
    BY <2>1 DEF Trouble
  <2>4. CASE StartDrain(t)
    BY <2>1, <2>2, <2>4, <1>1 DEF StartDrain
  <2>5. CASE AbortDrain(t)
    BY <2>1, <2>2, <2>5, <1>1 DEF AbortDrain
  <2>6. CASE DeleteDrained(t)
    BY <2>1, <2>2, <2>6, <1>1 DEF DeleteDrained
  <2>7. CASE RecreatePod(t)
    BY <2>1, <2>2, <2>7, <1>1 DEF RecreatePod
  <2>8. CASE PodReady(t)
    BY <2>1, <2>2, <2>8, <1>1 DEF PodReady
  <2>9. CASE PodUnready(t)
    BY <2>1, <2>2, <2>3, <2>9, <1>1 DEF PodUnready
  <2>10. CASE PodLost(t)
    BY <2>1, <2>2, <2>3, <2>10, <1>1 DEF PodLost
  <2>11. CASE ElectPrimary(t)
    BY <2>11 DEF ElectPrimary, TypeOK, pass
  <2>12. CASE FailOver(t)
    BY <2>3, <2>12 DEF FailOver, TypeOK, pass
  <2> QED BY <1>2, <2>4, <2>5, <2>6, <2>7, <2>8, <2>9, <2>10, <2>11, <2>12 DEF Others
<1>3. ASSUME EndPass, log' \in Seq(Snapshots), Len(log') > 0,
             UNCHANGED <<available, drainsLeft, troubleLeft>>,
             primary' \in Tablets \cup {NoPrimary}
      PROVE  TypeOK'
  BY <1>3, PodTypes DEF EndPass, TypeOK
<1>4. ASSUME NEW t \in Tablets, Loops(t)
      PROVE  TypeOK'
  <2>1. view[t] \in Pods /\ primary \in Tablets \cup {NoPrimary}
        /\ log \in Seq(Snapshots) /\ Len(log) > 0
    BY DEF TypeOK
  <2>2. ASSUME NEW s \in {"NotDraining", "Acknowledged", "Finished"},
               UpdateDrainStatus(t, s)
        PROVE  log' \in Seq(Snapshots) /\ Len(log') > 0
    <3>1. UpdatedPod(view[t], s) \in Pods
      BY <2>1, UpdatedPodType
    <3> QED BY <2>2, <3>1, WriteEffect DEF UpdateDrainStatus
  <2>3. CASE ClearDrain(t)
    <3>1. log' \in Seq(Snapshots) /\ Len(log') > 0
      BY <2>2, <2>3 DEF ClearDrain
    <3>2. CASE todo = {t}
      BY <2>1, <2>3, <3>1, <3>2, <1>3 DEF ClearDrain
    <3>3. CASE todo # {t}
      BY <2>3, <3>1, <3>3 DEF ClearDrain, TypeOK
    <3> QED BY <3>2, <3>3
  <2>4. CASE ClearFails(t)
    <3>1. CASE todo = {t}
      BY <2>1, <2>4, <3>1, <1>3 DEF ClearFails
    <3>2. CASE todo # {t}
      BY <2>4, <3>2 DEF ClearFails, TypeOK
    <3> QED BY <3>1, <3>2
  <2>5. CASE MarkDrain(t)
    <3>1. t \in DOMAIN StateTransitions(DrainsOf(view))
      BY <2>5 DEF MarkDrain, TypeOK
    <3>2. StateTransitions(DrainsOf(view))[t] \in {"Acknowledged", "Finished"}
      BY <3>1, TransitionRange
    <3>3. log' \in Seq(Snapshots) /\ Len(log') > 0
      BY <2>2, <2>5, <3>2 DEF MarkDrain
    <3> QED BY <2>5, <3>3 DEF MarkDrain, TypeOK
  <2>6. CASE MarkFails(t)
    BY <2>6 DEF MarkFails, TypeOK
  <2>7. CASE PlannedReparent(t)
    BY <2>1, <2>7, <1>3 DEF PlannedReparent
  <2> QED BY <1>4, <2>3, <2>4, <2>5, <2>6, <2>7 DEF Loops
<1>5. CASE Deliver
  BY <1>5, DeliverEffect DEF Deliver, TypeOK, pass
<1>6. CASE UpdateStatus
  BY <1>6 DEF UpdateStatus, TypeOK, pass
<1>7. CASE Reconcile
  BY <1>7 DEF Reconcile, TypeOK
<1>8. CASE ListPods
  <2>1. CASE EndPass
    BY <1>8, <2>1, <1>3 DEF ListPods, TypeOK
  <2>2. CASE ~EndPass
    <3>1. Cache \in [Tablets -> Pods] /\ \A i \in 1..Len(log) : log[i] \in Snapshots
      BY ServerType
    <3>2. WrittenSince \subseteq Tablets \cup {NoPrimary}
      BY <3>1, ServerType DEF WrittenSince, Snapshots
    <3>3. /\ Aborted(Cache) \subseteq Tablets
          /\ ToMark(Cache, primary) \subseteq DOMAIN StateTransitions(DrainsOf(Cache))
      BY DEF Aborted, ToMark
    <3>4. DOMAIN StateTransitions(DrainsOf(Cache)) \subseteq Tablets
      BY DEF StateTransitions, DrainsOf, FirstAcknowledged, InState
    <3>5. /\ view' = Cache /\ primarySeen' = primary /\ stale' = WrittenSince
          /\ pc' \in {"clear", "mark"}
          /\ todo' \subseteq Tablets
          /\ pc' = "mark" => todo' = ToMark(Cache, primary)
          /\ UNCHANGED <<log, available, primary, drainsLeft, troubleLeft, healthy>>
      BY <1>8, <2>2, <3>3, <3>4 DEF ListPods
    <3> QED BY <3>1, <3>2, <3>3, <3>5 DEF TypeOK
  <2> QED BY <2>1, <2>2
<1>9. CASE DecideReparent
  <2>1. CASE EndPass
    BY <1>9, <2>1, <1>3 DEF DecideReparent, TypeOK
  <2>2. CASE ~EndPass
    BY <1>9, <2>2 DEF DecideReparent, TypeOK
  <2> QED BY <2>1, <2>2
<1>10. CASE DisableFastShutdownFails \/ PlannedReparentFails \/ Restart
  BY <1>10, <1>3 DEF DisableFastShutdownFails, PlannedReparentFails, Restart, TypeOK
<1>11. CASE UNCHANGED vars
  BY <1>11 DEF vars, pass, TypeOK
<1> QED BY <1>2, <1>4, <1>5, <1>6, <1>7, <1>8, <1>9, <1>10, <1>11 DEF Next

-----------------------------------------------------------------------------
(* Every step preserves the invariant *)

\* The invariant holds before the first pass.
LEMMA InitInv == Init => Inv
<1> SUFFICES ASSUME Init PROVE Inv
  OBVIOUS
<1> USE ShardDrainAssumption
<1> DEFINE first == [pods |-> [t \in Tablets |-> NewPod("ready")],
                     wrote |-> NoPrimary]
<1>1. first \in Snapshots
  BY PodTypes DEF Snapshots
<1>2. log = <<first>>
  BY DEF Init
<1>3. log \in Seq(Snapshots) /\ Len(log) = 1 /\ log[1] = first
  BY <1>1, <1>2
<1> HIDE DEF first
<1>4. TypeOK
  <2>1. /\ primary = NoPrimary /\ primarySeen = NoPrimary
        /\ available = Tablets /\ drainsLeft \in Nat /\ troubleLeft \in Nat
        /\ pc = "idle" /\ healthy = FALSE /\ todo = {} /\ stale = {}
        /\ view \in [Tablets -> Pods]
    BY PodTypes DEF Init
  <2>2. log \in Seq(Snapshots) /\ Len(log) > 0
    BY <1>3
  <2>3. pc # "mark"
    BY <2>1
  <2> QED BY <2>1, <2>2, <2>3 DEF TypeOK
<1>5. \A t \in Tablets : /\ ~log[1].pods[t].acked /\ ~log[1].pods[t].started
                         /\ ~log[1].pods[t].finished
  BY <1>3 DEF NewPod, first
<1>6. Server = log[1].pods /\ \A i \in 1..Len(log) : i = 1
  BY <1>3 DEF Server
<1>7. LogInv
  BY <1>5, <1>6 DEF LogInv, Unwritten, Valid, AckBehind, FinishBehind,
                    AtMostOneFinished, Finished
<1>8. PassInv
  BY DEF Init, PassInv, InPass
<1> QED BY <1>4, <1>7, <1>8 DEF Inv

\* The cache may catch up while a pass is open.
LEMMA DeliverPreserves ==
  ASSUME Inv, Deliver
  PROVE  LogInv' /\ PassInv'
<1> DEFINE n == Len(log)
<1>1. /\ n \in Nat \ {0} /\ n > 1 /\ Len(log') = n - 1
      /\ \A i \in 1..(n-1) : log'[i] = log[i+1] /\ i + 1 \in 1..n
      /\ Server' = Server
      /\ pc' = pc /\ view' = view /\ stale' = stale /\ todo' = todo
  BY DeliverEffect, ServerType DEF Inv, Deliver, pass
<1>0. Len(log') = n - 1
  BY <1>1
<1>2. Unwritten'
  <2> SUFFICES ASSUME NEW i \in 1..(n-1), NEW j \in 1..(n-1), NEW u \in Tablets,
                      i <= j, \A k \in (i+1)..j : log'[k].wrote # u
               PROVE  log'[i].pods[u] = log'[j].pods[u]
    BY <1>0 DEF Unwritten
  <2>1. \A k \in (i+2)..(j+1) : log[k].wrote # u
    <3> SUFFICES ASSUME NEW k \in (i+2)..(j+1) PROVE log[k].wrote # u
      OBVIOUS
    <3>1. k - 1 \in (i+1)..j /\ k - 1 \in 1..(n-1) /\ (k - 1) + 1 = k
      BY <1>1
    <3>2. log'[k-1] = log[(k-1) + 1]
      BY <3>1, <1>1
    <3> QED BY <3>1, <3>2
  <2>2. i + 1 \in 1..n /\ j + 1 \in 1..n /\ i + 1 <= j + 1 /\ (i + 1) + 1 = i + 2
    BY <1>1
  <2>3. log[i+1].pods[u] = log[j+1].pods[u]
    BY <2>1, <2>2 DEF Inv, LogInv, Unwritten
  <2> QED BY <2>3, <1>1
<1>3. LogInv'
  <2>1. \A i, j \in 1..(n-1) : i <= j => i + 1 <= j + 1
    BY <1>1
  <2>2. \A i, j \in 1..(n-1) : i <= j => AckBehind(log'[i].pods, log'[j].pods)
    BY <2>1, <1>1 DEF Inv, LogInv
  <2>3. \A i \in 1..(n-1) : /\ Valid(log'[i].pods)
                            /\ FinishBehind(log'[i].pods, Server')
    BY <1>1 DEF Inv, LogInv
  <2>4. AtMostOneFinished'
    BY <1>1 DEF Inv, LogInv, AtMostOneFinished
  <2> QED BY <1>1, <1>2, <2>2, <2>3, <2>4 DEF LogInv
<1>4. PassInv'
  <2> SUFFICES ASSUME InPass PROVE PassInv'
    BY <1>1 DEF PassInv, InPass
  <2>1. \A u \in Tablets \ stale : \A i \in 1..(n-1) : log'[i].pods[u] = view[u]
    BY <1>1 DEF Inv, PassInv
  <2>2. \A i \in 1..(n-1) : AckBehind(view, log'[i].pods)
    BY <1>1 DEF Inv, PassInv
  <2>3. /\ Valid(view) /\ FinishBehind(view, Server)
        /\ pc = "mark" => Aborted(view) = {}
        /\ pc = "clear" => todo \subseteq Aborted(view)
    BY DEF Inv, PassInv
  <2> QED BY <1>1, <2>1, <2>2, <2>3 DEF PassInv, Valid, Aborted
<1> QED BY <1>3, <1>4

\* The listing a pass starts from satisfies what PassInv asks of it.
LEMMA ListPreserves ==
  ASSUME Inv, ListPods
  PROVE  LogInv' /\ PassInv'
<1> DEFINE n == Len(log)
<1>0. log' = log
  BY DEF ListPods
<1>1. n \in Nat \ {0} /\ log' = log /\ Server' = Server
  BY <1>0, ServerType DEF Inv, Server
<1>2. LogInv'
  BY <1>0 DEF Inv, LogInv, Unwritten, AtMostOneFinished, Server
<1>3. CASE EndPass
  BY <1>2, <1>3 DEF EndPass, PassInv, InPass
<1>4. CASE ~EndPass
  <2>1. /\ view' = log[1].pods /\ stale' = WrittenSince
        /\ pc' = "mark" => Aborted(view') = {}
        /\ pc' = "clear" => todo' = Aborted(view')
    BY <1>4 DEF ListPods, Cache
  <2>2. 1 \in 1..n /\ \A i \in 1..n : 1 <= i
    BY <1>1
  <2>3. \A t \in Tablets \ WrittenSince : \A i \in 1..n : log[i].pods[t] = log[1].pods[t]
    <3> SUFFICES ASSUME NEW t \in Tablets \ WrittenSince, NEW i \in 1..n
                 PROVE  log[i].pods[t] = log[1].pods[t]
      OBVIOUS
    <3>1. \A k \in (1+1)..i : log[k].wrote # t
      <4>1. \A k \in (1+1)..i : k \in 2..n
        BY <1>1
      <4> QED BY <4>1 DEF WrittenSince
    <3> QED BY <3>1, <2>2 DEF Inv, LogInv, Unwritten
  <2>4. \A i \in 1..n : AckBehind(log[1].pods, log[i].pods)
    BY <2>2 DEF Inv, LogInv
  <2>5. Valid(log[1].pods) /\ FinishBehind(log[1].pods, Server)
    BY <2>2 DEF Inv, LogInv
  <2>6. PassInv'
    BY <1>1, <2>1, <2>3, <2>4, <2>5 DEF PassInv, Valid, Aborted
  <2> QED BY <1>2, <2>6
<1> QED BY <1>3, <1>4

\* A step that leaves the log alone and ends the pass or keeps its listing.
LEMMA QuietPreserves ==
  ASSUME Inv, log' = log,
         \/ EndPass
         \/ /\ UNCHANGED <<view, stale>> /\ todo' \subseteq todo
            /\ pc' = pc \/ pc' \in {"got", "reparent"}
            /\ pc' \in {"clear", "mark", "reparent"} => InPass
  PROVE  LogInv' /\ PassInv'
<1>1. Server' = Server
  BY DEF Server
<1>2. LogInv'
  BY <1>1 DEF Inv, LogInv, Unwritten, AtMostOneFinished
<1>3. PassInv'
  <2>1. CASE EndPass
    BY <2>1 DEF EndPass, PassInv, InPass
  <2>2. CASE ~InPass'
    BY <2>2 DEF PassInv
  <2>3. CASE InPass' /\ ~EndPass
    BY <1>1, <2>3 DEF Inv, PassInv, InPass, Valid, Aborted
  <2> QED BY <2>1, <2>2, <2>3
<1> QED BY <1>2, <1>3

\* A write by anybody but the controller, who adds no answer of its own.
LEMMA OthersWritePreserves ==
  ASSUME Inv, NEW t \in Tablets, NEW pod \in Pods, OthersWrite(t, pod),
         pod.started => Exists(pod),
         Exists(Server[t]) => Exists(pod) \/ pod = Gone,
         pod = Gone \/ pod = NewPod("starting")
           \/ (pod.acked = Server[t].acked /\ pod.finished = Server[t].finished)
  PROVE  LogInv' /\ PassInv'
<1>1. /\ Server[t] \in Pods
      /\ Server[t].finished => Server[t].acked
      /\ Server[t].acked => Exists(Server[t])
  <2>1. Len(log) \in Nat \ {0} /\ Server \in [Tablets -> Pods]
    BY ServerType DEF Inv
  <2>2. Valid(Server)
    BY <2>1 DEF Inv, LogInv, Server
  <2> QED BY <2>1, <2>2 DEF Valid
<1>2. /\ pod.acked => Server[t].acked
      /\ pod.finished => Server[t].finished
      /\ pod.finished => pod.acked
      /\ pod.started \/ pod.acked => Exists(pod)
  BY <1>1 DEF Gone, NewPod
<1>3. WritePod(t, pod) /\ pc' = pc /\ view' = view /\ todo' = todo
  BY DEF OthersWrite
<1>4. InPass => t \in stale' /\ stale \subseteq stale'
  BY DEF OthersWrite, Outdate, InPass
<1> QED BY <1>2, <1>3, <1>4, HarmlessWrite

\* Clearing the annotations of an aborted drain keeps the invariant.
LEMMA ClearPreserves ==
  ASSUME Inv, NEW t \in Tablets, ClearDrain(t)
  PROVE  LogInv' /\ PassInv'
<1> DEFINE pod == UpdatedPod(view[t], "NotDraining")
<1>1. WritePod(t, pod)
  BY DEF ClearDrain, UpdateDrainStatus
<1>2. view[t] \in Pods
  BY DEF Inv, TypeOK
<1>3. pod \in Pods
  BY <1>2, UpdatedPodType
<1>4. ~pod.acked /\ ~pod.finished /\ (pod.started => Exists(pod))
  <2>1. view[t].started => Exists(view[t])
    BY DEF ClearDrain, Inv, PassInv, InPass, Valid
  <2> QED BY <1>2, <2>1 DEF Pods, UpdatedPod, Unacknowledge, Unfinish, Exists
<1> HIDE DEF pod
<1>5. CASE EndPass
  BY <1>1, <1>3, <1>4, <1>5, HarmlessWrite DEF EndPass, PassInv, InPass
<1>6. CASE ~EndPass
  <2>1. /\ pc' = pc /\ view' = view /\ todo' \subseteq todo
        /\ t \in stale' /\ stale \subseteq stale'
    BY <1>6 DEF ClearDrain
  <2> QED BY <2>1, <1>1, <1>3, <1>4, HarmlessWrite
<1> QED BY <1>5, <1>6

\* Every step of ShardDrain preserves the invariant.
LEMMA InvStep == Inv /\ [Next]_vars => Inv'
<1> SUFFICES ASSUME Inv, [Next]_vars PROVE LogInv' /\ PassInv'
  BY TypeStep DEF Inv
<1>1. ASSUME NEW t \in Tablets, Others(t)
      PROVE  LogInv' /\ PassInv'
  <2>1. Server[t] \in Pods
    BY ServerType DEF Inv
  <2>2. /\ Gone \in Pods /\ NewPod("starting") \in Pods
        /\ Start(Server[t]) \in Pods
        /\ [Server[t] EXCEPT !.started = FALSE] \in Pods
        /\ [Server[t] EXCEPT !.phase = "ready"] \in Pods
        /\ [Server[t] EXCEPT !.phase = "starting"] \in Pods
    BY <2>1, PodTypes DEF Start, Pods
  <2>3. \A pod \in {Start(Server[t]), [Server[t] EXCEPT !.started = FALSE],
                    [Server[t] EXCEPT !.phase = "ready"],
                    [Server[t] EXCEPT !.phase = "starting"]} :
          pod.acked = Server[t].acked /\ pod.finished = Server[t].finished
    BY <2>1 DEF Start, Pods
  <2>3a. /\ Exists(Server[t]) => Exists(Start(Server[t]))
         /\ Exists(Server[t]) => Exists([Server[t] EXCEPT !.started = FALSE])
         /\ Exists([Server[t] EXCEPT !.phase = "ready"])
         /\ Exists([Server[t] EXCEPT !.phase = "starting"])
         /\ Exists(NewPod("starting"))
         /\ ~Gone.started
    BY <2>1 DEF Start, Pods, Exists, NewPod, Gone
  <2>4. CASE StartDrain(t)
    BY <2>2, <2>3, <2>3a, <2>4, OthersWritePreserves DEF StartDrain
  <2>5. CASE AbortDrain(t)
    BY <2>2, <2>3, <2>3a, <2>5, OthersWritePreserves DEF AbortDrain
  <2>6. CASE DeleteDrained(t)
    BY <2>2, <2>3a, <2>6, OthersWritePreserves DEF DeleteDrained
  <2>7. CASE RecreatePod(t)
    BY <2>2, <2>3a, <2>7, OthersWritePreserves DEF RecreatePod
  <2>8. CASE PodReady(t)
    BY <2>2, <2>3, <2>3a, <2>8, OthersWritePreserves DEF PodReady
  <2>9. CASE PodUnready(t)
    BY <2>2, <2>3, <2>3a, <2>9, OthersWritePreserves DEF PodUnready
  <2>10. CASE PodLost(t)
    BY <2>2, <2>3a, <2>10, OthersWritePreserves DEF PodLost
  <2>11. CASE ElectPrimary(t) \/ FailOver(t)
    <3>1. UNCHANGED <<log, view, stale, pc, todo>>
      BY <2>11 DEF ElectPrimary, FailOver, pass
    <3> QED BY <3>1, QuietPreserves DEF InPass
  <2> QED BY <1>1, <2>4, <2>5, <2>6, <2>7, <2>8, <2>9, <2>10, <2>11 DEF Others
<1>2. ASSUME NEW t \in Tablets, Loops(t)
      PROVE  LogInv' /\ PassInv'
  <2>1. CASE ClearDrain(t)
    BY <2>1, ClearPreserves
  <2>2. CASE ClearFails(t)
    BY <2>2, QuietPreserves DEF ClearFails, InPass
  <2>3. CASE MarkDrain(t)
    BY <2>3, MarkPreserves
  <2>4. CASE MarkFails(t)
    BY <2>4, QuietPreserves DEF MarkFails, InPass
  <2>5. CASE PlannedReparent(t)
    BY <2>5, QuietPreserves DEF PlannedReparent
  <2> QED BY <1>2, <2>1, <2>2, <2>3, <2>4, <2>5 DEF Loops
<1>3. CASE Deliver
  BY <1>3, DeliverPreserves
<1>4. CASE UpdateStatus
  <2>1. UNCHANGED <<log, view, stale, pc, todo>>
    BY <1>4 DEF UpdateStatus, pass
  <2> QED BY <2>1, QuietPreserves DEF InPass
<1>5. CASE Reconcile
  BY <1>5, QuietPreserves DEF Reconcile, InPass
<1>6. CASE ListPods
  BY <1>6, ListPreserves
<1>7. CASE DecideReparent
  BY <1>7, QuietPreserves DEF DecideReparent, InPass
<1>8. CASE DisableFastShutdownFails \/ PlannedReparentFails \/ Restart
  BY <1>8, QuietPreserves DEF DisableFastShutdownFails, PlannedReparentFails, Restart
<1>9. CASE UNCHANGED vars
  <2>1. UNCHANGED <<log, view, stale, pc, todo>>
    BY <1>9 DEF vars, pass
  <2> QED BY <2>1, QuietPreserves DEF InPass
<1> QED BY <1>1, <1>2, <1>3, <1>4, <1>5, <1>6, <1>7, <1>8, <1>9 DEF Next

\* The inductive invariant: what the part of the server history the cache has not
\* seen, and the listing of an open pass, may contain.
THEOREM InductiveInvariant == Spec => []Inv
BY InitInv, InvStep, PTL DEF Spec

-----------------------------------------------------------------------------
(* The theorems *)

\* ShardDrain is type-correct, and its marking loop only writes transitions
\* that drain.StateTransitions returned for the listing.
THEOREM TypeCorrect == Spec => []TypeOK
BY InductiveInvariant, PTL DEF Inv

(***************************************************************************)
(* reconcile_drain.go's guarantee that only one tablet of a shard is       *)
(* marked as finished, for any number of tablets, any lag of the cache,    *)
(* any failures and restarts, and aborted drains.                          *)
(***************************************************************************)
THEOREM OnlyOneFinished == Spec => []AtMostOneFinished
<1>1. Inv => AtMostOneFinished
  BY DEF Inv, LogInv
<1> QED BY <1>1, InductiveInvariant, PTL

\* The error GetState reports, "this should never happen", never happens.
THEOREM AlwaysValidAnnotations == Spec => []ValidAnnotations
<1>1. Inv => ValidAnnotations
  BY DEF Inv, LogInv, Valid, ValidAnnotations, Finished, Acknowledged
<1> QED BY <1>1, InductiveInvariant, PTL

\* One step removes a finished annotation only with the Pod or after an abort.
LEMMA FinishedSticksStep ==
  ASSUME Inv, [Next]_vars, NEW t \in Tablets,
         Server[t].finished, ~(Server'[t]).finished
  PROVE  ~Exists(Server'[t]) \/ ~Server[t].started
<1>0. Server \in [Tablets -> Pods] /\ TypeOK
  BY ServerType DEF Inv
<1>0a. Valid(Server)
  <2>1. Len(log) \in Nat \ {0}
    BY <1>0, ServerType
  <2> QED BY <2>1 DEF Inv, LogInv, Server
<1>1. ASSUME log' = log PROVE FALSE
  BY <1>1 DEF Server
<1>2. ASSUME NEW u \in Tablets, NEW pod \in Pods, WritePod(u, pod)
      PROVE  u = t /\ Server'[t] = pod
  <2>1. u # t => Server'[t] = Server[t]
    BY <1>0, <1>2, WriteEffect
  <2>2. u = t => Server'[t] = pod
    BY <1>0, <1>2, WriteEffect
  <2> QED BY <2>1, <2>2
<1>3. ASSUME NEW u \in Tablets, Others(u)
      PROVE  ~Exists(Server'[t])
  <2>1. Server[u] \in Pods
    BY <1>0
  <2>2. /\ Start(Server[u]) \in Pods /\ NewPod("starting") \in Pods
        /\ [Server[u] EXCEPT !.started = FALSE] \in Pods
        /\ [Server[u] EXCEPT !.phase = "ready"] \in Pods
        /\ [Server[u] EXCEPT !.phase = "starting"] \in Pods
    BY <2>1, PodTypes DEF Start, Pods
  <2>3. ASSUME NEW pod \in {Start(Server[u]), [Server[u] EXCEPT !.started = FALSE],
                    [Server[u] EXCEPT !.phase = "ready"],
                    [Server[u] EXCEPT !.phase = "starting"]},
               OthersWrite(u, pod)
        PROVE  FALSE
    <3>1. pod \in Pods /\ pod.finished = Server[u].finished
      BY <2>1, <2>2, <2>3 DEF Start, Pods
    <3>2. u = t /\ Server'[t] = pod
      BY <1>2, <2>3, <3>1 DEF OthersWrite
    <3> QED BY <3>1, <3>2
  <2>4. ASSUME OthersWrite(u, Gone) PROVE ~Exists(Server'[t])
    <3>1. Server'[t] = Gone
      BY <1>2, <2>4, PodTypes DEF OthersWrite
    <3> QED BY <3>1 DEF Exists, Gone, NewPod
  <2>5. CASE StartDrain(u) \/ AbortDrain(u) \/ PodReady(u) \/ PodUnready(u)
    BY <2>3, <2>5 DEF StartDrain, AbortDrain, PodReady, PodUnready
  <2>6. CASE DeleteDrained(u) \/ PodLost(u)
    BY <2>4, <2>6 DEF DeleteDrained, PodLost
  <2>7. CASE RecreatePod(u)
    <3>1. u = t
      BY <1>2, <2>2, <2>7 DEF RecreatePod, OthersWrite
    <3>2. ~Exists(Server[t])
      BY <2>7, <3>1 DEF RecreatePod
    <3> QED BY <3>2, <1>0a DEF Valid
  <2>8. CASE ElectPrimary(u) \/ FailOver(u)
    BY <1>1, <2>8 DEF ElectPrimary, FailOver
  <2> QED BY <1>3, <2>5, <2>6, <2>7, <2>8 DEF Others
<1>4. ASSUME NEW u \in Tablets, Loops(u)
      PROVE  ~Server[t].started
  <2>1. view[u] \in Pods
    BY <1>0 DEF TypeOK
  <2>2. CASE ClearDrain(u)
    <3>1. UpdatedPod(view[u], "NotDraining") \in Pods
      BY <2>1, UpdatedPodType
    <3>2. u = t /\ u \notin stale /\ pc = "clear" /\ u \in todo
      BY <1>2, <2>2, <3>1 DEF ClearDrain, UpdateDrainStatus
    <3>3. Len(log) \in 1..Len(log)
      BY <1>0, ServerType
    <3>4. Server[t] = view[t] /\ t \in Aborted(view)
      BY <3>2, <3>3 DEF Inv, PassInv, InPass, Server
    <3> QED BY <3>4 DEF Aborted, Started
  <2>3. CASE MarkDrain(u)
    <3> DEFINE s == StateTransitions(DrainsOf(view))[u]
    <3>1. u \in DOMAIN StateTransitions(DrainsOf(view))
      BY <1>0, <2>3 DEF MarkDrain, TypeOK
    <3>2. s \in {"Acknowledged", "Finished"}
      BY <3>1, TransitionRange
    <3> HIDE DEF s
    <3>3. UpdatedPod(view[u], s) \in Pods
      BY <2>1, <3>2, UpdatedPodType
    <3>4. u = t /\ Server'[t] = UpdatedPod(view[u], s) /\ t \notin stale /\ InPass
      BY <1>2, <2>3, <3>3 DEF MarkDrain, UpdateDrainStatus, InPass, s
    <3>5. Len(log) \in 1..Len(log)
      BY <1>0, ServerType
    <3>6. Server[t] = view[t]
      BY <3>4, <3>5 DEF Inv, PassInv, Server
    <3>7. UpdatedPod(view[u], s).finished
      BY <2>1, <3>2, <3>4, <3>6 DEF UpdatedPod, Finish, Acknowledge, Pods
    <3> QED BY <3>4, <3>7
  <2>4. CASE ClearFails(u) \/ MarkFails(u) \/ PlannedReparent(u)
    BY <1>1, <2>4 DEF ClearFails, MarkFails, PlannedReparent
  <2> QED BY <1>4, <2>2, <2>3, <2>4 DEF Loops
<1>5. CASE Deliver
  BY <1>0, <1>5, DeliverEffect
<1>6. CASE \/ UpdateStatus \/ Reconcile \/ ListPods \/ DecideReparent
           \/ DisableFastShutdownFails \/ PlannedReparentFails \/ Restart
           \/ UNCHANGED vars
  BY <1>1, <1>6 DEF UpdateStatus, Reconcile, ListPods, DecideReparent,
       DisableFastShutdownFails, PlannedReparentFails, Restart, vars
<1> QED BY <1>3, <1>4, <1>5, <1>6 DEF Next

(***************************************************************************)
(* A finished annotation is only ever removed together with its Pod or     *)
(* after the drain request was withdrawn: updateDrainStatus never undoes   *)
(* a grant because its listing is old.                                     *)
(***************************************************************************)
THEOREM FinishedIsSticky == Spec => FinishedSticks
<1> DEFINE Sticks == \A t \in Tablets :
             Finished(Server[t]) /\ ~Finished(Server'[t])
               => ~Exists(Server'[t]) \/ ~Started(Server[t])
<1>1. Inv /\ [Next]_vars => [Sticks]_vars
  BY FinishedSticksStep DEF Finished, Started
<1> QED BY <1>1, InductiveInvariant, PTL DEF Spec, FinishedSticks

-----------------------------------------------------------------------------
(* The primary is never finished *)

(***************************************************************************)
(* As long as nothing unplanned happens the primary a pass has read is the *)
(* primary, so leaving it out of the loop is enough; and before there is a *)
(* primary no pass gets far enough to finish anything.                     *)
(***************************************************************************)
PrimaryInv ==
  /\ troubleLeft <= MaxUnplanned
  /\ primary = NoPrimary => ~InPass /\ \A t \in Tablets : ~Finished(Server[t])
  /\ InPass => primarySeen # NoPrimary
  /\ pc = "mark" =>
       \A t \in todo : t = primarySeen => StateTransitions(DrainsOf(view))[t] # "Finished"
  /\ troubleLeft = MaxUnplanned /\ InPass => primarySeen = primary
  /\ NoFinishedPrimary

\* Only the marking loop finishes a Pod, and only by a "Finished" transition.
LEMMA OnlyMarkFinishes ==
  ASSUME Inv, [Next]_vars, NEW t \in Tablets,
         ~Server[t].finished, (Server'[t]).finished
  PROVE  MarkDrain(t) /\ StateTransitions(DrainsOf(view))[t] = "Finished"
<1>0. Server \in [Tablets -> Pods] /\ TypeOK
  BY ServerType DEF Inv
<1>1. ASSUME log' = log PROVE FALSE
  BY <1>1 DEF Server
<1>2. ASSUME NEW u \in Tablets, NEW pod \in Pods, WritePod(u, pod)
      PROVE  u = t /\ pod.finished
  <2>1. u # t => Server'[t] = Server[t]
    BY <1>0, <1>2, WriteEffect
  <2>2. u = t => Server'[t] = pod
    BY <1>0, <1>2, WriteEffect
  <2> QED BY <2>1, <2>2
<1>3. ASSUME NEW u \in Tablets, Others(u)
      PROVE  FALSE
  <2>1. Server[u] \in Pods
    BY <1>0
  <2>2. /\ Start(Server[u]) \in Pods /\ NewPod("starting") \in Pods /\ Gone \in Pods
        /\ [Server[u] EXCEPT !.started = FALSE] \in Pods
        /\ [Server[u] EXCEPT !.phase = "ready"] \in Pods
        /\ [Server[u] EXCEPT !.phase = "starting"] \in Pods
    BY <2>1, PodTypes DEF Start, Pods
  <2>3. ASSUME NEW pod \in {Start(Server[u]), [Server[u] EXCEPT !.started = FALSE],
                    [Server[u] EXCEPT !.phase = "ready"],
                    [Server[u] EXCEPT !.phase = "starting"]},
               OthersWrite(u, pod)
        PROVE  FALSE
    <3>1. pod \in Pods /\ pod.finished = Server[u].finished
      BY <2>1, <2>2, <2>3 DEF Start, Pods
    <3>2. u = t /\ pod.finished
      BY <1>2, <2>3, <3>1 DEF OthersWrite
    <3> QED BY <3>1, <3>2
  <2>4. ASSUME OthersWrite(u, Gone) \/ OthersWrite(u, NewPod("starting"))
        PROVE  FALSE
    BY <1>2, <2>2, <2>4 DEF OthersWrite, Gone, NewPod
  <2>5. CASE StartDrain(u) \/ AbortDrain(u) \/ PodReady(u) \/ PodUnready(u)
    BY <2>3, <2>5 DEF StartDrain, AbortDrain, PodReady, PodUnready
  <2>6. CASE DeleteDrained(u) \/ PodLost(u) \/ RecreatePod(u)
    BY <2>4, <2>6 DEF DeleteDrained, PodLost, RecreatePod
  <2>7. CASE ElectPrimary(u) \/ FailOver(u)
    BY <1>1, <2>7 DEF ElectPrimary, FailOver
  <2> QED BY <1>3, <2>5, <2>6, <2>7 DEF Others
<1>4. ASSUME NEW u \in Tablets, Loops(u)
      PROVE  MarkDrain(t) /\ StateTransitions(DrainsOf(view))[t] = "Finished"
  <2>1. view[u] \in Pods
    BY <1>0 DEF TypeOK
  <2>2. CASE ClearDrain(u)
    <3> DEFINE pod == UpdatedPod(view[u], "NotDraining")
    <3>1. pod \in Pods
      BY <2>1, UpdatedPodType
    <3>2. ~pod.finished
      BY <2>1 DEF UpdatedPod, Unacknowledge, Unfinish, Pods
    <3>3. WritePod(u, pod)
      BY <2>2 DEF ClearDrain, UpdateDrainStatus
    <3> HIDE DEF pod
    <3> QED BY <1>2, <3>1, <3>2, <3>3
  <2>3. CASE MarkDrain(u)
    <3> DEFINE s == StateTransitions(DrainsOf(view))[u]
    <3>1. u \in DOMAIN StateTransitions(DrainsOf(view))
      BY <1>0, <2>3 DEF MarkDrain, TypeOK
    <3>2. s \in {"Acknowledged", "Finished"}
      BY <3>1, TransitionRange
    <3> HIDE DEF s
    <3>3. UpdatedPod(view[u], s) \in Pods
      BY <2>1, <3>2, UpdatedPodType
    <3>4. u = t /\ UpdatedPod(view[u], s).finished /\ u \notin stale /\ InPass
      BY <1>2, <2>3, <3>3 DEF MarkDrain, UpdateDrainStatus, InPass, s
    <3>5. Server[t] = view[t]
      <4>1. Len(log) \in 1..Len(log)
        BY <1>0, ServerType
      <4> QED BY <4>1, <3>4 DEF Inv, PassInv, Server
    <3>6. s # "Acknowledged"
      BY <2>1, <3>4, <3>5 DEF UpdatedPod, Acknowledge, Pods
    <3> QED BY <2>3, <3>2, <3>4, <3>6 DEF s
  <2>4. CASE ClearFails(u) \/ MarkFails(u) \/ PlannedReparent(u)
    BY <1>1, <2>4 DEF ClearFails, MarkFails, PlannedReparent
  <2> QED BY <1>4, <2>2, <2>3, <2>4 DEF Loops
<1>5. CASE Deliver
  BY <1>0, <1>5, DeliverEffect
<1>6. CASE \/ UpdateStatus \/ Reconcile \/ ListPods \/ DecideReparent
           \/ DisableFastShutdownFails \/ PlannedReparentFails \/ Restart
           \/ UNCHANGED vars
  BY <1>1, <1>6 DEF UpdateStatus, Reconcile, ListPods, DecideReparent,
       DisableFastShutdownFails, PlannedReparentFails, Restart, vars
<1> QED BY <1>3, <1>4, <1>5, <1>6 DEF Next

\* Who makes a tablet primary.
PrimaryMove(t) == ElectPrimary(t) \/ FailOver(t) \/ PlannedReparent(t)

\* What a step does to the primary and to the pass.
LEMMA PassMoves ==
  ASSUME TypeOK, [Next]_vars
  PROVE  /\ troubleLeft' \in Nat /\ troubleLeft' <= troubleLeft
         /\ primary' # primary =>
              \E t \in Tablets : PrimaryMove(t) /\ primary' = t /\ log' = log
         /\ InPass' => \/ /\ InPass /\ UNCHANGED <<view, primarySeen>>
                          /\ todo' \subseteq todo /\ (pc' = "mark" => pc = "mark")
                          /\ \A t \in Tablets : ~PlannedReparent(t)
                       \/ /\ ListPods /\ primary # NoPrimary
                          /\ primarySeen' = primary /\ view' = Cache /\ primary' = primary
                          /\ pc' = "mark" => todo' = ToMark(Cache, primary)
<1> DEFINE Goes == \/ /\ InPass /\ UNCHANGED <<view, primarySeen>>
                      /\ todo' \subseteq todo /\ (pc' = "mark" => pc = "mark")
                      /\ \A t \in Tablets : ~PlannedReparent(t)
                   \/ /\ ListPods /\ primary # NoPrimary
                      /\ primarySeen' = primary /\ view' = Cache /\ primary' = primary
                      /\ pc' = "mark" => todo' = ToMark(Cache, primary)
           Moves == primary' # primary =>
              \E t \in Tablets : PrimaryMove(t) /\ primary' = t /\ log' = log
           Counts == troubleLeft' \in Nat /\ troubleLeft' <= troubleLeft
<1>0. troubleLeft \in Nat
  BY DEF TypeOK
<1>1. ASSUME NEW t \in Tablets, Others(t)
      PROVE  Counts /\ Moves /\ (InPass' => Goes)
  <2>1. UNCHANGED <<pc, view, primarySeen, todo>>
    BY <1>1 DEF Others, OthersWrite, StartDrain, AbortDrain, DeleteDrained, RecreatePod,
                PodReady, PodUnready, PodLost, ElectPrimary, FailOver, pass
  <2>2. Counts
    BY <1>0, <1>1 DEF Others, StartDrain, AbortDrain, DeleteDrained, RecreatePod,
                PodReady, PodUnready, PodLost, ElectPrimary, FailOver, Trouble
  <2>3. CASE ElectPrimary(t) \/ FailOver(t)
    <3>1. Moves
      BY <2>3 DEF ElectPrimary, FailOver, PrimaryMove
    <3>2. InPass => \A u \in Tablets : ~PlannedReparent(u)
      BY <2>1 DEF PlannedReparent, EndPass, InPass
    <3> QED BY <2>1, <2>2, <3>1, <3>2 DEF InPass
  <2>4. CASE ~(ElectPrimary(t) \/ FailOver(t))
    <3>1. primary' = primary
      BY <1>1, <2>4 DEF Others, OthersWrite, StartDrain, AbortDrain, DeleteDrained,
                        RecreatePod, PodReady, PodUnready, PodLost
    <3>2. InPass => \A u \in Tablets : ~PlannedReparent(u)
      BY <2>1 DEF PlannedReparent, EndPass, InPass
    <3> QED BY <2>1, <2>2, <3>1, <3>2 DEF InPass
  <2> QED BY <2>3, <2>4
<1>2. ASSUME NEW t \in Tablets, Loops(t)
      PROVE  Counts /\ Moves /\ (InPass' => Goes)
  <2>1. Counts
    BY <1>0, <1>2 DEF Loops, ClearDrain, ClearFails, MarkDrain, MarkFails, PlannedReparent
  <2>2. CASE PlannedReparent(t)
    BY <2>1, <2>2 DEF PlannedReparent, PrimaryMove, EndPass, InPass
  <2>3. CASE ~PlannedReparent(t)
    <3>1. primary' = primary
      BY <1>2, <2>3 DEF Loops, ClearDrain, ClearFails, MarkDrain, MarkFails
    <3>2. ASSUME InPass'
          PROVE  /\ InPass /\ UNCHANGED <<pc, view, primarySeen>> /\ todo' \subseteq todo
      BY <1>2, <2>3, <3>2 DEF Loops, ClearDrain, ClearFails, MarkDrain, MarkFails, EndPass, InPass
    <3>3. InPass' => \A u \in Tablets : ~PlannedReparent(u)
      BY DEF PlannedReparent, EndPass, InPass
    <3> QED BY <2>1, <3>1, <3>2, <3>3
  <2> QED BY <2>2, <2>3
<1>3. CASE Deliver \/ UpdateStatus \/ UNCHANGED vars
  <2>1. UNCHANGED <<pc, view, primarySeen, todo, primary, troubleLeft>>
    BY <1>3 DEF Deliver, UpdateStatus, vars, pass
  <2>2. InPass => \A u \in Tablets : ~PlannedReparent(u)
    BY <2>1 DEF PlannedReparent, EndPass, InPass
  <2> QED BY <1>0, <2>1, <2>2 DEF InPass
<1>4. CASE Reconcile
  BY <1>0, <1>4 DEF Reconcile, InPass
<1>5. CASE ListPods
  <2>1. CASE EndPass
    BY <1>0, <1>5, <2>1 DEF ListPods, EndPass, InPass
  <2>2. CASE ~EndPass
    BY <1>0, <1>5, <2>2 DEF ListPods
  <2> QED BY <2>1, <2>2
<1>6. CASE DecideReparent
  <2>1. CASE EndPass
    BY <1>0, <1>6, <2>1 DEF DecideReparent, EndPass, InPass
  <2>2. CASE ~EndPass
    BY <1>0, <1>6, <2>2 DEF DecideReparent, InPass, PlannedReparent
  <2> QED BY <2>1, <2>2
<1>7. CASE DisableFastShutdownFails \/ PlannedReparentFails \/ Restart
  BY <1>0, <1>7 DEF DisableFastShutdownFails, PlannedReparentFails, Restart, EndPass, InPass
<1> QED BY <1>1, <1>2, <1>3, <1>4, <1>5, <1>6, <1>7 DEF Next

\* The new primary of an election, a reparent or nobody's move was not finished.
LEMMA PrimaryStep == Inv /\ PrimaryInv /\ [Next]_vars => PrimaryInv'
<1> SUFFICES ASSUME Inv, PrimaryInv, [Next]_vars PROVE PrimaryInv'
  OBVIOUS
<1>0. /\ TypeOK /\ primary \in Tablets \cup {NoPrimary} /\ troubleLeft \in Nat
      /\ MaxUnplanned \in Nat /\ NoPrimary \notin Tablets
      /\ todo \subseteq Tablets
  BY ShardDrainAssumption DEF Inv, TypeOK
<1>1. /\ troubleLeft' \in Nat /\ troubleLeft' <= troubleLeft
      /\ primary' # primary =>
           \E t \in Tablets : PrimaryMove(t) /\ primary' = t /\ log' = log
  BY <1>0, PassMoves
<1>2. troubleLeft' <= MaxUnplanned /\ (troubleLeft' = MaxUnplanned => troubleLeft = MaxUnplanned)
  BY <1>0, <1>1 DEF PrimaryInv
<1>3. ASSUME InPass'
      PROVE  \/ /\ InPass /\ UNCHANGED <<view, primarySeen>>
                /\ todo' \subseteq todo /\ (pc' = "mark" => pc = "mark")
                /\ \A t \in Tablets : ~PlannedReparent(t)
             \/ /\ ListPods /\ primary # NoPrimary
                /\ primarySeen' = primary /\ view' = Cache /\ primary' = primary
                /\ pc' = "mark" => todo' = ToMark(Cache, primary)
  BY <1>0, <1>3, PassMoves
<1>4. primary' = NoPrimary => primary = NoPrimary
  BY <1>0, <1>1
<1>5. ASSUME primary' = NoPrimary
      PROVE  ~InPass' /\ \A t \in Tablets : ~Finished(Server'[t])
  <2>1. ~InPass /\ \A t \in Tablets : ~Finished(Server[t])
    BY <1>4, <1>5 DEF PrimaryInv
  <2>2. ~InPass'
    BY <1>3, <1>4, <1>5, <2>1
  <2>3. \A t \in Tablets : ~MarkDrain(t)
    BY <2>1 DEF MarkDrain, InPass
  <2> QED BY <2>1, <2>2, <2>3, OnlyMarkFinishes DEF Finished
<1>6. InPass' => primarySeen' # NoPrimary
  BY <1>3 DEF PrimaryInv
<1>7. ASSUME pc' = "mark", NEW t \in todo', t = primarySeen'
      PROVE  StateTransitions(DrainsOf(view'))[t] # "Finished"
  <2>1. InPass'
    BY <1>7 DEF InPass
  <2>2. CASE /\ InPass /\ UNCHANGED <<view, primarySeen>>
             /\ todo' \subseteq todo /\ (pc' = "mark" => pc = "mark")
    BY <1>7, <2>2 DEF PrimaryInv
  <2>3. CASE /\ primarySeen' = primary /\ view' = Cache
             /\ pc' = "mark" => todo' = ToMark(Cache, primary)
    BY <1>7, <2>3 DEF ToMark
  <2> QED BY <1>3, <2>1, <2>2, <2>3
<1>8. ASSUME troubleLeft' = MaxUnplanned, InPass'
      PROVE  primarySeen' = primary'
  <2>1. CASE /\ InPass /\ UNCHANGED <<view, primarySeen>>
             /\ \A t \in Tablets : ~PlannedReparent(t)
    <3>1. primarySeen = primary /\ primary # NoPrimary
      BY <1>2, <1>8, <2>1 DEF PrimaryInv
    <3>2. \A t \in Tablets : ~FailOver(t)
      BY <1>0, <1>2, <1>8 DEF FailOver, Trouble
    <3>3. primary' = primary
      BY <1>1, <2>1, <3>1, <3>2 DEF PrimaryMove, ElectPrimary
    <3> QED BY <2>1, <3>1, <3>3
  <2> QED BY <1>3, <1>8, <2>1
<1>9. ASSUME troubleLeft' = MaxUnplanned, primary' # NoPrimary, Finished(Server'[primary'])
      PROVE  FALSE
  <2>1. CASE primary' = primary
    <3>1. ~Server[primary].finished /\ primary \in Tablets
      BY <1>0, <1>2, <1>9, <2>1 DEF PrimaryInv, NoFinishedPrimary, Finished
    <3>2. MarkDrain(primary) /\ StateTransitions(DrainsOf(view))[primary] = "Finished"
      BY <1>9, <2>1, <3>1, OnlyMarkFinishes DEF Finished
    <3>3. primarySeen = primary
      BY <1>2, <1>9, <3>2 DEF PrimaryInv, MarkDrain, InPass
    <3> QED BY <3>2, <3>3 DEF PrimaryInv, MarkDrain
  <2>2. CASE primary' # primary
    <3>1. PICK t \in Tablets : PrimaryMove(t) /\ primary' = t /\ log' = log
      BY <1>1, <2>2
    <3>2. Server[t].finished
      BY <1>9, <3>1 DEF Server, Finished
    <3>3. ~FailOver(t)
      BY <1>0, <1>2, <1>9 DEF FailOver, Trouble
    <3>4. ~ElectPrimary(t)
      BY <3>2 DEF ElectPrimary, PrimaryInv, Finished
    <3>5. CASE PlannedReparent(t)
      <4>1. pc = "reparent" /\ ~view[t].acked /\ ~view[t].finished
        BY <3>5 DEF PlannedReparent, CandidatePrimary, Acknowledged, Finished
      <4>2. FinishBehind(view, Server)
        BY <4>1 DEF Inv, PassInv, InPass
      <4> QED BY <3>2, <4>1, <4>2 DEF FinishBehind
    <3> QED BY <3>1, <3>3, <3>4, <3>5 DEF PrimaryMove
  <2> QED BY <2>1, <2>2
<1> QED BY <1>2, <1>5, <1>6, <1>7, <1>8, <1>9 DEF PrimaryInv, NoFinishedPrimary, InPass, Server

(***************************************************************************)
(* "Do not mark current primary as finished", for any number of tablets    *)
(* and any lag: a drainer never gets leave to delete the primary, except   *)
(* after a failover the controller had no part in.                         *)
(***************************************************************************)
THEOREM PrimaryNeverFinished == Spec => []NoFinishedPrimary
<1>1. Init => PrimaryInv
  <2> SUFFICES ASSUME Init PROVE PrimaryInv
    OBVIOUS
  <2>1. troubleLeft = MaxUnplanned /\ MaxUnplanned \in Nat /\ primary = NoPrimary /\ pc = "idle"
    BY ShardDrainAssumption DEF Init
  <2>2. Server = [t \in Tablets |-> NewPod("ready")]
    BY DEF Init, Server
  <2>3. \A t \in Tablets : ~Finished(Server[t])
    BY <2>2 DEF NewPod, Finished
  <2> QED BY <2>1, <2>3 DEF PrimaryInv, NoFinishedPrimary, InPass
<1>2. PrimaryInv => NoFinishedPrimary
  BY DEF PrimaryInv
<1> QED BY <1>1, <1>2, PrimaryStep, InductiveInvariant, PTL DEF Spec

-----------------------------------------------------------------------------
(* The contract with drainers *)

\* What DrainContract is promised for: no request is withdrawn, nothing is lost.
Calm == AllowAbort = FALSE /\ MaxUnplanned = 0

(***************************************************************************)
(* A grant lasts as long as its Pod: it is what makes a drainer that sees  *)
(* it late right to delete the Pod.  Without aborts whatever is            *)
(* acknowledged is still asked for, so no pass ever clears an annotation.  *)
(***************************************************************************)
GrantInv ==
  /\ troubleLeft = 0
  /\ pc # "clear"
  /\ \A i \in 1..Len(log) : \A t \in Tablets : log[i].pods[t].acked => log[i].pods[t].started
  /\ \A i, j \in 1..Len(log) : \A t \in Tablets :
       /\ i <= j /\ log[i].pods[t].finished
       /\ \A k \in i..j : Exists(log[k].pods[t])
       => log[j].pods[t].finished

\* A write of a Pod that moves its slot as the contract allows, if it moves it.
Moves(t, pod) ==
  /\ WritePod(t, pod)
  /\ pod.acked => pod.started
  /\ Server[t].finished /\ Exists(pod) => pod.finished
  /\ LET from == SlotOf(Server[t])
         to   == SlotOf(pod)
     IN  \/ to = from
         \/ from = "serving" /\ to = "requested"
         \/ /\ from = "requested" /\ to = "granted"
            /\ \A u \in Tablets : ~Server[u].finished
         \/ from = "granted" /\ to = "removed"
         \/ from = "removed" /\ to = "serving"

\* drain.go's annotations, read as a slot.
LEMMA SlotMeans ==
  ASSUME NEW pod \in Pods
  PROVE  /\ SlotOf(pod) = "removed" <=> ~Exists(pod)
         /\ SlotOf(pod) = "granted" <=> Exists(pod) /\ pod.finished
         /\ SlotOf(pod) = "requested" <=> Exists(pod) /\ ~pod.finished /\ pod.started
         /\ SlotOf(pod) = "serving" <=> Exists(pod) /\ ~pod.finished /\ ~pod.started
         /\ SlotOf(pod) \in {"serving", "requested", "granted", "removed"}
BY DEF SlotOf, Finished, Started

\* Which steps write to the server when nothing is withdrawn or lost.
LEMMA CalmSteps ==
  ASSUME Calm, GrantInv, [Next]_vars
  PROVE  \/ log' = log
         \/ Deliver
         \/ \E t \in Tablets : \/ StartDrain(t) \/ DeleteDrained(t) \/ RecreatePod(t)
                               \/ PodReady(t) \/ MarkDrain(t)
<1>1. ASSUME NEW t \in Tablets, Others(t)
      PROVE  \/ log' = log
             \/ StartDrain(t) \/ DeleteDrained(t) \/ RecreatePod(t) \/ PodReady(t)
  BY <1>1 DEF Others, AbortDrain, PodUnready, PodLost, ElectPrimary, FailOver, Trouble,
              Calm, GrantInv
<1>2. ASSUME NEW t \in Tablets, Loops(t)
      PROVE  log' = log \/ MarkDrain(t)
  BY <1>2 DEF Loops, ClearDrain, ClearFails, MarkFails, PlannedReparent, GrantInv
<1>3. CASE \/ UpdateStatus \/ Reconcile \/ ListPods \/ DecideReparent
           \/ DisableFastShutdownFails \/ PlannedReparentFails \/ Restart
           \/ UNCHANGED vars
  BY <1>3 DEF UpdateStatus, Reconcile, ListPods, DecideReparent,
       DisableFastShutdownFails, PlannedReparentFails, Restart, vars
<1> QED BY <1>1, <1>2, <1>3 DEF Next

\* What everybody but the controller writes moves a slot as it should.
LEMMA OthersMove ==
  ASSUME Calm, Inv, GrantInv, NEW t \in Tablets,
         StartDrain(t) \/ DeleteDrained(t) \/ RecreatePod(t) \/ PodReady(t)
  PROVE  \E pod \in Pods : Moves(t, pod)
<1>0. /\ Server[t] \in Pods /\ Len(log) \in Nat \ {0}
      /\ Len(log) \in 1..Len(log) /\ 1 \in 1..Len(log) /\ Server = log[Len(log)].pods
  BY ServerType DEF Inv, Server
<1>1. /\ Server[t].acked => Server[t].started
      /\ Server[t].finished => Server[t].acked
  BY <1>0 DEF GrantInv, Inv, LogInv, Valid
<1>2. CASE StartDrain(t)
  <2> DEFINE pod == Start(Server[t])
  <2>1. /\ pod \in Pods /\ WritePod(t, pod)
        /\ pod.started /\ pod.finished = Server[t].finished /\ (Exists(pod) <=> Exists(Server[t]))
    BY <1>0, <1>2 DEF StartDrain, OthersWrite, Start, Pods, Exists
  <2>2. Exists(Server[t]) /\ ~Server[t].started /\ ~Server[t].finished
    BY <1>1, <1>2 DEF StartDrain, Started
  <2> HIDE DEF pod
  <2> QED BY <1>0, <2>1, <2>2, SlotMeans DEF Moves
<1>3. CASE DeleteDrained(t)
  <2>1. Gone \in Pods /\ WritePod(t, Gone) /\ ~Exists(Gone) /\ ~Gone.acked
    BY <1>3, PodTypes DEF DeleteDrained, OthersWrite, Gone, NewPod, Exists
  <2>2. Exists(Server[t]) /\ Server[t].finished
    <3>1. log[1].pods[t].finished /\ \A k \in 1..Len(log) : Exists(log[k].pods[t])
      BY <1>3 DEF DeleteDrained, Finished, Cache
    <3>2. 1 <= Len(log)
      BY <1>0
    <3> QED BY <1>0, <3>1, <3>2 DEF GrantInv
  <2> QED BY <1>0, <2>1, <2>2, SlotMeans DEF Moves
<1>4. CASE RecreatePod(t)
  <2>1. /\ NewPod("starting") \in Pods /\ WritePod(t, NewPod("starting"))
        /\ Exists(NewPod("starting")) /\ ~NewPod("starting").acked
        /\ ~NewPod("starting").started /\ ~NewPod("starting").finished
    BY <1>4, PodTypes DEF RecreatePod, OthersWrite, NewPod, Exists
  <2>2. ~Exists(Server[t]) /\ ~Server[t].finished
    <3>1. ~Exists(Server[t])
      BY <1>4 DEF RecreatePod
    <3> QED BY <1>0, <1>1, <3>1 DEF Inv, LogInv, Valid
  <2> QED BY <1>0, <2>1, <2>2, SlotMeans DEF Moves
<1>5. CASE PodReady(t)
  <2> DEFINE pod == [Server[t] EXCEPT !.phase = "ready"]
  <2>1. /\ pod \in Pods /\ WritePod(t, pod) /\ Exists(pod) /\ Exists(Server[t])
        /\ pod.started = Server[t].started /\ pod.acked = Server[t].acked
        /\ pod.finished = Server[t].finished
    BY <1>0, <1>5 DEF PodReady, OthersWrite, Pods, Exists
  <2> HIDE DEF pod
  <2>2. SlotOf(pod) = SlotOf(Server[t])
    BY <2>1 DEF SlotOf, Finished, Started
  <2> QED BY <1>1, <2>1, <2>2 DEF Moves
<1> QED BY <1>2, <1>3, <1>4, <1>5

\* The controller grants the slot only when it is free.
LEMMA MarkMoves ==
  ASSUME Inv, Inv', NEW t \in Tablets, MarkDrain(t)
  PROVE  \E pod \in Pods : Moves(t, pod)
<1> DEFINE s == StateTransitions(DrainsOf(view))[t]
           pod == UpdatedPod(view[t], s)
<1>1. /\ pc = "mark" /\ t \in todo /\ t \notin stale /\ WritePod(t, pod)
  BY DEF MarkDrain, UpdateDrainStatus
<1>2. /\ view \in [Tablets -> Pods] /\ view[t] \in Pods
      /\ t \in DOMAIN StateTransitions(DrainsOf(view))
      /\ Valid(view) /\ Aborted(view) = {}
      /\ Len(log) \in Nat \ {0} /\ Len(log) \in 1..Len(log)
  BY <1>1, ServerType DEF Inv, TypeOK, PassInv, InPass
<1>3. /\ view[t].started
      /\ \/ s = "Acknowledged" /\ ~view[t].acked
         \/ s = "Finished" /\ view[t].acked /\ ~view[t].finished
  BY <1>2, TransitionMeans
<1>4. Server[t] = view[t] /\ Exists(view[t])
  BY <1>1, <1>2, <1>3 DEF Inv, PassInv, InPass, Server, Valid
<1>5. pod \in Pods
  BY <1>2, <1>3, UpdatedPodType
<1>6. CASE s = "Acknowledged"
  <2>1. pod = [view[t] EXCEPT !.acked = TRUE]
    BY <1>6 DEF UpdatedPod, Acknowledge
  <2>2. pod.started /\ pod.finished = Server[t].finished /\ Exists(pod)
    BY <1>2, <1>3, <1>4, <2>1 DEF Pods, Exists
  <2> HIDE DEF pod
  <2>3. SlotOf(pod) = SlotOf(Server[t])
    BY <1>3, <1>4, <2>2 DEF SlotOf, Finished, Started
  <2> QED BY <1>1, <1>5, <2>2, <2>3 DEF Moves
<1>7. CASE s = "Finished"
  <2>1. pod = [view[t] EXCEPT !.finished = TRUE]
    BY <1>7 DEF UpdatedPod, Finish
  <2>2. pod.started /\ pod.finished /\ Exists(pod)
    BY <1>2, <1>3, <1>4, <2>1 DEF Pods, Exists
  <2> HIDE DEF pod
  <2>3. ~Server[t].finished /\ Server[t].started /\ Exists(Server[t])
    BY <1>3, <1>4, <1>7
  <2>4. \A u \in Tablets : /\ u # t => Server'[u] = Server[u]
                           /\ u = t => Server'[u] = pod
    BY <1>1, <1>5, WriteEffect DEF Inv
  <2>5. \A u \in Tablets : ~Server[u].finished
    BY <2>2, <2>3, <2>4 DEF Inv, LogInv, AtMostOneFinished, Finished
  <2>6. SlotOf(Server[t]) = "requested" /\ SlotOf(pod) = "granted"
    BY <1>2, <1>4, <1>5, <2>2, <2>3, SlotMeans
  <2> QED BY <1>1, <1>5, <2>2, <2>5, <2>6 DEF Moves
<1> QED BY <1>3, <1>6, <1>7

\* Every step is a step of one slot, or moves none.
LEMMA CalmMoves ==
  ASSUME Calm, Inv, Inv', GrantInv, [Next]_vars
  PROVE  log' = log \/ Deliver \/ \E t \in Tablets, pod \in Pods : Moves(t, pod)
BY CalmSteps, OthersMove, MarkMoves

\* A grant outlives every step but the removal of its Pod.
LEMMA GrantStep == Calm /\ Inv /\ Inv' /\ GrantInv /\ [Next]_vars => GrantInv'
<1> SUFFICES ASSUME Calm, Inv, Inv', GrantInv, [Next]_vars PROVE GrantInv'
  OBVIOUS
<1> DEFINE n == Len(log)
<1>0. /\ TypeOK /\ n \in Nat \ {0} /\ Server \in [Tablets -> Pods] /\ Server = log[n].pods
      /\ n \in 1..n /\ 1 \in 1..n
  BY ServerType DEF Inv, Server
<1>1. troubleLeft' = 0
  <2>1. troubleLeft' \in Nat /\ troubleLeft' <= troubleLeft /\ troubleLeft = 0
    BY <1>0, PassMoves DEF GrantInv
  <2> QED BY <2>1
<1>2. pc' # "clear"
  <2>1. CASE ListPods
    <3>1. Aborted(Cache) = {}
      BY <1>0 DEF Aborted, Cache, GrantInv, Inv, LogInv, Valid, Started, Acknowledged, Finished
    <3> QED BY <2>1, <3>1 DEF ListPods, EndPass
  <2>2. CASE ~ListPods
    <3>1. ASSUME NEW t \in Tablets, Others(t) PROVE pc' = pc
      BY <3>1 DEF Others, OthersWrite, StartDrain, AbortDrain, DeleteDrained, RecreatePod,
                  PodReady, PodUnready, PodLost, ElectPrimary, FailOver, pass
    <3>2. ASSUME NEW t \in Tablets, Loops(t) PROVE pc' = pc \/ pc' = "idle"
      BY <3>2 DEF Loops, ClearDrain, ClearFails, MarkDrain, MarkFails, PlannedReparent, EndPass
    <3>3. CASE \/ Deliver \/ UpdateStatus \/ Reconcile \/ DecideReparent
               \/ DisableFastShutdownFails \/ PlannedReparentFails \/ Restart
               \/ UNCHANGED vars
      BY <3>3 DEF Deliver, UpdateStatus, Reconcile, DecideReparent, DisableFastShutdownFails,
                  PlannedReparentFails, Restart, EndPass, vars, pass, GrantInv
    <3> QED BY <2>2, <3>1, <3>2, <3>3 DEF Next, GrantInv
  <2> QED BY <2>1, <2>2
<1>3. CASE log' = log
  BY <1>1, <1>2, <1>3 DEF GrantInv
<1>4. CASE Deliver
  <2>1. /\ Len(log') = n - 1
        /\ \A i \in 1..(n-1) : log'[i] = log[i+1] /\ i + 1 \in 1..n
    BY <1>0, <1>4, DeliverEffect
  <2>2. ASSUME NEW i \in 1..(n-1), NEW j \in 1..(n-1), NEW t \in Tablets, i <= j,
               log'[i].pods[t].finished, \A k \in i..j : Exists(log'[k].pods[t])
        PROVE  log'[j].pods[t].finished
    <3>1. ASSUME NEW k \in (i+1)..(j+1) PROVE Exists(log[k].pods[t])
      <4>1. k - 1 \in i..j /\ k - 1 \in 1..(n-1) /\ (k - 1) + 1 = k
        BY <1>0
      <4>2. log'[k-1] = log[(k-1) + 1]
        BY <2>1, <4>1
      <4> QED BY <2>2, <4>1, <4>2
    <3>2. log[i+1].pods[t].finished /\ i + 1 <= j + 1
      BY <2>1, <2>2
    <3>3. log[j+1].pods[t].finished
      BY <2>1, <3>1, <3>2 DEF GrantInv
    <3> QED BY <2>1, <3>3
  <2>3. \A i \in 1..(n-1) : \A t \in Tablets : log'[i].pods[t].acked => log'[i].pods[t].started
    BY <2>1 DEF GrantInv
  <2> QED BY <1>1, <1>2, <2>1, <2>2, <2>3 DEF GrantInv
<1>5. CASE \E t \in Tablets, pod \in Pods : Moves(t, pod)
  <2>1. PICK t \in Tablets, pod \in Pods : Moves(t, pod)
    BY <1>5
  <2>2. /\ Len(log') = n + 1
        /\ \A i \in 1..n : log'[i] = log[i]
        /\ \A i \in 1..(n+1) : i \in 1..n \/ i = n + 1
        /\ Server' = log'[n+1].pods
        /\ \A u \in Tablets : /\ u # t => Server'[u] = Server[u]
                              /\ u = t => Server'[u] = pod
    BY <1>0, <2>1, WriteEffect DEF Moves
  <2>3. \A u \in Tablets : /\ (Server'[u]).acked => (Server'[u]).started
                           /\ Server[u].finished /\ Exists(Server'[u]) => (Server'[u]).finished
    BY <1>0, <2>1, <2>2 DEF Moves, GrantInv
  <2>4. ASSUME NEW i \in 1..(n+1), NEW j \in 1..(n+1), NEW u \in Tablets, i <= j,
               log'[i].pods[u].finished, \A k \in i..j : Exists(log'[k].pods[u])
        PROVE  log'[j].pods[u].finished
    <3>1. CASE j \in 1..n
      <4>1. i \in 1..n /\ \A k \in i..j : k \in 1..n
        BY <1>0, <2>4, <3>1
      <4>2. log[i].pods[u].finished /\ \A k \in i..j : Exists(log[k].pods[u])
        BY <2>2, <2>4, <4>1
      <4>3. log[j].pods[u].finished
        BY <2>4, <3>1, <4>1, <4>2 DEF GrantInv
      <4> QED BY <2>2, <3>1, <4>3
    <3>2. CASE i = n + 1
      <4>1. i = j
        BY <1>0, <2>4, <3>2
      <4> QED BY <2>4, <4>1
    <3>3. CASE i \in 1..n /\ j = n + 1
      <4>1. i <= n /\ \A k \in i..n : k \in i..j /\ k \in 1..n
        BY <1>0, <3>3
      <4>2. log[i].pods[u].finished /\ \A k \in i..n : Exists(log[k].pods[u])
        BY <2>2, <2>4, <3>3, <4>1
      <4>3. Server[u].finished
        BY <1>0, <3>3, <4>1, <4>2 DEF GrantInv
      <4>4. Exists(Server'[u])
        <5>1. n + 1 \in i..j
          BY <1>0, <3>3
        <5> QED BY <2>2, <2>4, <5>1
      <4> QED BY <2>2, <2>3, <3>3, <4>3, <4>4
    <3> QED BY <2>2, <3>1, <3>2, <3>3
  <2>5. \A i \in 1..(n+1) : \A u \in Tablets : log'[i].pods[u].acked => log'[i].pods[u].started
    BY <2>2, <2>3 DEF GrantInv
  <2> QED BY <1>1, <1>2, <2>2, <2>4, <2>5 DEF GrantInv
<1> QED BY <1>3, <1>4, <1>5, CalmMoves

\* Every step of the controller and its surroundings is a step of the contract.
LEMMA ContractStep ==
  ASSUME Calm, Inv, Inv', GrantInv, [Next]_vars
  PROVE  [Contract!Next]_([t \in Tablets |-> SlotOf(Server[t])])
<1>0. TypeOK /\ Server \in [Tablets -> Pods]
  BY ServerType DEF Inv
<1>1. CASE log' = log
  BY <1>1 DEF Server
<1>2. CASE Deliver
  BY <1>0, <1>2, DeliverEffect
<1>3. ASSUME NEW t \in Tablets, NEW pod \in Pods, Moves(t, pod)
      PROVE  [Contract!Next]_([u \in Tablets |-> SlotOf(Server[u])])
  <2> DEFINE slot == [u \in Tablets |-> SlotOf(Server[u])]
  <2>1. \A u \in Tablets : /\ u # t => Server'[u] = Server[u]
                           /\ u = t => Server'[u] = pod
    BY <1>0, <1>3, WriteEffect DEF Moves
  <2>2. slot' = [slot EXCEPT ![t] = SlotOf(pod)]
    BY <2>1
  <2>3. slot[t] = SlotOf(Server[t])
    OBVIOUS
  <2>4. ASSUME \A u \in Tablets : ~Server[u].finished
        PROVE  \A u \in Tablets : slot[u] # "granted"
    BY <1>0, <2>4, SlotMeans
  <2>5. \/ slot' = slot
        \/ Contract!Request(t) \/ Contract!Grant(t) \/ Contract!Remove(t) \/ Contract!Restore(t)
    <3> DEFINE from == SlotOf(Server[t])
               to == SlotOf(pod)
    <3>1. CASE to = from
      BY <2>2, <2>3, <3>1
    <3>2. CASE from = "serving" /\ to = "requested"
      BY <2>2, <2>3, <3>2 DEF Contract!Request, Contract!Move
    <3>3. CASE from = "requested" /\ to = "granted" /\ \A u \in Tablets : ~Server[u].finished
      BY <2>2, <2>3, <2>4, <3>3 DEF Contract!Grant, Contract!Move
    <3>4. CASE from = "granted" /\ to = "removed"
      BY <2>2, <2>3, <3>4 DEF Contract!Remove, Contract!Move
    <3>5. CASE from = "removed" /\ to = "serving"
      BY <2>2, <2>3, <3>5 DEF Contract!Restore, Contract!Move
    <3> QED BY <1>3, <3>1, <3>2, <3>3, <3>4, <3>5 DEF Moves
  <2> QED BY <2>5 DEF Contract!Next
<1> QED BY <1>1, <1>2, <1>3, CalmMoves

(***************************************************************************)
(* The controller keeps the contract it offers to drainers, however its    *)
(* passes, the cache and the drainers interleave: as long as no request is *)
(* withdrawn and no Pod is lost, each tablet is asked for, granted the one *)
(* slot, removed while it holds it, and restored without it.               *)
(***************************************************************************)
THEOREM KeepsContract ==
  ASSUME AllowAbort = FALSE, MaxUnplanned = 0
  PROVE  Spec => ImplementsContract
<1>0. Calm
  BY DEF Calm
<1>1. Init => Contract!Init
  <2> SUFFICES ASSUME Init PROVE \A t \in Tablets : SlotOf(Server[t]) = "serving"
    BY DEF Contract!Init
  <2>1. Server = [t \in Tablets |-> NewPod("ready")]
    BY DEF Init, Server
  <2> QED BY <2>1 DEF NewPod, SlotOf, Exists, Finished, Started
<1>2. Init => GrantInv
  <2> SUFFICES ASSUME Init PROVE GrantInv
    OBVIOUS
  <2>1. /\ Len(log) = 1 /\ pc = "idle" /\ troubleLeft = 0
        /\ log[1].pods = [t \in Tablets |-> NewPod("ready")]
    BY <1>0 DEF Init, Calm
  <2>2. \A t \in Tablets : ~log[1].pods[t].acked /\ ~log[1].pods[t].finished
    BY <2>1 DEF NewPod
  <2> QED BY <2>1, <2>2 DEF GrantInv
<1>3. Inv /\ Inv' /\ GrantInv /\ [Next]_vars => GrantInv'
  BY <1>0, GrantStep
<1>4. Inv /\ Inv' /\ GrantInv /\ [Next]_vars
        => [Contract!Next]_([t \in Tablets |-> SlotOf(Server[t])])
  BY <1>0, ContractStep
<1> QED BY <1>1, <1>2, <1>3, <1>4, InductiveInvariant, PTL
        DEF Spec, ImplementsContract, Contract!Spec
=============================================================================
