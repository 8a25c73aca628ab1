------------------------------ MODULE ShardDrain ------------------------------
(***************************************************************************)
(* The drain controller of one shard                                       *)
(* (pkg/controller/vitessshardreplication/reconcile_drain.go) running      *)
(* against the Kubernetes API server through an informer cache that lags.  *)
(*                                                                         *)
(* The API server's writes to the shard's tablet Pods are totally ordered. *)
(* log is the stretch of that history the controller has not caught up     *)
(* with: log[1] is what its cache shows, log[Len(log)] is what the server  *)
(* holds.  A pass lists the Pods once (view), and its later Updates carry  *)
(* the resourceVersion of that listing, so the server refuses an Update    *)
(* of a Pod written since: stale is the set of those Pods.                 *)
(***************************************************************************)
EXTENDS Drain, Sequences

CONSTANTS
  Tablets,     \* tablet aliases of the shard, as numbers in sort order
  Eligible,    \* the tablets of type REPLICA, which may become primary
  Drainable,   \* the tablets somebody may ask to drain
  NoPrimary,   \* the shard record names no primary
  MaxLag,      \* bound: snapshots the cache may be behind, plus one
  MaxDrains,   \* bound: drain requests made in a behaviour
  AllowAbort,  \* may a drain request be withdrawn?
  MaxUnplanned \* bound: Pods that fail or are lost, and unplanned failovers

ASSUME ShardDrainAssumption ==
  /\ Tablets \subseteq Int
  /\ Eligible \subseteq Tablets /\ Drainable \subseteq Tablets
  /\ NoPrimary \notin Tablets
  /\ MaxLag \in Nat /\ MaxDrains \in Nat
  /\ AllowAbort \in BOOLEAN /\ MaxUnplanned \in Nat

VARIABLES
  log,         \* snapshots from the informer cache up to the API server
  available,   \* tablets Available in the VitessShard status, as cached
  primary,     \* PrimaryAlias of the shard record in the topology
  drainsLeft,  \* drain requests that may still be made
  troubleLeft, \* unplanned events that may still happen
  pc,          \* where the controller's reconcile pass is
  healthy,     \* what isShardHealthy will say of the VitessShard read
  view,        \* the Pods as listed by the pass
  primarySeen, \* the primary as read by the pass
  todo,        \* Pods the current loop of the pass has still to update
  stale        \* Pods the server has written since the pass's listing

pass == <<pc, healthy, view, primarySeen, todo, stale>>
vars == <<log, available, primary, drainsLeft, troubleLeft, pass>>

-----------------------------------------------------------------------------
(* Pods and snapshots *)

Pods == [phase : {"gone", "starting", "ready"},
         started : BOOLEAN, acked : BOOLEAN, finished : BOOLEAN]

\* A Pod without drain annotations, as the reconciler creates it.
NewPod(phase) == [phase |-> phase, started |-> FALSE,
                  acked |-> FALSE, finished |-> FALSE]
Gone == NewPod("gone")

Exists(pod) == pod.phase # "gone"

\* wrote names the Pod whose write produced the snapshot from the one before.
Snapshots == [pods : [Tablets -> Pods], wrote : Tablets \cup {NoPrimary}]

Cache  == log[1].pods
Server == log[Len(log)].pods

\* The server accepts a write of Pod t; an open pass's copy of t is now old.
WritePod(t, pod) ==
  /\ Len(log) < MaxLag
  /\ log' = Append(log, [pods |-> [Server EXCEPT ![t] = pod], wrote |-> t])

Outdate(t) == stale' = IF pc \in {"clear", "mark", "reparent"}
                       THEN stale \cup {t} ELSE {}

NoView == [t \in Tablets |-> Gone]

Init ==
  /\ log = <<[pods |-> [t \in Tablets |-> NewPod("ready")],
              wrote |-> NoPrimary]>>
  /\ available = Tablets
  /\ primary = NoPrimary
  /\ drainsLeft = MaxDrains /\ troubleLeft = MaxUnplanned
  /\ pc = "idle" /\ healthy = FALSE /\ view = NoView
  /\ primarySeen = NoPrimary /\ todo = {} /\ stale = {}

-----------------------------------------------------------------------------
(* The drainer, the VitessShard controller, the kubelet and the topology *)

\* Somebody else writes Pod t while a pass may be open.
OthersWrite(t, pod) ==
  /\ WritePod(t, pod)
  /\ Outdate(t)
  /\ UNCHANGED <<available, primary, pc, healthy, view, primarySeen, todo>>

\* The drainer (an administrator, a rolling update, a turn-down) asks.
StartDrain(t) ==
  /\ t \in Drainable
  /\ Exists(Server[t]) /\ ~Started(Server[t])
  /\ drainsLeft > 0
  /\ drainsLeft' = drainsLeft - 1
  /\ UNCHANGED troubleLeft
  /\ OthersWrite(t, Start(Server[t]))

\* The drainer removes its request, whatever the controller answered so far.
AbortDrain(t) ==
  /\ AllowAbort
  /\ Exists(Server[t]) /\ Started(Server[t])
  /\ OthersWrite(t, [Server[t] EXCEPT !.started = FALSE])
  /\ UNCHANGED <<drainsLeft, troubleLeft>>

\* Mutation: deletes what is acknowledged.
DeleteAcknowledged(t) ==
  /\ Exists(Cache[t]) /\ Acknowledged(Cache[t])
  /\ \A i \in 1..Len(log) : Exists(log[i].pods[t])
  /\ OthersWrite(t, Gone)
  /\ UNCHANGED <<drainsLeft, troubleLeft>>

(***************************************************************************)
(* The drainer deletes a Pod that its cache shows finished.  The delete    *)
(* carries the Pod's UID and not its resourceVersion: it only fails if     *)
(* that very Pod is gone.                                                  *)
(***************************************************************************)
DeleteDrained(t) ==
  /\ Exists(Cache[t]) /\ Finished(Cache[t])
  /\ \A i \in 1..Len(log) : Exists(log[i].pods[t])
  /\ OthersWrite(t, Gone)
  /\ UNCHANGED <<drainsLeft, troubleLeft>>

\* The reconciler of the VitessShard sees no Pod for t and creates one.
RecreatePod(t) ==
  /\ ~Exists(Cache[t]) /\ ~Exists(Server[t])
  /\ OthersWrite(t, NewPod("starting"))
  /\ UNCHANGED <<drainsLeft, troubleLeft>>

\* The kubelet reports the Pod Ready: a write of the Pod's status.
PodReady(t) ==
  /\ Server[t].phase = "starting"
  /\ OthersWrite(t, [Server[t] EXCEPT !.phase = "ready"])
  /\ UNCHANGED <<drainsLeft, troubleLeft>>

Trouble == troubleLeft > 0 /\ troubleLeft' = troubleLeft - 1

\* Unplanned: a container of the Pod fails, or the Pod's node goes away.
PodUnready(t) ==
  /\ Trouble
  /\ Server[t].phase = "ready"
  /\ OthersWrite(t, [Server[t] EXCEPT !.phase = "starting"])
  /\ UNCHANGED drainsLeft

PodLost(t) ==
  /\ Trouble
  /\ Exists(Server[t])
  /\ OthersWrite(t, Gone)
  /\ UNCHANGED drainsLeft

\* The first primary is elected.
ElectPrimary(t) ==
  /\ primary = NoPrimary
  /\ t \in Eligible /\ Server[t].phase = "ready"
  /\ primary' = t
  /\ UNCHANGED <<log, available, drainsLeft, troubleLeft, pass>>

\* Unplanned: the shard fails over, to a tablet that may be draining.
FailOver(t) ==
  /\ Trouble
  /\ primary \notin {NoPrimary, t}
  /\ t \in Eligible /\ Server[t].phase = "ready"
  /\ primary' = t
  /\ UNCHANGED <<log, available, drainsLeft, pass>>

\* A watch event reaches the informer cache.
Deliver ==
  /\ Len(log) > 1
  /\ log' = Tail(log)
  /\ UNCHANGED <<available, primary, drainsLeft, troubleLeft, pass>>

\* The VitessShard controller rewrites the status from the Pods it sees.
UpdateStatus ==
  /\ available' = {t \in Tablets : Cache[t].phase = "ready"}
  /\ UNCHANGED <<log, primary, drainsLeft, troubleLeft, pass>>

-----------------------------------------------------------------------------
(* The reconcile pass *)

EndPass ==
  /\ pc' = "idle" /\ healthy' = FALSE /\ view' = NoView
  /\ primarySeen' = NoPrimary /\ todo' = {} /\ stale' = {}

\* Reconcile: the VitessShard, with its status, is read first.
Reconcile ==
  /\ pc = "idle"
  /\ pc' = "got"
  /\ healthy' = (available = Tablets)
  /\ UNCHANGED <<log, available, primary, drainsLeft, troubleLeft,
                 view, primarySeen, todo, stale>>

\* Drain state by tablet, of the listed Pods that have a drain request.
DrainsOf(pods) ==
  [t \in {u \in Tablets : Started(pods[u])} |-> GetState(pods[t])]

\* Listed Pods whose drain was acknowledged or finished and then withdrawn.
Aborted(pods) ==
  {t \in Tablets : /\ ~Started(pods[t])
                   /\ Acknowledged(pods[t]) \/ Finished(pods[t])}

\* Mutation: the primary is not left out.
ToMarkAny(pods, prim) == DOMAIN StateTransitions(DrainsOf(pods))

\* Mutation: loops over the drains instead of the transitions.
ToMarkEveryDrain(pods, prim) == DOMAIN DrainsOf(pods)

\* The tablets whose annotations the pass changes: never the primary to Finished.
ToMark(pods, prim) ==
  LET transitions == StateTransitions(DrainsOf(pods))
  IN  {t \in DOMAIN transitions : ~(transitions[t] = "Finished" /\ t = prim)}

\* The Pods with a newer resourceVersion on the server than in the cache.
WrittenSince == {log[i].wrote : i \in 2..Len(log)}

(***************************************************************************)
(* reconcileDrain up to the end of its phase 2: list the Pods, read the    *)
(* shard record, then bail out if the shard is unhealthy or has no primary *)
(* or there is nothing to do; an aborted drain allows nothing but clearing *)
(* the annotations of the aborted ones.                                    *)
(***************************************************************************)
ListPods ==
  /\ pc = "got"
  /\ UNCHANGED <<log, available, primary, drainsLeft, troubleLeft>>
  /\ LET aborted == Aborted(Cache)
         drains  == DrainsOf(Cache)
     IN  IF ~healthy \/ primary = NoPrimary
            \/ (aborted = {} /\ DOMAIN drains = {})
         THEN EndPass
         ELSE /\ view' = Cache
              /\ primarySeen' = primary
              /\ stale' = WrittenSince
              /\ pc' = IF aborted # {} THEN "clear" ELSE "mark"
              /\ todo' = IF aborted # {} THEN aborted
                                         ELSE ToMark(Cache, primary)
              /\ UNCHANGED healthy

\* Mutation: an aborted drain keeps its finished annotation.
UpdatedPodNoUnfinish(pod, state) ==
  CASE state = "Finished"     -> Finish(pod)
    [] state = "Acknowledged" -> Acknowledge(pod)
    [] state = "NotDraining"  -> Unacknowledge(pod)

\* The annotated copy that updateDrainStatus sends to the server.
UpdatedPod(pod, state) ==
  CASE state = "Finished"     -> Finish(pod)
    [] state = "Acknowledged" -> Acknowledge(pod)
    [] state = "NotDraining"  -> Unacknowledge(Unfinish(pod))

\* Mutation: the write carries no resourceVersion.
UpdateUnconditionally(t, state) == WritePod(t, UpdatedPod(view[t], state))

\* client.Update of the listed Pod: refused if the Pod was written since.
UpdateDrainStatus(t, state) ==
  /\ t \notin stale
  /\ WritePod(t, UpdatedPod(view[t], state))

\* One iteration of the loop over aborted drains; after the last, return.
ClearDrain(t) ==
  /\ pc = "clear" /\ t \in todo
  /\ UpdateDrainStatus(t, "NotDraining")
  /\ IF todo = {t} THEN EndPass
     ELSE /\ todo' = todo \ {t} /\ stale' = stale \cup {t}
          /\ UNCHANGED <<pc, healthy, view, primarySeen>>
  /\ UNCHANGED <<available, primary, drainsLeft, troubleLeft>>

ClearFails(t) ==
  /\ pc = "clear" /\ t \in todo
  /\ IF todo = {t} THEN EndPass
     ELSE /\ todo' = todo \ {t}
          /\ UNCHANGED <<pc, healthy, view, primarySeen, stale>>
  /\ UNCHANGED <<log, available, primary, drainsLeft, troubleLeft>>

\* One iteration of the loop over the transitions.
MarkDrain(t) ==
  /\ pc = "mark" /\ t \in todo
  /\ UpdateDrainStatus(t, StateTransitions(DrainsOf(view))[t])
  /\ todo' = todo \ {t} /\ stale' = stale \cup {t}
  /\ UNCHANGED <<available, primary, drainsLeft, troubleLeft, pc, healthy, view, primarySeen>>

\* The Update fails (conflict, timeout, API error): recorded, loop goes on.
MarkFails(t) ==
  /\ pc = "mark" /\ t \in todo
  /\ todo' = todo \ {t}
  /\ UNCHANGED <<log, available, primary, drainsLeft, troubleLeft,
                 pc, healthy, view, primarySeen, stale>>

\* Mutation: only a primary that is already Finished is reparented away.
WantsReparentLate ==
  primarySeen \in DOMAIN DrainsOf(view) /\ DrainsOf(view)[primarySeen] = "Finished"

(***************************************************************************)
(* Reparent only if the primary is Finished already or would be in this    *)
(* pass, and not in a pass that acknowledged a drain unless the primary is *)
(* Finished already.                                                       *)
(***************************************************************************)
WantsReparent ==
  LET drains      == DrainsOf(view)
      transitions == StateTransitions(drains)
      primaryFinished == /\ primarySeen \in DOMAIN drains
                         /\ drains[primarySeen] = "Finished"
      acknowledgedDrain == InState(transitions, "Acknowledged") # {}
      finishingPrimary  == /\ primarySeen \in DOMAIN transitions
                           /\ transitions[primarySeen] = "Finished"
  IN  \/ primaryFinished
      \/ ~acknowledgedDrain /\ finishingPrimary

\* Who may be the new primary, judged by the listing.
CandidatePrimary ==
  {t \in Eligible \ {primarySeen} :
     /\ view[t].phase = "ready"
     /\ ~Started(view[t]) /\ ~Acknowledged(view[t]) /\ ~Finished(view[t])}

\* After the loop; disableFastShutdown succeeded.
DecideReparent ==
  /\ pc = "mark" /\ todo = {}
  /\ IF WantsReparent /\ CandidatePrimary # {}
     THEN /\ pc' = "reparent"
          /\ UNCHANGED <<healthy, view, primarySeen, todo, stale>>
     ELSE EndPass
  /\ UNCHANGED <<log, available, primary, drainsLeft, troubleLeft>>

\* disableFastShutdown failed: the pass returns its error.
DisableFastShutdownFails ==
  /\ pc = "mark" /\ todo = {}
  /\ EndPass
  /\ UNCHANGED <<log, available, primary, drainsLeft, troubleLeft>>

\* PlannedReparentShard promotes the candidate, which must be running.
PlannedReparent(t) ==
  /\ pc = "reparent" /\ t \in CandidatePrimary
  /\ Server[t].phase = "ready"
  /\ primary' = t
  /\ EndPass
  /\ UNCHANGED <<log, available, drainsLeft, troubleLeft>>

PlannedReparentFails ==
  /\ pc = "reparent"
  /\ EndPass
  /\ UNCHANGED <<log, available, primary, drainsLeft, troubleLeft>>

\* The operator restarts, or a read of the pass fails: the pass is lost, its
\* writes are not.
Restart ==
  /\ pc # "idle"
  /\ EndPass
  /\ UNCHANGED <<log, available, primary, drainsLeft, troubleLeft>>

Others(t) ==
  \/ StartDrain(t) \/ AbortDrain(t) \/ DeleteDrained(t) \/ RecreatePod(t)
  \/ PodReady(t) \/ PodUnready(t) \/ PodLost(t)
  \/ ElectPrimary(t) \/ FailOver(t)

Loops(t) ==
  \/ ClearDrain(t) \/ ClearFails(t) \/ MarkDrain(t) \/ MarkFails(t)
  \/ PlannedReparent(t)

Next ==
  \/ \E t \in Tablets : Others(t) \/ Loops(t)
  \/ Deliver \/ UpdateStatus \/ Reconcile \/ ListPods \/ DecideReparent
  \/ DisableFastShutdownFails \/ PlannedReparentFails \/ Restart

Spec == Init /\ [][Next]_vars

(***************************************************************************)
(* Fairness.  The work queue re-runs the pass (watch events, periodic      *)
(* resync), the watch delivers, kubelet and VitessShard controller do      *)
(* their work, and the drainer deletes what it asked for.  A call that is  *)
(* tried again and again does not fail every time (SF).                    *)
(***************************************************************************)
Fairness ==
  /\ WF_vars(Deliver) /\ WF_vars(UpdateStatus)
  /\ WF_vars(Reconcile) /\ SF_vars(ListPods) /\ SF_vars(DecideReparent)
  /\ WF_vars(\E t \in Tablets : DeleteDrained(t) \/ RecreatePod(t) \/ PodReady(t))
  /\ WF_vars(\E t \in Tablets : ElectPrimary(t))
  /\ WF_vars(\E t \in Tablets : ClearFails(t) \/ MarkFails(t))
  /\ SF_vars(\E t \in Tablets : PlannedReparent(t))
  /\ \A t \in Drainable : SF_vars(ClearDrain(t)) /\ SF_vars(MarkDrain(t))

FairSpec == Spec /\ Fairness

-----------------------------------------------------------------------------
(* Properties *)

(***************************************************************************)
(* Type correctness of the server history and of the pass's local state;   *)
(* the marking loop only has tablets the state machine returned.           *)
(***************************************************************************)
TypeOK ==
  /\ log \in Seq(Snapshots) /\ Len(log) > 0
  /\ available \subseteq Tablets
  /\ primary \in Tablets \cup {NoPrimary}
  /\ drainsLeft \in Nat /\ troubleLeft \in Nat
  /\ pc \in {"idle", "got", "clear", "mark", "reparent"}
  /\ healthy \in BOOLEAN
  /\ view \in [Tablets -> Pods]
  /\ primarySeen \in Tablets \cup {NoPrimary}
  /\ todo \subseteq Tablets
  /\ pc = "mark" => todo \subseteq DOMAIN StateTransitions(DrainsOf(view))
  /\ stale \subseteq Tablets \cup {NoPrimary}

(***************************************************************************)
(* "Only one tablet is marked as finished" (reconcile_drain.go): on the    *)
(* API server no two Pods of the shard ever carry the finished annotation, *)
(* however far behind the controller's cache is, whatever fails between    *)
(* two writes, and even when drains are aborted.                           *)
(***************************************************************************)
AtMostOneFinished ==
  \A t, u \in Tablets : Finished(Server[t]) /\ Finished(Server[u]) => t = u

(***************************************************************************)
(* GetState's "this should never happen": no Pod is finished without       *)
(* having been acknowledged, on the server or in any cache.                *)
(***************************************************************************)
ValidAnnotations ==
  \A i \in 1..Len(log) : \A t \in Tablets :
    Finished(log[i].pods[t]) => Acknowledged(log[i].pods[t])

(***************************************************************************)
(* "Do not mark current primary as finished": unless a failover the        *)
(* controller did not plan makes a finished tablet primary, the primary in *)
(* the topology is never finished, although the pass decides on a primary  *)
(* read earlier and reparents on a listing taken earlier.                  *)
(***************************************************************************)
NoFinishedPrimary ==
  troubleLeft = MaxUnplanned /\ primary # NoPrimary => ~Finished(Server[primary])

(***************************************************************************)
(* "anything marked as finished will stay finished": a step takes the      *)
(* annotation away only with the Pod itself, or after the request was      *)
(* withdrawn; never because a pass acts on an old listing.                 *)
(***************************************************************************)
FinishedSticks ==
  [][\A t \in Tablets :
       Finished(Server[t]) /\ ~Finished(Server'[t])
         => ~Exists(Server'[t]) \/ ~Started(Server[t])]_vars

(***************************************************************************)
(* Every requested drain is finished, unless the request is withdrawn or   *)
(* the Pod goes away, as long as some tablet that is not draining can take *)
(* over as primary.                                                        *)
(***************************************************************************)
DrainCompletes ==
  \A t \in Tablets :
    Exists(Server[t]) /\ Started(Server[t])
      ~> ~Exists(Server[t]) \/ ~Started(Server[t]) \/ Finished(Server[t])

(***************************************************************************)
(* "by deleting only one tablet at a time we still ensure that for shards  *)
(* with three or more tablets we still have redundancy" (reconcile_drain): *)
(* without unplanned trouble, at most one Pod of the shard is missing.     *)
(***************************************************************************)
OneTabletDownAtATime ==
  \A t, u \in Tablets : ~Exists(Server[t]) /\ ~Exists(Server[u]) => t = u

(***************************************************************************)
(* The controller implements the contract it offers to drainers: what the  *)
(* server's annotations say of each tablet moves only as DrainContract     *)
(* allows (no aborts, nothing unplanned).                                  *)
(***************************************************************************)
SlotOf(pod) ==
  CASE ~Exists(pod)                      -> "removed"
    [] Exists(pod) /\ Finished(pod)      -> "granted"
    [] /\ Exists(pod) /\ ~Finished(pod)
       /\ Started(pod)                   -> "requested"
    [] OTHER                             -> "serving"

Contract == INSTANCE DrainContract WITH slot <- [t \in Tablets |-> SlotOf(Server[t])]

ImplementsContract == Contract!Spec
=============================================================================
