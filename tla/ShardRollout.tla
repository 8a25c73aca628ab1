----------------------------- MODULE ShardRollout -----------------------------
(***************************************************************************)
(* A rolling update of one shard, passed on by annotations: the            *)
(* VitessKeyspace controller writes the new template into the VitessShard  *)
(* and lets it cascade (vitesskeyspace/reconcile_shards.go); the           *)
(* VitessShard controller schedules its tablet Pods and releases one after *)
(* the other (vitessshard/reconcile_tablets.go, reconcile_rollout.go); the *)
(* reconciler drains and deletes what is released                          *)
(* (operator/reconciler/object.go, operator/rollout/rollout.go).           *)
(*                                                                         *)
(* Both controllers read from informer caches, which show an earlier state *)
(* of the server.  An Update is refused if the object is not any more what *)
(* the cache shows; a Delete is not.  The drain controller is taken to     *)
(* keep DrainContract.                                                     *)
(*                                                                         *)
(* A claim that waits for its file system to be resized makes the Pod need *)
(* a restart too, without a change of the template.  "External" stands for *)
(* that strategy with no resource change allowed at once.                  *)
(***************************************************************************)
EXTENDS Integers, FiniteSets

CONSTANTS
  Tablets,         \* tablets of the shard, numbered in the order of their aliases
  Claimants,       \* tablets that have a claim for their data
  EligibleChoices, \* the sets of REPLICA tablets to consider
  Strategies,      \* update strategies to consider: "Immediate", "External"
  Templates,       \* templates of the shard
  MaxEvents        \* bound: changes of the template, and claims that come to
                   \* wait for a resize

ASSUME ShardRolloutAssumption ==
  /\ Tablets \subseteq Nat /\ IsFiniteSet(Tablets) /\ Tablets # {}
  /\ Claimants \subseteq Tablets
  /\ EligibleChoices \subseteq (SUBSET Tablets) \ {{}}
  /\ Strategies \subseteq {"Immediate", "External"}
  /\ Templates # {} /\ MaxEvents \in Nat

VARIABLES
  eligible, strategy, \* how the shard is configured; never change
  template,    \* what the VitessKeyspace asks of the shard
  changes,     \* how often it was changed
  shard,       \* the VitessShard on the API server
  shardSeen,   \* the VitessShard in the cache
  pods,        \* the tablet Pods on the API server
  podsSeen,    \* the tablet Pods in the cache
  claims,      \* tablets whose claim, in the cache, has the wanted size and waits
               \* for its file system to be resized (FileSystemResizePending)
  resizes,     \* how often a claim has come to wait
  primary,     \* the shard's primary in the topology
  pc,          \* where the VitessShard controller's pass is
  vts,         \* the VitessShard it works on
  status,      \* the status it computes
  available,   \* the tablets it found Available
  todo,        \* tablets it has still to reconcile
  restarts     \* history: how often each Pod was deleted for a change of the template

config == <<eligible, strategy>>
disks  == <<claims, resizes>>
pass   == <<pc, vts, status, available, todo>>
vars   == <<config, disks, template, changes, shard, shardSeen, pods, podsSeen,
            primary, pass, restarts>>

-----------------------------------------------------------------------------
(* Objects *)

\* The part of the VitessShard status others act on.  lowest is the least
\* generation noted on a Pod (0: none), pending the scheduled tablets.
NewStatus == [lowest |-> 0, pending |-> {}]

\* A Pod is ready here when it has been so for long enough to be Available.
\* resize: the pending changes its annotation names are those of a resize only.
NewPod(tmpl) == [phase |-> "starting", template |-> tmpl, observed |-> 0,
                 scheduled |-> FALSE, resize |-> FALSE, released |-> FALSE,
                 drain |-> "none"]

Exists(pod) == pod.phase # "gone"
Gone(pod)   == [pod EXCEPT !.phase = "gone", !.observed = 0, !.scheduled = FALSE,
                           !.resize = FALSE, !.released = FALSE, !.drain = "none"]

NewShard(tmpl) ==
  [template |-> tmpl, generation |-> 1, scheduled |-> FALSE, released |-> FALSE,
   cascade |-> FALSE, status |-> [NewStatus EXCEPT !.lowest = 1]]

\* What vts is between two passes.
NoShard == NewShard(CHOOSE tmpl \in Templates : TRUE)

Init ==
  /\ eligible \in EligibleChoices /\ strategy \in Strategies
  /\ template = (CHOOSE tmpl \in Templates : TRUE) /\ changes = 0
  /\ shard = NewShard(template)
  /\ shardSeen = shard
  /\ pods = [t \in Tablets |-> [NewPod(template) EXCEPT !.phase = "ready", !.observed = 1]]
  /\ podsSeen = pods
  /\ claims = {} /\ resizes = 0
  /\ primary \in eligible
  /\ pc = "idle" /\ vts = NoShard /\ status = NewStatus
  /\ available = {} /\ todo = {}
  /\ restarts = [t \in Tablets |-> 0]

\* The annotations of operator/rollout, on a Pod or a VitessShard.
Schedule(obj)   == [obj EXCEPT !.scheduled = TRUE]
Unschedule(obj) == [obj EXCEPT !.scheduled = FALSE, !.released = FALSE]
Release(obj)    == [obj EXCEPT !.released = TRUE]

-----------------------------------------------------------------------------
(* The user, the caches, the kubelet and the drain controller *)

ChangeTemplate ==
  /\ changes + resizes < MaxEvents /\ changes' = changes + 1
  /\ template' \in Templates \ {template}
  /\ UNCHANGED <<config, disks, shard, shardSeen, pods, podsSeen, primary, pass, restarts>>

\* External strategy: the user releases the shard's change, then cascades it.
UserReleases ==
  /\ strategy = "External"
  /\ shard.scheduled /\ ~shard.released
  /\ shard' = Release(shard)
  /\ UNCHANGED <<config, disks, template, changes, shardSeen, pods, podsSeen, primary, pass, restarts>>

UserCascades ==
  /\ strategy = "External"
  /\ shard.status.pending # {} /\ ~shard.cascade
  /\ shard' = [shard EXCEPT !.cascade = TRUE]
  /\ UNCHANGED <<config, disks, template, changes, shardSeen, pods, podsSeen, primary, pass, restarts>>

DeliverShard ==
  /\ shardSeen # shard /\ shardSeen' = shard
  /\ UNCHANGED <<config, disks, template, changes, shard, pods, podsSeen, primary, pass, restarts>>

DeliverPods ==
  /\ podsSeen # pods /\ podsSeen' = pods
  /\ UNCHANGED <<config, disks, template, changes, shard, shardSeen, pods, primary, pass, restarts>>

\* The volume has grown and its file system has not.
ResizePending(t) ==
  /\ changes + resizes < MaxEvents /\ resizes' = resizes + 1
  /\ t \in Claimants \ claims /\ claims' = claims \cup {t}
  /\ UNCHANGED <<config, template, changes, shard, shardSeen, pods, podsSeen, primary,
                 pass, restarts>>

\* The file system was resized, while in use or when it was mounted for a new
\* Pod, and the cache shows it: at any time, or never.
ResizeDone(t) ==
  /\ t \in claims /\ claims' = claims \ {t}
  /\ UNCHANGED <<config, resizes, template, changes, shard, shardSeen, pods,
                 podsSeen, primary, pass, restarts>>

OthersWrite(t, pod) ==
  /\ pods' = [pods EXCEPT ![t] = pod]
  /\ UNCHANGED <<config, disks, template, changes, shard, shardSeen, podsSeen, primary, pass, restarts>>

PodReady(t) ==
  /\ pods[t].phase = "starting"
  /\ OthersWrite(t, [pods[t] EXCEPT !.phase = "ready"])

PodGone(t) ==
  /\ pods[t].phase = "deleting"
  /\ OthersWrite(t, Gone(pods[t]))

\* DrainContract!Grant, never to the primary (ShardDrain).
FinishDrain(t) ==
  /\ pods[t].drain = "started" /\ t # primary
  /\ \A u \in Tablets : pods[u].drain # "finished"
  /\ OthersWrite(t, [pods[t] EXCEPT !.drain = "finished"])

\* The drain controller makes another tablet primary when the primary drains.
PlannedReparent(t) ==
  /\ pods[primary].drain = "started"
  /\ t \in eligible /\ pods[t].phase = "ready" /\ pods[t].drain = "none"
  /\ primary' = t
  /\ UNCHANGED <<config, disks, template, changes, shard, shardSeen, pods, podsSeen, pass, restarts>>

-----------------------------------------------------------------------------
(* The VitessKeyspace controller *)

\* updateVitessShard: everything in the spec follows the template.
UpdateVitessShard(obj) ==
  [obj EXCEPT !.template = template,
              !.generation = IF obj.template = template THEN @ ELSE @ + 1]

\* "lowest shard generation observed by pods matches our current shard generation"
PendingEverywhere(obj) ==
  obj.status.lowest = obj.generation /\ obj.status.pending # {}

\* ReconcileObject with the two strategies of reconcileShards.
ReconciledShard(obj) ==
  IF strategy = "Immediate"
  THEN [Unschedule(UpdateVitessShard(obj))
          EXCEPT !.cascade = obj.cascade \/ PendingEverywhere(obj)]
  ELSE CASE obj.released -> Unschedule(UpdateVitessShard(obj))
         [] ~obj.released /\ obj.template # template -> Schedule(obj)
         [] OTHER -> Unschedule(obj)

\* The Update only succeeds if the cache shows the present VitessShard.
ReconcileShard ==
  /\ shardSeen = shard
  /\ shard' = ReconciledShard(shardSeen)
  /\ UNCHANGED <<config, disks, template, changes, shardSeen, pods, podsSeen, primary, pass, restarts>>

-----------------------------------------------------------------------------
(* The VitessShard controller: reconcileTablets *)

\* Mutation: the status is not reset.
StatusAsSeen == shardSeen.status

\* "Reset status, since that's all out of date info that we will recompute now."
StatusToFill == NewStatus

Reconcile ==
  /\ pc = "idle"
  /\ pc' = "tablets" /\ vts' = shardSeen /\ status' = StatusToFill
  /\ available' = {} /\ todo' = Tablets
  /\ UNCHANGED <<config, disks, template, changes, shard, shardSeen, pods, podsSeen, primary, restarts>>

EndPass == /\ pc' = "idle" /\ vts' = NoShard /\ status' = NewStatus
           /\ available' = {} /\ todo' = {}

\* The Status callback, on the Pod as listed.
ReportPod(t, pod) ==
  IF ~Exists(pod) THEN status
  ELSE [lowest  |-> IF pod.observed # 0 /\ (status.lowest = 0 \/ pod.observed < status.lowest)
                    THEN pod.observed ELSE status.lowest,
        pending |-> IF pod.scheduled THEN status.pending \cup {t} ELSE status.pending]

\* Mutation: the generation is only noted on Pods that are up to date.
UpdatePodInPlaceLate(pod) ==
  IF pod.template = vts.template THEN [pod EXCEPT !.observed = vts.generation] ELSE pod

\* UpdateInPlace notes the generation on the Pod.
UpdatePodInPlace(pod) == [pod EXCEPT !.observed = vts.generation]

\* updatePVCFilesystemResizeAnnotation, in the same callback, makes the Pod
\* wished for another one while the claim waits; New does not.
ResizeAnnotation(t) == t \in claims

\* Does UpdateRollingRecreate change anything?
NeedsRecreate(t, pod) == pod.template # vts.template \/ ResizeAnnotation(t)

StartDrain(pod) == [pod EXCEPT !.drain = IF @ = "none" THEN "started" ELSE @]

\* Mutation: a drain that was only requested is enough.
MayDeleteStarted(t, pod) == pod.released /\ NeedsRecreate(t, pod) /\ pod.drain # "none"

\* drainAndDelete: a released, outdated Pod is deleted once it is drained.
MayDelete(t, pod) == pod.released /\ NeedsRecreate(t, pod) /\ pod.drain = "finished"

\* ReconcileObject's in-place result for a Pod that stays.
UpdatedPod(t, pod) ==
  LET new == [UpdatePodInPlace(pod)
                EXCEPT !.resize = NeedsRecreate(t, pod) /\ pod.template = vts.template]
  IN  CASE NeedsRecreate(t, pod) /\ pod.released  -> Schedule(StartDrain(new))
        [] NeedsRecreate(t, pod) /\ ~pod.released -> Schedule(new)
        [] OTHER                                  -> Unschedule(new)

\* Deletes by name.  The UID precondition of object.go would add nothing: the
\* cache shows a Pod gone before another one of its name is created.
DeletePod(t, forChange) ==
  /\ Exists(pods[t])
  /\ pods' = [pods EXCEPT ![t].phase = "deleting"]
  /\ restarts' = IF forChange /\ pods[t].phase # "deleting"
                 THEN [restarts EXCEPT ![t] = @ + 1] ELSE restarts

Turn(t) == pc = "tablets" /\ t \in todo /\ \A u \in todo : t <= u

ReportsPod(t) ==
  /\ Turn(t)
  /\ todo' = todo \ {t}
  /\ status' = ReportPod(t, podsSeen[t])
  /\ available' = available \cup {u \in {t} : podsSeen[u].phase = "ready"}
  /\ UNCHANGED <<config, disks, template, changes, shard, shardSeen, podsSeen, primary, pc, vts>>

CreatePod(t) ==
  /\ ReportsPod(t)
  /\ ~Exists(podsSeen[t]) /\ ~Exists(pods[t])
  /\ pods' = [pods EXCEPT ![t] = NewPod(vts.template)]
  /\ UNCHANGED restarts

UpdatePod(t) ==
  /\ ReportsPod(t)
  /\ podsSeen[t].phase \in {"starting", "ready"} /\ ~MayDelete(t, podsSeen[t])
  /\ podsSeen[t] = pods[t]
  /\ pods' = [pods EXCEPT ![t] = UpdatedPod(t, podsSeen[t])]
  /\ UNCHANGED restarts

DeleteDrainedPod(t) ==
  /\ ReportsPod(t)
  /\ podsSeen[t].phase \in {"starting", "ready"} /\ MayDelete(t, podsSeen[t])
  /\ DeletePod(t, podsSeen[t].template # vts.template)

\* The Pod is already on its way down, or the write fails: a conflict, the
\* object exists or is gone, an API error.
NoPodWrite(t) ==
  /\ ReportsPod(t)
  /\ UNCHANGED <<pods, restarts>>

-----------------------------------------------------------------------------
(* The VitessShard controller: reconcileDisk, reconcileRollout and the status *)

AfterTablets == pc = "tablets" /\ todo = {}

\* All claims that wait for a resize are those of Pods that are scheduled.
DisksWait ==
  /\ AfterTablets
  /\ strategy = "Immediate" /\ ~vts.cascade
  /\ \E t \in claims : Exists(podsSeen[t])
  /\ \A t \in claims : Exists(podsSeen[t]) => podsSeen[t].scheduled
  /\ UNCHANGED <<config, disks, template, changes, shardSeen, pods, podsSeen, primary,
                 pc, todo, restarts>>

\* The answer of the Update brings back the status an earlier pass stored, in
\* which all tablets are Available or some are not.
CascadeForDisks ==
  /\ DisksWait
  /\ vts = shard
  /\ shard' = [shard EXCEPT !.cascade = TRUE]
  /\ vts' = shard' /\ status' = shard.status
  /\ available' \in {{}, Tablets}

\* A refused Update leaves the annotation on the copy the pass goes on with;
\* the status of such a pass is taken to be refused too.
CascadeRefused ==
  /\ DisksWait
  /\ vts' = [vts EXCEPT !.cascade = TRUE]
  /\ UNCHANGED <<shard, status, available>>

ScheduledTablets == {t \in Tablets : podsSeen[t].scheduled}

FinishedScheduled == {t \in ScheduledTablets : podsSeen[t].drain = "finished"}

\* Mutation: any tablet will do.
NextAnyTablet == Tablets

\* getNextScheduledTablet: the first drained one, else any but the primary,
\* else the primary.
NextScheduledTablet ==
  CASE FinishedScheduled # {} ->
         {t \in FinishedScheduled : \A u \in FinishedScheduled : t <= u}
    [] FinishedScheduled = {} /\ ScheduledTablets \ {primary} # {} ->
         ScheduledTablets \ {primary}
    [] OTHER -> ScheduledTablets

MayRelease ==
  \A t \in Tablets : /\ t \in available
                     /\ Exists(podsSeen[t]) /\ ~podsSeen[t].released

LoneMaster(t) == Cardinality(eligible) < 2 /\ t \in eligible

\* Not cascading, paused, or an error before anything was written.
RolloutPaused ==
  /\ AfterTablets
  /\ pc' = "status"
  /\ UNCHANGED <<config, disks, template, changes, shard, shardSeen, pods, podsSeen,
                 primary, vts, status, available, todo, restarts>>

\* The children are released one by one while the shard cascades.
RolloutStep(t) ==
  /\ AfterTablets
  /\ vts.cascade /\ MayRelease /\ t \in NextScheduledTablet
  /\ pc' = "status"
  /\ UNCHANGED <<config, disks, template, changes, shard, shardSeen, podsSeen,
                 primary, vts, status, available, todo>>

ReleasePod(t) ==
  /\ RolloutStep(t)
  /\ ~LoneMaster(t)
  /\ podsSeen[t] = pods[t]
  /\ pods' = [pods EXCEPT ![t] = Release(@)]
  /\ UNCHANGED restarts

\* "If we have a lone master, we must delete it since reparenting is impossible."
DeleteLoneMaster(t) ==
  /\ RolloutStep(t)
  /\ LoneMaster(t)
  /\ DeletePod(t, ~podsSeen[t].resize)

(***************************************************************************)
(* uncascadeShard: the Update's answer replaces the status computed so far *)
(* by the one on the server, so the pass ends without changing it.         *)
(***************************************************************************)
UncascadeShard ==
  /\ AfterTablets
  /\ vts.cascade /\ MayRelease /\ NextScheduledTablet = {}
  /\ vts = shard
  /\ shard' = [shard EXCEPT !.cascade = FALSE]
  /\ EndPass
  /\ UNCHANGED <<config, disks, template, changes, shardSeen, pods, podsSeen, primary, restarts>>

UpdateStatus ==
  /\ pc = "status"
  /\ vts = shard
  /\ shard' = [shard EXCEPT !.status = status]
  /\ EndPass
  /\ UNCHANGED <<config, disks, template, changes, shardSeen, pods, podsSeen, primary, restarts>>

\* The status is refused or the operator restarts; written is written.
PassFails ==
  /\ pc # "idle"
  /\ EndPass
  /\ UNCHANGED <<config, disks, template, changes, shard, shardSeen, pods, podsSeen,
                 primary, restarts>>

-----------------------------------------------------------------------------

\* The write reconcileTablets makes for one tablet.
WritePod(t) == CreatePod(t) \/ UpdatePod(t) \/ DeleteDrainedPod(t)

TabletStep(t) ==
  \/ PodReady(t) \/ PodGone(t) \/ FinishDrain(t) \/ PlannedReparent(t)
  \/ ResizePending(t) \/ ResizeDone(t)
  \/ WritePod(t) \/ NoPodWrite(t) \/ ReleasePod(t) \/ DeleteLoneMaster(t)

Next ==
  \/ \E t \in Tablets : TabletStep(t)
  \/ ChangeTemplate \/ UserReleases \/ UserCascades \/ DeliverShard \/ DeliverPods
  \/ ReconcileShard \/ Reconcile \/ CascadeForDisks \/ CascadeRefused
  \/ RolloutPaused \/ UncascadeShard
  \/ UpdateStatus \/ PassFails

Spec == Init /\ [][Next]_vars

(***************************************************************************)
(* Fairness.  Watches deliver, passes are started, Pods start, the drain   *)
(* controller does its work and an external rollout tool goes on.  A pass  *)
(* is not broken off at the same point every time, and a write that is     *)
(* tried again and again is not refused every time (SF).                   *)
(***************************************************************************)
Fairness ==
  /\ WF_vars(DeliverShard) /\ WF_vars(DeliverPods)
  /\ WF_vars(UserReleases \/ UserCascades)
  /\ WF_vars(\E t \in Tablets : PodReady(t) \/ PodGone(t) \/ FinishDrain(t) \/ PlannedReparent(t))
  /\ WF_vars(Reconcile \/ PassFails)
  /\ \A t \in Tablets : SF_vars(WritePod(t))
  /\ SF_vars(\E t \in Tablets : ReleasePod(t) \/ DeleteLoneMaster(t))
  /\ SF_vars(RolloutPaused) /\ SF_vars(UncascadeShard)
  /\ SF_vars(UpdateStatus) /\ SF_vars(ReconcileShard)

FairSpec == Spec /\ Fairness

-----------------------------------------------------------------------------
(* Properties *)

\* Types; what a pass reports is about Pods it has already listed.
TypeOK ==
  /\ eligible \in EligibleChoices /\ strategy \in Strategies
  /\ template \in Templates /\ changes \in Nat
  /\ primary \in eligible
  /\ claims \subseteq Claimants /\ resizes \in Nat
  /\ \A obj \in {shard, shardSeen, vts} :
       /\ obj.template \in Templates /\ obj.generation \in Nat
       /\ obj.released => obj.scheduled
  /\ \A t \in Tablets : \A pod \in {pods[t], podsSeen[t]} :
       /\ pod.phase \in {"gone", "starting", "ready", "deleting"} /\ pod.template \in Templates
       /\ pod.observed \in 0 .. shard.generation
       /\ pod.drain \in {"none", "started", "finished"}
  /\ pc \in {"idle", "tablets", "status"} /\ todo \subseteq Tablets
  /\ status.pending \cup available \subseteq Tablets \ todo

(***************************************************************************)
(* "to avoid disruption due to planned maintenance" (drain.go): a rolling  *)
(* update deletes a tablet only after it was drained and while it is not   *)
(* the primary, unless nobody could take over.  Unplanned failovers are    *)
(* excluded: a drained tablet that VTOrc makes primary stays marked as     *)
(* drained (reconcile_drain.go:85-99) and is deleted as the primary.       *)
(***************************************************************************)
GracefulReplacement ==
  [][\A t \in Tablets : pods[t].phase # "deleting" /\ pods'[t].phase = "deleting"
       => LoneMaster(t) \/ (pods[t].drain = "finished" /\ t # primary)]_vars

(***************************************************************************)
(* A change of the template restarts a tablet at most once, also when the  *)
(* next change comes before it is rolled out and when a pass fails half    *)
(* way: Pods are not deleted on the strength of a listing or a VitessShard *)
(* they have outlived.  Restarts for a claim that waits for a resize, and  *)
(* for nothing else, come on top: they do not count here, and what a stale *)
(* cache of claims may repeat is not bounded.                              *)
(***************************************************************************)
OneRestartPerChange ==
  \A t \in Tablets : restarts[t] <= changes

(***************************************************************************)
(* A rollout ends: every Pod runs the template asked for last and nothing  *)
(* stays scheduled or released, although each step is triggered by an      *)
(* annotation another controller may not have seen yet.  As long as a      *)
(* claim waits, its Pod is restarted again and again.                      *)
(***************************************************************************)
UpToDate ==
  /\ shard.template = template
  /\ \A t \in Tablets : /\ pods[t].phase = "ready" /\ pods[t].template = template
                         /\ ~pods[t].scheduled /\ ~pods[t].released

RolloutCompletes == <>[](claims = {}) => <>[]UpToDate
=============================================================================
