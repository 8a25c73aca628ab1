-------------------------- MODULE ShardRolloutProofs --------------------------
(***************************************************************************)
(* A rolling update deletes only what was drained and is not the primary,  *)
(* it restarts no tablet more often than the template was changed, apart   *)
(* from restarts for a resize, and the state is well typed: proved for any *)
(* set of tablets, claims and templates and number of changes.             *)
(*                                                                         *)
(* The decision to delete is made on a listing that may be out of date.    *)
(* The invariant Inv says why that is safe: what the cache shows as        *)
(* drained is drained on the server, or gone and not created again before  *)
(* the cache shows that.  How often a Pod was deleted is bounded by the    *)
(* generations of the VitessShard (Ordered, Counted, Fits).                *)
(***************************************************************************)
EXTENDS ShardRollout, TLAPS

PodType ==
  [phase : {"gone", "starting", "ready", "deleting"}, template : Templates,
   observed : Nat, scheduled : BOOLEAN, resize : BOOLEAN, released : BOOLEAN,
   drain : {"none", "started", "finished"}]

ShardType ==
  [template : Templates, generation : Nat, scheduled : BOOLEAN, released : BOOLEAN,
   cascade : BOOLEAN, status : [lowest : Nat, pending : SUBSET Tablets]]

Types ==
  /\ template \in Templates
  /\ shard \in ShardType /\ shardSeen \in ShardType /\ vts \in ShardType
  /\ pods \in [Tablets -> PodType] /\ podsSeen \in [Tablets -> PodType]
  /\ status \in [lowest : Nat, pending : SUBSET Tablets]
  /\ restarts \in [Tablets -> Nat]

Drained(pod) == pod.drain = "finished"

\* A drained Pod is there, and is not the primary's.
DrainedIsReplica == \A t \in Tablets : Drained(pods[t]) => t # primary

\* The cache shows a Pod as drained only while the server has the same Pod, or none.
SeenDrainedStays ==
  \A t \in Tablets : Exists(podsSeen[t]) /\ Drained(podsSeen[t])
                       => ~Exists(pods[t]) \/ Drained(pods[t])

Inv == Types /\ DrainedIsReplica /\ SeenDrainedStays

-----------------------------------------------------------------------------
(* Types *)

\* What the controllers make of an object is again one.
LEMMA ObjectTypes ==
  ASSUME Types
  PROVE  /\ \A pod \in PodType : /\ Schedule(pod) \in PodType
                                 /\ Unschedule(pod) \in PodType
                                 /\ Release(pod) \in PodType
                                 /\ Gone(pod) \in PodType
                                 /\ UpdatePodInPlace(pod) \in PodType
                                 /\ StartDrain(pod) \in PodType
         /\ \A tmpl \in Templates : NewPod(tmpl) \in PodType /\ NewShard(tmpl) \in ShardType
         /\ NewStatus \in [lowest : Nat, pending : SUBSET Tablets]
         /\ NoShard \in ShardType
<1>1. /\ \A pod \in PodType : /\ Schedule(pod) \in PodType
                              /\ Unschedule(pod) \in PodType
                              /\ Release(pod) \in PodType
                              /\ Gone(pod) \in PodType
  BY DEF PodType, Schedule, Unschedule, Release, Gone
<1>2. \A pod \in PodType : UpdatePodInPlace(pod) \in PodType
  BY DEF Types, ShardType, PodType, UpdatePodInPlace
<1>3. \A pod \in PodType : StartDrain(pod) \in PodType
  BY DEF PodType, StartDrain
<1>4. NewStatus \in [lowest : Nat, pending : SUBSET Tablets]
  BY DEF NewStatus
<1>5. \A tmpl \in Templates : NewPod(tmpl) \in PodType /\ NewShard(tmpl) \in ShardType
  BY DEF NewPod, PodType, NewShard, ShardType, NewStatus
<1>6. NoShard \in ShardType
  BY <1>5 DEF NoShard, Types
<1> QED BY <1>1, <1>2, <1>3, <1>4, <1>5, <1>6

\* The Pod as updated in place, with the note of why it is to be replaced.
Noted(t, pod) == [UpdatePodInPlace(pod)
                    EXCEPT !.resize = NeedsRecreate(t, pod) /\ pod.template = vts.template]

LEMMA NotedPod ==
  ASSUME Types, NEW t, NEW pod \in PodType
  PROVE  /\ Noted(t, pod) \in PodType
         /\ Noted(t, pod).template = pod.template /\ Noted(t, pod).phase = pod.phase
         /\ Noted(t, pod).drain = pod.drain /\ Noted(t, pod).observed = vts.generation
         /\ Noted(t, pod).resize <=> NeedsRecreate(t, pod) /\ pod.template = vts.template
<1> DEFINE why == NeedsRecreate(t, pod) /\ pod.template = vts.template
           new == UpdatePodInPlace(pod)
<1>1. why \in BOOLEAN
  OBVIOUS
<1>2. /\ new \in PodType /\ new.template = pod.template /\ new.phase = pod.phase
      /\ new.drain = pod.drain /\ new.observed = vts.generation
  BY ObjectTypes DEF UpdatePodInPlace, PodType
<1>3. Noted(t, pod) = [new EXCEPT !.resize = why]
  BY DEF Noted
<1> HIDE DEF why, new
<1>4. /\ Noted(t, pod) \in PodType
      /\ Noted(t, pod).template = new.template /\ Noted(t, pod).phase = new.phase
      /\ Noted(t, pod).drain = new.drain /\ Noted(t, pod).observed = new.observed
      /\ Noted(t, pod).resize = why
  BY <1>1, <1>2, <1>3 DEF PodType
<1> QED BY <1>2, <1>4 DEF why

LEMMA UpdatedPodType ==
  ASSUME Types, NEW t, NEW pod \in PodType
  PROVE  UpdatedPod(t, pod) \in PodType
BY NotedPod, ObjectTypes DEF UpdatedPod, Noted

LEMMA InitTypes == Init => Types
<1> SUFFICES ASSUME Init PROVE Types
  OBVIOUS
<1>1. template \in Templates
  BY ShardRolloutAssumption DEF Init
<1>2. \A tmpl \in Templates : NewPod(tmpl) \in PodType /\ NewShard(tmpl) \in ShardType
  BY DEF NewPod, PodType, NewShard, ShardType, NewStatus
<1>3. /\ shard \in ShardType /\ shardSeen \in ShardType /\ vts \in ShardType
  BY <1>1, <1>2 DEF Init, NoShard
<1>4. pods \in [Tablets -> PodType] /\ podsSeen \in [Tablets -> PodType]
  <2>1. [NewPod(template) EXCEPT !.phase = "ready", !.observed = 1] \in PodType
    BY <1>1 DEF PodType, NewPod
  <2> QED BY <2>1 DEF Init
<1>5. /\ status \in [lowest : Nat, pending : SUBSET Tablets]
      /\ restarts \in [Tablets -> Nat]
  BY DEF Init, NewStatus
<1> QED BY <1>1, <1>3, <1>4, <1>5 DEF Types

LEMMA NextTypes ==
  ASSUME Types, [Next]_vars
  PROVE  Types'
<1>0. /\ \A pod \in PodType : /\ Schedule(pod) \in PodType
                              /\ Unschedule(pod) \in PodType
                              /\ Release(pod) \in PodType
                              /\ Gone(pod) \in PodType
                              /\ StartDrain(pod) \in PodType
      /\ \A tmpl \in Templates : NewPod(tmpl) \in PodType
      /\ NewStatus \in [lowest : Nat, pending : SUBSET Tablets]
      /\ NoShard \in ShardType
  BY ObjectTypes
<1>1. ASSUME NEW t \in Tablets, NEW pod \in PodType, OthersWrite(t, pod) PROVE Types'
  BY <1>1 DEF Types, OthersWrite, pass, config
<1>2. ASSUME NEW t \in Tablets, ReportsPod(t),
             pods' \in [Tablets -> PodType], restarts' \in [Tablets -> Nat]
      PROVE  Types'
  <2>1. ReportPod(t, podsSeen[t]) \in [lowest : Nat, pending : SUBSET Tablets]
    BY DEF Types, PodType, ReportPod, Exists
  <2> QED BY <1>2, <2>1 DEF Types, ReportsPod, config
<1>3. ASSUME NEW t \in Tablets, RolloutStep(t),
             pods' \in [Tablets -> PodType], restarts' \in [Tablets -> Nat]
      PROVE  Types'
  BY <1>3 DEF Types, RolloutStep, config
<1>4. ASSUME NEW t \in Tablets, NEW change, DeletePod(t, change)
      PROVE  pods' \in [Tablets -> PodType] /\ restarts' \in [Tablets -> Nat]
  <2>1. [pods[t] EXCEPT !.phase = "deleting"] \in PodType
    BY DEF Types, PodType
  <2>2. pods' = [pods EXCEPT ![t] = [pods[t] EXCEPT !.phase = "deleting"]]
    BY <1>4 DEF DeletePod, Types
  <2>3. [restarts EXCEPT ![t] = @ + 1] \in [Tablets -> Nat]
    BY DEF Types
  <2> QED BY <1>4, <2>1, <2>2, <2>3 DEF Types, DeletePod
<1>5. ASSUME NEW t \in Tablets, TabletStep(t) PROVE Types'
  <2>1. CASE PodReady(t)
    <3>1. [pods[t] EXCEPT !.phase = "ready"] \in PodType
      BY DEF Types, PodType
    <3> QED BY <1>1, <2>1, <3>1 DEF PodReady
  <2>2. CASE PodGone(t)
    BY <1>0, <1>1, <2>2 DEF PodGone, Types
  <2>3. CASE FinishDrain(t)
    <3>1. [pods[t] EXCEPT !.drain = "finished"] \in PodType
      BY DEF Types, PodType
    <3> QED BY <1>1, <2>3, <3>1 DEF FinishDrain
  <2>4. CASE PlannedReparent(t)
    BY <2>4 DEF Types, PlannedReparent, pass
  <2>5. CASE CreatePod(t)
    <3>1. NewPod(vts.template) \in PodType
      BY <1>0 DEF Types, ShardType
    <3> QED BY <1>2, <2>5, <3>1 DEF Types, CreatePod
  <2>6. CASE UpdatePod(t)
    <3>1. UpdatedPod(t, podsSeen[t]) \in PodType
      BY UpdatedPodType DEF Types
    <3> QED BY <1>2, <2>6, <3>1 DEF Types, UpdatePod
  <2>7. CASE DeleteDrainedPod(t)
    BY <1>2, <1>4, <2>7 DEF DeleteDrainedPod
  <2>8. CASE NoPodWrite(t)
    BY <1>2, <2>8 DEF Types, NoPodWrite
  <2>9. CASE ReleasePod(t)
    <3>1. Release(pods[t]) \in PodType
      BY <1>0 DEF Types
    <3> QED BY <1>3, <2>9, <3>1 DEF Types, ReleasePod
  <2>10. CASE DeleteLoneMaster(t)
    BY <1>3, <1>4, <2>10 DEF DeleteLoneMaster
  <2>11. CASE ResizePending(t) \/ ResizeDone(t)
    BY <2>11 DEF Types, ResizePending, ResizeDone, pass
  <2> QED
    BY <1>5, <2>1, <2>2, <2>3, <2>4, <2>5, <2>6, <2>7, <2>8, <2>9, <2>10, <2>11
    DEF TabletStep, WritePod
<1>6. CASE ChangeTemplate
  BY <1>6 DEF Types, ChangeTemplate, pass, config
<1>7. CASE UserReleases \/ UserCascades
  BY <1>7 DEF Types, ShardType, UserReleases, UserCascades, Release, pass, config
<1>8. CASE DeliverShard \/ DeliverPods
  BY <1>8 DEF Types, DeliverShard, DeliverPods, pass, config
<1>9. CASE ReconcileShard
  <2> DEFINE gen == IF shardSeen.template = template THEN shardSeen.generation
                    ELSE shardSeen.generation + 1
  <2>1. UpdateVitessShard(shardSeen) \in ShardType
    <3>1. gen \in Nat /\ template \in Templates /\ shardSeen \in ShardType
      BY DEF Types, ShardType
    <3>2. UpdateVitessShard(shardSeen)
            = [shardSeen EXCEPT !.template = template, !.generation = gen]
      BY DEF UpdateVitessShard
    <3> HIDE DEF gen
    <3> QED BY <3>1, <3>2 DEF ShardType
  <2>2. ReconciledShard(shardSeen) \in ShardType
    BY <2>1 DEF Types, ShardType, ReconciledShard, Schedule, Unschedule, PendingEverywhere
  <2> QED BY <1>9, <2>2 DEF Types, ReconcileShard, pass, config
<1>10. CASE Reconcile
  BY <1>0, <1>10 DEF Types, Reconcile, StatusToFill, config
<1>11. CASE RolloutPaused
  BY <1>11 DEF Types, RolloutPaused, config
<1>12. CASE UncascadeShard \/ UpdateStatus
  BY <1>0, <1>12 DEF Types, ShardType, UncascadeShard, UpdateStatus, EndPass, config
<1>13. CASE PassFails
  BY <1>0, <1>13 DEF Types, PassFails, EndPass, config
<1>14. CASE CascadeForDisks \/ CascadeRefused
  <2>1. [shard EXCEPT !.cascade = TRUE] \in ShardType /\ [vts EXCEPT !.cascade = TRUE] \in ShardType
        /\ shard.status \in [lowest : Nat, pending : SUBSET Tablets]
    BY DEF Types, ShardType
  <2> QED BY <1>14, <2>1 DEF Types, CascadeForDisks, CascadeRefused, DisksWait, config
<1>15. CASE UNCHANGED vars
  BY <1>15 DEF Types, vars, pass, config
<1> QED
  BY <1>5, <1>6, <1>7, <1>8, <1>9, <1>10, <1>11, <1>12, <1>13, <1>14, <1>15 DEF Next

-----------------------------------------------------------------------------
(* What is drained *)

\* Two Pods as far as the invariant tells them apart.
Alike(pod, old) == Exists(pod) = Exists(old) /\ Drained(pod) = Drained(old)

\* A write that leaves every Pod there and drained as it was.
LEMMA AlikeKeepsDrained ==
  ASSUME Inv, NEW t \in Tablets, NEW pod,
         pods' = [pods EXCEPT ![t] = pod], Alike(pod, pods[t]),
         UNCHANGED <<podsSeen, primary>>
  PROVE  DrainedIsReplica' /\ SeenDrainedStays'
BY DEF Inv, Types, DrainedIsReplica, SeenDrainedStays, Alike

LEMMA UpdatedPodAlike ==
  ASSUME NEW t, NEW pod \in PodType, Types
  PROVE  Alike(UpdatedPod(t, pod), pod)
<1>1. \A p \in PodType : Alike(Schedule(p), p) /\ Alike(Unschedule(p), p) /\ Alike(StartDrain(p), p)
  BY DEF PodType, Alike, Exists, Drained, Schedule, Unschedule, StartDrain
<1>2. /\ Noted(t, pod) \in PodType /\ StartDrain(Noted(t, pod)) \in PodType
      /\ Alike(Noted(t, pod), pod)
  BY NotedPod, ObjectTypes DEF Alike, Exists, Drained
<1>3. UpdatedPod(t, pod) \in {Schedule(StartDrain(Noted(t, pod))), Schedule(Noted(t, pod)),
                             Unschedule(Noted(t, pod))}
  BY DEF UpdatedPod, Noted
<1> QED BY <1>1, <1>2, <1>3 DEF Alike

LEMMA UpdatedPodPhase ==
  ASSUME NEW t, NEW pod \in PodType, Types
  PROVE  UpdatedPod(t, pod).phase = pod.phase
<1>1. \A p \in PodType : /\ Schedule(p).phase = p.phase /\ Unschedule(p).phase = p.phase
                         /\ StartDrain(p).phase = p.phase
  BY DEF PodType, Schedule, Unschedule, StartDrain
<1>2. /\ Noted(t, pod) \in PodType /\ StartDrain(Noted(t, pod)) \in PodType
      /\ Noted(t, pod).phase = pod.phase
  BY NotedPod, ObjectTypes
<1> QED BY <1>1, <1>2 DEF UpdatedPod, Noted

LEMMA DeletedPodAlike ==
  ASSUME Inv, NEW t \in Tablets, NEW change, DeletePod(t, change), UNCHANGED <<podsSeen, primary>>
  PROVE  DrainedIsReplica' /\ SeenDrainedStays'
<1> DEFINE pod == [pods[t] EXCEPT !.phase = "deleting"]
<1>1. pods' = [pods EXCEPT ![t] = pod]
  BY DEF DeletePod, Inv, Types
<1>2. Alike(pod, pods[t])
  BY DEF DeletePod, Inv, Types, PodType, Alike, Exists, Drained
<1> HIDE DEF pod
<1> QED BY <1>1, <1>2, AlikeKeepsDrained

LEMMA TabletStepKeepsDrained ==
  ASSUME Inv, NEW t \in Tablets, TabletStep(t)
  PROVE  DrainedIsReplica' /\ SeenDrainedStays'
<1> USE DEF pass
<1>1. CASE PodReady(t)
  <2>1. Alike([pods[t] EXCEPT !.phase = "ready"], pods[t])
    BY <1>1 DEF PodReady, Inv, Types, PodType, Alike, Exists, Drained
  <2> QED BY <1>1, <2>1, AlikeKeepsDrained DEF PodReady, OthersWrite
<1>2. CASE PodGone(t)
  <2>1. ~Exists(Gone(pods[t])) /\ ~Drained(Gone(pods[t]))
    BY DEF Gone, Exists, Drained, Inv, Types, PodType
  <2> QED BY <1>2, <2>1 DEF PodGone, OthersWrite, Inv, Types, DrainedIsReplica, SeenDrainedStays
<1>3. CASE FinishDrain(t)
  <2>1. Drained([pods[t] EXCEPT !.drain = "finished"])
    BY DEF Drained, Inv, Types, PodType
  <2> QED BY <1>3, <2>1 DEF FinishDrain, OthersWrite, Inv, Types, DrainedIsReplica, SeenDrainedStays
<1>4. CASE PlannedReparent(t)
  BY <1>4 DEF PlannedReparent, Inv, DrainedIsReplica, SeenDrainedStays, Drained
<1>5. CASE CreatePod(t)
  <2>1. ~Drained(NewPod(vts.template))
    BY DEF NewPod, Drained
  <2> QED BY <1>5, <2>1 DEF CreatePod, ReportsPod, Inv, Types, DrainedIsReplica, SeenDrainedStays
<1>6. CASE UpdatePod(t)
  <2>1. Alike(UpdatedPod(t, podsSeen[t]), pods[t])
    BY <1>6, UpdatedPodAlike DEF UpdatePod, Inv, Types
  <2> QED BY <1>6, <2>1, AlikeKeepsDrained DEF UpdatePod, ReportsPod
<1>7. CASE DeleteDrainedPod(t)
  BY <1>7, DeletedPodAlike DEF DeleteDrainedPod, ReportsPod
<1>8. CASE NoPodWrite(t)
  BY <1>8 DEF NoPodWrite, ReportsPod, Inv, DrainedIsReplica, SeenDrainedStays
<1>9. CASE ReleasePod(t)
  <2>1. Alike(Release(pods[t]), pods[t])
    BY DEF Release, Inv, Types, PodType, Alike, Exists, Drained
  <2>2. pods' = [pods EXCEPT ![t] = Release(pods[t])]
    BY <1>9 DEF ReleasePod, Inv, Types
  <2> QED BY <1>9, <2>1, <2>2, AlikeKeepsDrained DEF ReleasePod, RolloutStep
<1>10. CASE DeleteLoneMaster(t)
  BY <1>10, DeletedPodAlike DEF DeleteLoneMaster, RolloutStep
<1>11. CASE ResizePending(t) \/ ResizeDone(t)
  BY <1>11 DEF ResizePending, ResizeDone, Inv, DrainedIsReplica, SeenDrainedStays
<1> QED
  BY <1>1, <1>2, <1>3, <1>4, <1>5, <1>6, <1>7, <1>8, <1>9, <1>10, <1>11 DEF TabletStep, WritePod

\* Nothing drained is the primary's, and the cache does not show more than there is.
THEOREM InvHolds == Spec => []Inv
<1>1. Init => Inv
  <2> SUFFICES ASSUME Init PROVE Inv
    OBVIOUS
  <2>1. \A t \in Tablets : ~Drained(pods[t])
    BY DEF Init, NewPod, Drained
  <2> QED BY <2>1, InitTypes DEF Init, Inv, DrainedIsReplica, SeenDrainedStays
<1>2. Inv /\ [Next]_vars => Inv'
  <2> SUFFICES ASSUME Inv, [Next]_vars PROVE Inv'
    OBVIOUS
  <2>1. Types'
    BY NextTypes DEF Inv
  <2>2. DrainedIsReplica' /\ SeenDrainedStays'
    <3>1. CASE \E t \in Tablets : TabletStep(t)
      BY <3>1, TabletStepKeepsDrained
    <3>2. CASE DeliverPods
      BY <3>2 DEF DeliverPods, Inv, DrainedIsReplica, SeenDrainedStays
    <3>3. CASE UNCHANGED <<pods, podsSeen, primary>>
      BY <3>3 DEF Inv, DrainedIsReplica, SeenDrainedStays
    <3> QED
      BY <3>1, <3>2, <3>3
      DEF Next, vars, ChangeTemplate, UserReleases, UserCascades, DeliverShard, ReconcileShard,
          Reconcile, CascadeForDisks, CascadeRefused, DisksWait, RolloutPaused,
          UncascadeShard, UpdateStatus, PassFails
  <2> QED BY <2>1, <2>2 DEF Inv
<1> QED BY <1>1, <1>2, PTL DEF Spec

(***************************************************************************)
(* A tablet is deleted by a rolling update only after it was drained and   *)
(* while it is not the primary, unless nobody could take over              *)
(* (drainAndDelete on a listing that may be out of date, releaseTabletPod).*)
(* No unplanned failover is assumed to make a drained tablet primary.      *)
(***************************************************************************)
THEOREM ReplacementIsGraceful == Spec => GracefulReplacement
<1> DEFINE Graceful(t) == LoneMaster(t) \/ (pods[t].drain = "finished" /\ t # primary)
           Goes(t) == pods[t].phase # "deleting" /\ pods'[t].phase = "deleting"
           Step == \A t \in Tablets : Goes(t) => Graceful(t)
<1>1. ASSUME Inv, [Next]_vars PROVE Step
  <2>1. ASSUME NEW t \in Tablets, NEW change, DeletePod(t, change), Graceful(t) PROVE Step
    BY <1>1, <2>1 DEF DeletePod, Inv, Types
  <2>2. ASSUME NEW t \in Tablets, DeleteDrainedPod(t) PROVE Step
    <3>1. /\ Exists(podsSeen[t]) /\ Drained(podsSeen[t])
          /\ DeletePod(t, podsSeen[t].template # vts.template)
      BY <2>2 DEF DeleteDrainedPod, MayDelete, Exists, Drained
    <3>2. Drained(pods[t]) /\ t # primary
      BY <1>1, <3>1 DEF DeletePod, Inv, DrainedIsReplica, SeenDrainedStays
    <3> QED BY <2>1, <3>1, <3>2 DEF Drained
  <2>3. ASSUME NEW t \in Tablets, DeleteLoneMaster(t) PROVE Step
    BY <2>1, <2>3 DEF DeleteLoneMaster
  <2>4. ASSUME NEW t \in Tablets, NEW pod, pods' = [pods EXCEPT ![t] = pod],
               pod.phase = "deleting" => pods[t].phase = "deleting"
        PROVE  Step
    BY <1>1, <2>4 DEF Inv, Types
  <2>5. CASE UNCHANGED pods
    BY <2>5
  <2> HIDE DEF Step
  <2>6. ASSUME NEW t \in Tablets, TabletStep(t) PROVE Step
    <3> USE <1>1 DEF Inv
    <3>0. pods[t] \in PodType /\ podsSeen[t] \in PodType
      BY DEF Types
    <3>1. CASE PodReady(t) \/ PodGone(t) \/ FinishDrain(t)
      <4>1. [pods[t] EXCEPT !.phase = "ready"].phase = "ready"
        BY <3>0 DEF PodType
      <4>2. Gone(pods[t]).phase = "gone"
        BY <3>0 DEF PodType, Gone
      <4>3. [pods[t] EXCEPT !.drain = "finished"].phase = pods[t].phase
        BY <3>0 DEF PodType
      <4> QED BY <2>4, <3>1, <4>1, <4>2, <4>3 DEF PodReady, PodGone, FinishDrain, OthersWrite
    <3>2. CASE CreatePod(t)
      <4>1. NewPod(vts.template).phase = "starting"
        BY DEF NewPod
      <4> QED BY <2>4, <3>2, <4>1 DEF CreatePod
    <3>3. CASE UpdatePod(t)
      <4>1. UpdatedPod(t, podsSeen[t]).phase = podsSeen[t].phase
        BY <3>0, UpdatedPodPhase
      <4> QED BY <2>4, <3>3, <4>1 DEF UpdatePod
    <3>4. CASE ReleasePod(t)
      <4>1. Release(pods[t]).phase = pods[t].phase
        BY <3>0 DEF Release, PodType
      <4>2. pods' = [pods EXCEPT ![t] = Release(pods[t])]
        BY <3>4 DEF ReleasePod, Types
      <4> QED BY <2>4, <4>1, <4>2
    <3>5. CASE ResizePending(t) \/ ResizeDone(t) \/ PlannedReparent(t) \/ NoPodWrite(t)
      BY <2>5, <3>5 DEF ResizePending, ResizeDone, PlannedReparent, NoPodWrite
    <3> QED
      BY <2>2, <2>3, <2>6, <3>1, <3>2, <3>3, <3>4, <3>5 DEF TabletStep, WritePod
  <2> QED
    BY <1>1, <2>5, <2>6
    DEF Next, vars, ChangeTemplate, UserReleases, UserCascades, DeliverShard, DeliverPods,
        ReconcileShard, Reconcile, CascadeForDisks, CascadeRefused, DisksWait, RolloutPaused,
        UncascadeShard, UpdateStatus, PassFails
<1>2. Inv /\ [Next]_vars => [Step]_vars
  BY <1>1
<1> QED BY <1>2, InvHolds, PTL DEF Spec, GracefulReplacement

-----------------------------------------------------------------------------
(* TypeOK *)

\* What Types leaves open of an object: a release is one of something scheduled,
\* and nobody has seen a generation the server has not reached.
ObjectOK(obj) == obj.generation <= shard.generation /\ (obj.released => obj.scheduled)

PodOK(pod) == pod \in PodType /\ pod.observed <= shard.generation

ObjectsOK ==
  /\ shard.generation >= 1
  /\ ObjectOK(shard) /\ ObjectOK(shardSeen)
  /\ vts.generation <= shard.generation /\ (vts.released => vts.scheduled)
  /\ \A t \in Tablets : PodOK(pods[t]) /\ PodOK(podsSeen[t])

PassOK ==
  /\ eligible \in EligibleChoices /\ strategy \in Strategies
  /\ changes \in Nat /\ primary \in eligible
  /\ claims \subseteq Claimants /\ resizes \in Nat
  /\ pc \in {"idle", "tablets", "status"} /\ todo \subseteq Tablets
  /\ status.pending \cup available \subseteq Tablets \ todo

LEMMA TypeOKFromParts ==
  ASSUME Types, ObjectsOK, PassOK
  PROVE  TypeOK
<1>1. \A obj \in {shard, shardSeen, vts} :
        /\ obj.template \in Templates /\ obj.generation \in Nat
        /\ obj.released => obj.scheduled
  BY DEF Types, ShardType, ObjectsOK, ObjectOK
<1>2. \A t \in Tablets : \A pod \in {pods[t], podsSeen[t]} :
        /\ pod.phase \in {"gone", "starting", "ready", "deleting"}
        /\ pod.template \in Templates
        /\ pod.observed \in 0 .. shard.generation
        /\ pod.drain \in {"none", "started", "finished"}
  BY DEF Types, ShardType, ObjectsOK, PodOK, PodType
<1> QED BY <1>1, <1>2 DEF TypeOK, PassOK, Types

LEMMA NextPassOK ==
  ASSUME Types, PassOK, [Next]_vars
  PROVE  PassOK'
<1> USE DEF pass, config, disks
<1>1. ASSUME NEW t \in Tablets, TabletStep(t) PROVE PassOK'
  <2>1. CASE PodReady(t) \/ PodGone(t) \/ FinishDrain(t)
    BY <2>1 DEF PassOK, PodReady, PodGone, FinishDrain, OthersWrite
  <2>2. CASE PlannedReparent(t)
    BY <2>2 DEF PassOK, PlannedReparent
  <2>3. CASE ReportsPod(t)
    <3>1. status'.pending \subseteq status.pending \cup {t}
      BY <2>3 DEF ReportsPod, ReportPod, Types
    <3>2. available' \subseteq available \cup {t}
      BY <2>3 DEF ReportsPod
    <3>3. t \in Tablets /\ todo' = todo \ {t}
      BY <2>3 DEF ReportsPod
    <3>4. UNCHANGED <<eligible, strategy, disks, changes, primary, pc>>
      BY <1>1, <2>3
      DEF ReportsPod, TabletStep, WritePod, CreatePod, UpdatePod, DeleteDrainedPod, NoPodWrite
    <3> QED BY <3>1, <3>2, <3>3, <3>4 DEF PassOK
  <2>4. CASE RolloutStep(t)
    BY <2>4 DEF PassOK, RolloutStep
  <2>5. CASE ResizePending(t) \/ ResizeDone(t)
    BY <2>5 DEF PassOK, ResizePending, ResizeDone
  <2> QED
    BY <1>1, <2>1, <2>2, <2>3, <2>4, <2>5
    DEF TabletStep, WritePod, CreatePod, UpdatePod, DeleteDrainedPod, NoPodWrite,
        ReleasePod, DeleteLoneMaster
<1>2. CASE ChangeTemplate
  BY <1>2 DEF PassOK, ChangeTemplate
<1>3. CASE UserReleases \/ UserCascades \/ DeliverShard \/ DeliverPods \/ ReconcileShard
  BY <1>3 DEF PassOK, UserReleases, UserCascades, DeliverShard, DeliverPods, ReconcileShard
<1>4. CASE Reconcile
  BY <1>4 DEF PassOK, Reconcile, StatusToFill, NewStatus
<1>5. CASE RolloutPaused
  BY <1>5 DEF PassOK, RolloutPaused
<1>6. CASE UncascadeShard \/ UpdateStatus \/ PassFails
  BY <1>6 DEF PassOK, UncascadeShard, UpdateStatus, PassFails, EndPass, NewStatus
<1>7. CASE CascadeForDisks \/ CascadeRefused
  <2>1. status'.pending \subseteq Tablets /\ available' \subseteq Tablets /\ todo' = {}
    BY <1>7
    DEF CascadeForDisks, CascadeRefused, DisksWait, AfterTablets, Types, ShardType, PassOK
  <2> QED BY <1>7, <2>1 DEF PassOK, CascadeForDisks, CascadeRefused, DisksWait
<1>8. CASE UNCHANGED vars
  BY <1>8 DEF PassOK, vars
<1> QED BY <1>1, <1>2, <1>3, <1>4, <1>5, <1>6, <1>7, <1>8 DEF Next

\* One Pod is written, and the note it carries is of a generation that was reached.
LEMMA PodWriteOK ==
  ASSUME Types, Types', ObjectsOK, NEW t \in Tablets, NEW pod \in PodType,
         pod.observed <= shard.generation, pods' = [pods EXCEPT ![t] = pod],
         UNCHANGED <<shard, shardSeen, podsSeen, vts>>
  PROVE  ObjectsOK'
BY DEF Types, ObjectsOK, ObjectOK, PodOK

\* Only the VitessShard is written, or taken up by a pass.
LEMMA ShardWriteOK ==
  ASSUME Types, Types', ObjectsOK, UNCHANGED <<pods, podsSeen>>,
         shard'.generation >= shard.generation, shard'.released => shard'.scheduled,
         shardSeen' \in {shard, shardSeen},
         vts' \in {vts, shardSeen, NoShard}
  PROVE  ObjectsOK'
<1>1. NoShard.generation = 1 /\ ~NoShard.released
  BY DEF NoShard, NewShard
<1>2. /\ shard.generation \in Nat /\ shard'.generation \in Nat
      /\ shardSeen.generation \in Nat /\ vts.generation \in Nat
      /\ \A t \in Tablets : pods[t].observed \in Nat /\ podsSeen[t].observed \in Nat
  BY DEF Types, ShardType, PodType
<1>3. /\ shard'.generation >= 1
      /\ ObjectOK(shard)' /\ ObjectOK(shardSeen)'
      /\ vts'.generation <= shard'.generation /\ (vts'.released => vts'.scheduled)
  BY <1>1, <1>2 DEF ObjectsOK, ObjectOK
<1>4. \A t \in Tablets : PodOK(pods[t])' /\ PodOK(podsSeen[t])'
  BY <1>2 DEF ObjectsOK, PodOK, Types
<1> QED BY <1>3, <1>4 DEF ObjectsOK

LEMMA TabletStepObjectsOK ==
  ASSUME Types, Types', ObjectsOK, NEW t \in Tablets, TabletStep(t)
  PROVE  ObjectsOK'
<1> USE DEF pass, config
<1> DEFINE Written(pod) == pod \in PodType /\ pod.observed <= shard.generation
<1>0. /\ pods[t] \in PodType /\ podsSeen[t] \in PodType
      /\ Written(pods[t]) /\ Written(podsSeen[t])
      /\ shard.generation \in Nat /\ vts.generation \in Nat /\ vts.template \in Templates
      /\ vts.generation <= shard.generation
  BY DEF Types, ShardType, ObjectsOK, PodOK
<1>1. CASE PodReady(t)
  <2>1. Written([pods[t] EXCEPT !.phase = "ready"])
    BY <1>0 DEF PodType
  <2> QED BY <1>1, <2>1, PodWriteOK DEF PodReady, OthersWrite
<1>2. CASE PodGone(t)
  <2>1. Gone(pods[t]).observed = 0
    BY <1>0 DEF PodType, Gone
  <2>2. Written(Gone(pods[t]))
    BY <1>0, <2>1, ObjectTypes
  <2> QED BY <2>2, <1>2, <2>1, PodWriteOK DEF PodGone, OthersWrite
<1>3. CASE FinishDrain(t)
  <2>1. Written([pods[t] EXCEPT !.drain = "finished"])
    BY <1>0 DEF PodType
  <2> QED BY <1>3, <2>1, PodWriteOK DEF FinishDrain, OthersWrite
<1>4. CASE CreatePod(t)
  <2>1. Written(NewPod(vts.template))
    BY <1>0 DEF PodType, NewPod
  <2> QED BY <1>4, <2>1, PodWriteOK DEF CreatePod, ReportsPod
<1>5. CASE UpdatePod(t)
  <2>1. Written(Noted(t, podsSeen[t]))
    BY <1>0, NotedPod
  <2>2. \A pod \in PodType : Written(pod) =>
          Written(Schedule(pod)) /\ Written(Unschedule(pod)) /\ Written(StartDrain(pod))
    BY DEF PodType, Schedule, Unschedule, StartDrain
  <2> HIDE DEF Written
  <2>3. Written(UpdatedPod(t, podsSeen[t]))
    <3>1. /\ Noted(t, podsSeen[t]) \in PodType /\ StartDrain(Noted(t, podsSeen[t])) \in PodType
      BY <1>0, NotedPod, ObjectTypes
    <3> QED BY <2>1, <2>2, <3>1 DEF UpdatedPod, Noted
  <2> QED BY <1>5, <2>3, PodWriteOK DEF UpdatePod, ReportsPod, Written
<1>6. CASE ReleasePod(t)
  <2>1. Written(Release(pods[t]))
    BY <1>0 DEF PodType, Release
  <2>2. pods' = [pods EXCEPT ![t] = Release(pods[t])]
    BY <1>6 DEF ReleasePod, Types
  <2> QED BY <1>6, <2>1, <2>2, PodWriteOK DEF ReleasePod, RolloutStep
<1>7. CASE DeleteDrainedPod(t) \/ DeleteLoneMaster(t)
  <2> DEFINE pod == [pods[t] EXCEPT !.phase = "deleting"]
  <2>1. Written(pod)
    BY <1>0 DEF PodType
  <2>2. pods' = [pods EXCEPT ![t] = pod]
    BY <1>7 DEF DeleteDrainedPod, DeleteLoneMaster, DeletePod, Types
  <2>3. UNCHANGED <<shard, shardSeen, podsSeen, vts>>
    BY <1>7 DEF DeleteDrainedPod, DeleteLoneMaster, ReportsPod, RolloutStep
  <2> HIDE DEF pod
  <2> QED BY <2>1, <2>2, <2>3, PodWriteOK
<1>8. CASE PlannedReparent(t) \/ NoPodWrite(t)
  BY <1>8 DEF PlannedReparent, NoPodWrite, ReportsPod, ObjectsOK, ObjectOK, PodOK
<1>9. CASE ResizePending(t) \/ ResizeDone(t)
  BY <1>9 DEF ResizePending, ResizeDone, ObjectsOK, ObjectOK, PodOK
<1> QED
  BY <1>1, <1>2, <1>3, <1>4, <1>5, <1>6, <1>7, <1>8, <1>9 DEF TabletStep, WritePod

LEMMA NextObjectsOK ==
  ASSUME Types, Types', ObjectsOK, [Next]_vars
  PROVE  ObjectsOK'
<1> USE DEF pass, config
<1>0. /\ shard \in ShardType /\ shardSeen \in ShardType /\ vts \in ShardType
      /\ shard.generation >= shard.generation
      /\ shard.released => shard.scheduled
  BY DEF Types, ShardType, ObjectsOK, ObjectOK
<1>1. CASE \E t \in Tablets : TabletStep(t)
  BY <1>1, TabletStepObjectsOK
<1>2. CASE ChangeTemplate \/ DeliverShard \/ RolloutPaused \/ UNCHANGED vars
  BY <1>0, <1>2, ShardWriteOK DEF ChangeTemplate, DeliverShard, RolloutPaused, vars
<1>3. CASE Reconcile \/ PassFails
  BY <1>0, <1>3, ShardWriteOK DEF Reconcile, PassFails, EndPass
<1>4. CASE UserReleases \/ UserCascades
  <2>1. /\ shard'.generation = shard.generation
        /\ shard'.released => shard'.scheduled
    BY <1>0, <1>4 DEF UserReleases, UserCascades, Release, ShardType
  <2> QED BY <1>0, <1>4, <2>1, ShardWriteOK DEF UserReleases, UserCascades
<1>5. CASE UncascadeShard \/ UpdateStatus
  <2>1. /\ shard'.generation = shard.generation
        /\ shard'.released => shard'.scheduled
    BY <1>0, <1>5 DEF UncascadeShard, UpdateStatus, ShardType
  <2> QED BY <1>0, <1>5, <2>1, ShardWriteOK DEF UncascadeShard, UpdateStatus, EndPass
<1>6. CASE ReconcileShard
  <2> DEFINE new == UpdateVitessShard(shard)
         gen == IF shard.template = template THEN shard.generation ELSE shard.generation + 1
  <2>1. /\ new.generation >= shard.generation /\ new \in ShardType
        /\ new.released = shard.released /\ new.scheduled = shard.scheduled
    <3>1. gen \in Nat /\ gen >= shard.generation /\ template \in Templates
      BY <1>0 DEF ShardType, Types
    <3>2. new = [shard EXCEPT !.template = template, !.generation = gen]
      BY DEF UpdateVitessShard
    <3> HIDE DEF gen, new
    <3> QED BY <1>0, <3>1, <3>2 DEF ShardType
  <2> HIDE DEF new
  <2>2. /\ ReconciledShard(shard).generation >= shard.generation
        /\ ReconciledShard(shard).released => ReconciledShard(shard).scheduled
    BY <1>0, <2>1 DEF ReconciledShard, Schedule, Unschedule, ShardType, new
  <2> QED BY <1>0, <1>6, <2>2, ShardWriteOK DEF ReconcileShard
<1>7. CASE DeliverPods
  BY <1>7 DEF DeliverPods, ObjectsOK, ObjectOK, PodOK
<1>8. CASE CascadeForDisks \/ CascadeRefused
  <2> DEFINE Cascaded(obj) == [obj EXCEPT !.cascade = TRUE]
  <2>1. \A obj \in ShardType : /\ Cascaded(obj).generation = obj.generation
                               /\ Cascaded(obj).released = obj.released
                               /\ Cascaded(obj).scheduled = obj.scheduled
    BY DEF ShardType
  <2>2. /\ UNCHANGED <<pods, podsSeen, shardSeen>>
        /\ \/ shard' = Cascaded(shard) /\ vts' = shard'
           \/ shard' = shard /\ vts' = Cascaded(vts)
    BY <1>8 DEF CascadeForDisks, CascadeRefused, DisksWait
  <2> HIDE DEF Cascaded
  <2>3. /\ shard'.generation = shard.generation
        /\ shard'.released = shard.released /\ shard'.scheduled = shard.scheduled
    BY <1>0, <2>1, <2>2
  <2>4. /\ vts'.generation <= shard'.generation
        /\ vts'.released => vts'.scheduled
    BY <1>0, <2>1, <2>2, <2>3 DEF ObjectsOK, ObjectOK, ShardType
  <2> QED BY <2>2, <2>3, <2>4 DEF ObjectsOK, ObjectOK, PodOK
<1> QED BY <1>1, <1>2, <1>3, <1>4, <1>5, <1>6, <1>7, <1>8 DEF Next

(***************************************************************************)
(* The state is well typed; a release is of something scheduled; no Pod    *)
(* notes a generation the VitessShard has not reached; a pass has reported *)
(* only on tablets it is done with.                                        *)
(***************************************************************************)
THEOREM TypeCorrect == Spec => []TypeOK
<1> DEFINE IInv == Types /\ ObjectsOK /\ PassOK
<1>1. Init => IInv
  <2> SUFFICES ASSUME Init PROVE IInv
    OBVIOUS
  <2>1. Types
    BY InitTypes
  <2>2. ObjectsOK
    <3>1. /\ shard.generation = 1 /\ ~shard.released /\ shardSeen = shard
          /\ vts.generation = 1 /\ ~vts.released
      BY DEF Init, NewShard, NoShard
    <3>2. podsSeen = pods /\ \A t \in Tablets : pods[t].observed = 1
      <4> DEFINE pod == [NewPod(template) EXCEPT !.phase = "ready", !.observed = 1]
      <4>1. pod.observed = 1
        BY DEF NewPod
      <4>2. pods = [t \in Tablets |-> pod] /\ podsSeen = pods
        BY DEF Init
      <4> HIDE DEF pod
      <4> QED BY <4>1, <4>2
    <3> QED BY <2>1, <3>1, <3>2 DEF ObjectsOK, ObjectOK, PodOK, Types
  <2>3. PassOK
    BY ShardRolloutAssumption DEF Init, PassOK, NewStatus
  <2> QED BY <2>1, <2>2, <2>3
<1>2. IInv /\ [Next]_vars => IInv'
  BY NextTypes, NextObjectsOK, NextPassOK
<1>3. IInv => TypeOK
  BY TypeOKFromParts
<1> QED BY <1>1, <1>2, <1>3, PTL DEF Spec

-----------------------------------------------------------------------------
(* One restart per change: generations as a clock *)

\* The VitessShard that deletions go by, in this pass or the next one.
Current == IF pc = "idle" THEN shardSeen ELSE vts

Versions == {Current, shardSeen, shard}

\* A generation stands for one template, and a pass goes by no later generation
\* than the cache or the server shows.
Ordered ==
  /\ Current.generation <= shardSeen.generation
  /\ shardSeen.generation <= shard.generation
  /\ \A o, p \in Versions : o.generation = p.generation => o.template = p.template

\* Every generation after the first is due to a change of the template.
Counted ==
  /\ changes \in Nat
  /\ shard.generation <= 1 + changes
  /\ shard.template # template => shard.generation <= changes

Live(pod) == pod.phase \in {"starting", "ready"}

\* To be replaced for another reason than a resize.
Due(pod) == pod.scheduled /\ ~pod.resize

\* A Pod that was restarted n times is of generation n + 1 at least; it is
\* due to be replaced only when a later generation is at hand, and the
\* cache shows an earlier Pod of its name only when it shows no Pod of that name.
Fits(t) ==
  /\ restarts[t] + 1 <= Current.generation
  /\ Exists(pods[t]) /\ Exists(podsSeen[t]) => pods[t].template = podsSeen[t].template
  /\ Live(pods[t]) =>
       /\ \A o \in Versions : o.generation = restarts[t] + 1 => o.template = pods[t].template
       /\ \A pod \in {pods[t], podsSeen[t]} :
            Exists(pod) /\ Due(pod) => restarts[t] + 2 <= Current.generation

Fitting == \A t \in Tablets : Fits(t)

\* Generations only grow, and a template that is new has a new generation.
LEMMA VersionsAdvance ==
  ASSUME Types, Types', Ordered, Counted, [Next]_vars
  PROVE  /\ Ordered' /\ Counted'
         /\ Current'.generation >= Current.generation
         /\ \A o \in Versions' :
              \/ \E p \in Versions : p.generation = o.generation /\ p.template = o.template
              \/ o.generation > shard.generation
<1> USE DEF pass, config
<1> DEFINE Goal == /\ Ordered' /\ Counted'
                   /\ Current'.generation >= Current.generation
                   /\ \A o \in Versions' :
                        \/ \E p \in Versions : p.generation = o.generation /\ p.template = o.template
                        \/ o.generation > shard.generation
<1>1. /\ shard.generation \in Nat /\ shardSeen.generation \in Nat /\ Current.generation \in Nat
      /\ shard'.generation \in Nat /\ shardSeen'.generation \in Nat
  BY DEF Types, ShardType, Current
<1>2. ASSUME UNCHANGED <<template, changes>>,
             shard'.generation = shard.generation, shard'.template = shard.template,
             shardSeen' \in {shardSeen, shard}, Current' \in {Current, shardSeen'}
      PROVE  Goal
  <2>1. Current'.generation >= Current.generation /\ Current'.generation <= shardSeen'.generation
        /\ shardSeen'.generation <= shard'.generation
    BY <1>1, <1>2 DEF Ordered
  <2>2. \A o \in Versions' : \E p \in Versions : p.generation = o.generation /\ p.template = o.template
    <3> HIDE DEF Current
    <3> QED BY <1>2 DEF Versions
  <2>3. \A o, p \in Versions' : o.generation = p.generation => o.template = p.template
    BY <2>2 DEF Ordered
  <2>4. Counted'
    BY <1>2 DEF Counted
  <2> QED BY <2>1, <2>2, <2>3, <2>4 DEF Ordered
<1> SUFFICES Goal
  OBVIOUS
<1> HIDE DEF Goal
<1>3. CASE \E t \in Tablets : TabletStep(t)
  <2>1. UNCHANGED <<template, changes, shard, shardSeen, Current>>
    BY <1>3
    DEF TabletStep, WritePod, PodReady, PodGone, FinishDrain, OthersWrite, PlannedReparent,
        CreatePod, UpdatePod, DeleteDrainedPod, NoPodWrite, ReportsPod,
        ResizePending, ResizeDone, ReleasePod, DeleteLoneMaster, RolloutStep, AfterTablets, Current
  <2> QED BY <1>2, <2>1
<1>4. CASE RolloutPaused \/ DeliverPods \/ UNCHANGED vars
  <2>1. UNCHANGED <<template, changes, shard, shardSeen, Current>>
    BY <1>4 DEF RolloutPaused, AfterTablets, DeliverPods, vars, Current
  <2> QED BY <1>2, <2>1
<1>5. CASE ChangeTemplate
  <2>1. UNCHANGED <<shard, shardSeen, Current>> /\ changes' = changes + 1
    BY <1>5 DEF ChangeTemplate, Current
  <2>2. Counted'
    BY <1>1, <2>1 DEF Counted
  <2>3. Ordered' /\ Versions' = Versions
    BY <2>1 DEF Ordered, Versions
  <2> QED BY <1>1, <2>1, <2>2, <2>3 DEF Goal
<1>6. CASE UserReleases \/ UserCascades
  <2>1. shard'.generation = shard.generation /\ shard'.template = shard.template
    BY <1>6 DEF UserReleases, UserCascades, Release, Types, ShardType
  <2>2. UNCHANGED <<template, changes, shardSeen, Current>>
    BY <1>6 DEF UserReleases, UserCascades, Current
  <2> QED BY <1>2, <2>1, <2>2
<1>7. CASE DeliverShard
  BY <1>2, <1>7 DEF DeliverShard, Current
<1>8. CASE Reconcile
  <2>1. UNCHANGED <<template, changes, shard, shardSeen, Current>>
    BY <1>8 DEF Reconcile, Current
  <2> QED BY <1>2, <2>1
<1>9. CASE UncascadeShard \/ UpdateStatus
  <2>1. shard'.generation = shard.generation /\ shard'.template = shard.template
    BY <1>9 DEF UncascadeShard, UpdateStatus, Types, ShardType
  <2>2. UNCHANGED <<template, changes, shardSeen>> /\ Current' = shardSeen'
    BY <1>9 DEF UncascadeShard, UpdateStatus, EndPass, Current
  <2> QED BY <1>2, <2>1, <2>2
<1>10. CASE PassFails
  <2>1. UNCHANGED <<template, changes, shard, shardSeen>> /\ Current' = shardSeen'
    BY <1>10 DEF PassFails, EndPass, Current
  <2> QED BY <1>2, <2>1
<1>11. CASE ReconcileShard
  <2>1. UNCHANGED <<template, changes, shardSeen, Current>> /\ shardSeen = shard
        /\ shard' = ReconciledShard(shard)
    BY <1>11 DEF ReconcileShard, Current
  <2>2. \/ shard'.generation = shard.generation /\ shard'.template = shard.template
        \/ /\ shard'.generation = shard.generation + 1 /\ shard'.template = template
           /\ shard.template # template
    <3> DEFINE new == UpdateVitessShard(shard)
    <3>1. /\ new.template = template
          /\ new.generation = IF shard.template = template THEN shard.generation
                              ELSE shard.generation + 1
          /\ new \in ShardType
      <4> DEFINE gen == IF shard.template = template THEN shard.generation
                        ELSE shard.generation + 1
      <4>1. gen \in Nat /\ template \in Templates /\ shard \in ShardType
        BY <1>1 DEF Types
      <4>2. new = [shard EXCEPT !.template = template, !.generation = gen]
        BY DEF UpdateVitessShard
      <4> HIDE DEF gen, new
      <4>3. new.template = template /\ new.generation = gen /\ new \in ShardType
        BY <4>1, <4>2 DEF ShardType
      <4> QED BY <4>3 DEF gen
    <3>2. shard \in ShardType
      BY DEF Types
    <3> HIDE DEF new
    <3>3. \A obj \in ShardType : /\ Schedule(obj).generation = obj.generation
                                 /\ Schedule(obj).template = obj.template
                                 /\ Unschedule(obj).generation = obj.generation
                                 /\ Unschedule(obj).template = obj.template
                                 /\ Unschedule(obj) \in ShardType
      BY DEF ShardType, Schedule, Unschedule
    <3>4. \A c : LET obj == [Unschedule(new) EXCEPT !.cascade = c]
                 IN  obj.generation = new.generation /\ obj.template = new.template
      BY <3>1, <3>3 DEF ShardType
    <3> QED BY <2>1, <3>1, <3>2, <3>3, <3>4 DEF ReconciledShard, new
  <2>3. CASE shard'.generation = shard.generation /\ shard'.template = shard.template
    BY <1>2, <2>1, <2>3
  <2>4. CASE /\ shard'.generation = shard.generation + 1 /\ shard'.template = template
             /\ shard.template # template
    <3>1. Counted'
      BY <1>1, <2>1, <2>4 DEF Counted
    <3>2. \A o \in Versions' : o \in Versions \/ o = shard'
      BY <2>1 DEF Versions
    <3>3. \A o \in Versions : o.generation \in Nat /\ o.generation <= shard.generation
      BY <1>1 DEF Versions, Ordered
    <3>4. \A o, p \in Versions' : o.generation = p.generation => o.template = p.template
      <4>1. \A o \in Versions : o.generation # shard'.generation
        BY <1>1, <2>4, <3>3
      <4> QED BY <3>2, <4>1 DEF Ordered
    <3>5. Ordered'
      BY <1>1, <2>1, <2>4, <3>4 DEF Ordered
    <3> QED BY <1>1, <2>1, <2>4, <3>1, <3>2, <3>5 DEF Goal
  <2> QED BY <2>2, <2>3, <2>4
<1>12. CASE CascadeForDisks \/ CascadeRefused
  <2> DEFINE Cascaded(obj) == [obj EXCEPT !.cascade = TRUE]
  <2>1. \A obj \in ShardType : /\ Cascaded(obj).generation = obj.generation
                               /\ Cascaded(obj).template = obj.template
    BY DEF ShardType
  <2>2. /\ UNCHANGED <<template, changes, shardSeen>> /\ pc = "tablets" /\ pc' = pc
        /\ \/ shard' = Cascaded(shard) /\ vts = shard /\ vts' = shard'
           \/ shard' = shard /\ vts' = Cascaded(vts)
    BY <1>12 DEF CascadeForDisks, CascadeRefused, DisksWait, AfterTablets
  <2>3. shard \in ShardType /\ vts \in ShardType /\ Current = vts /\ Current' = vts'
    BY <2>2 DEF Types, Current
  <2> HIDE DEF Cascaded, Current
  <2>4. /\ shard'.generation = shard.generation /\ shard'.template = shard.template
        /\ Current'.generation = Current.generation /\ Current'.template = Current.template
    BY <2>1, <2>2, <2>3
  <2>5. \A o \in Versions' : \E p \in Versions : p.generation = o.generation /\ p.template = o.template
    BY <2>2, <2>4 DEF Versions
  <2>6. \A o, p \in Versions' : o.generation = p.generation => o.template = p.template
    BY <2>5 DEF Ordered
  <2> QED BY <1>1, <2>2, <2>4, <2>5, <2>6 DEF Ordered, Counted, Goal
<1> QED
  BY <1>3, <1>4, <1>5, <1>6, <1>7, <1>8, <1>9, <1>10, <1>11, <1>12 DEF Next, Goal

\* As time goes on, what fits keeps fitting.
LEMMA FitsStays ==
  ASSUME Types, Types', Ordered, Counted, Fitting, [Next]_vars, NEW t \in Tablets,
         pods'[t] = pods[t], podsSeen'[t] \in {podsSeen[t], pods[t]}, restarts'[t] = restarts[t]
  PROVE  Fits(t)'
<1>1. /\ restarts[t] \in Nat /\ shard.generation \in Nat
      /\ Current.generation \in Nat /\ Current'.generation \in Nat
      /\ \A o \in Versions' : o.generation \in Nat
  BY DEF Types, ShardType, Current, Versions
<1>2. Fits(t)
  BY DEF Fitting
<1>3. restarts[t] + 1 <= Current'.generation
  BY <1>1, <1>2, VersionsAdvance DEF Fits
<1>4. restarts[t] + 1 <= shard.generation
  BY <1>1, <1>2 DEF Fits, Ordered, Types, ShardType
<1>5. Exists(pods'[t]) /\ Exists(podsSeen'[t]) => pods'[t].template = podsSeen'[t].template
  BY <1>2 DEF Fits
<1>6. ASSUME Live(pods[t])
      PROVE  /\ \A o \in Versions' : o.generation = restarts[t] + 1 => o.template = pods[t].template
             /\ \A pod \in {pods'[t], podsSeen'[t]} :
                  Exists(pod) /\ Due(pod) => restarts[t] + 2 <= Current'.generation
  <2>1. ASSUME NEW o \in Versions', o.generation = restarts[t] + 1
        PROVE  o.template = pods[t].template
    <3>1. ~(o.generation > shard.generation)
      BY <1>1, <1>4, <2>1
    <3>2. PICK p \in Versions : p.generation = o.generation /\ p.template = o.template
      BY <3>1, VersionsAdvance
    <3> QED BY <1>2, <1>6, <2>1, <3>2 DEF Fits
  <2>2. ASSUME NEW pod \in {pods'[t], podsSeen'[t]}, Exists(pod), Due(pod)
        PROVE  restarts[t] + 2 <= Current'.generation
    <3>1. restarts[t] + 2 <= Current.generation
      BY <1>2, <1>6, <2>2 DEF Fits
    <3>2. Current'.generation >= Current.generation
      BY VersionsAdvance
    <3> QED BY <1>1, <3>1, <3>2
  <2> QED BY <2>1, <2>2
<1> QED BY <1>3, <1>5, <1>6 DEF Fits

LEMMA UpdatedPodDue ==
  ASSUME Types, NEW t, NEW pod \in PodType
  PROVE  /\ UpdatedPod(t, pod).template = pod.template
         /\ Due(UpdatedPod(t, pod)) => pod.template # vts.template
<1> DEFINE new == Noted(t, pod)
<1>1. /\ \A p \in PodType : /\ Schedule(p).template = p.template /\ Schedule(p).resize = p.resize
                            /\ Unschedule(p).template = p.template /\ ~Unschedule(p).scheduled
                            /\ StartDrain(p).template = p.template
                            /\ StartDrain(p).resize = p.resize
  BY DEF PodType, Schedule, Unschedule, StartDrain
<1>2. /\ new \in PodType /\ StartDrain(new) \in PodType /\ new.template = pod.template
      /\ new.resize <=> NeedsRecreate(t, pod) /\ pod.template = vts.template
  BY NotedPod, ObjectTypes
<1>3. UpdatedPod(t, pod) = CASE NeedsRecreate(t, pod) /\ pod.released  -> Schedule(StartDrain(new))
                            [] NeedsRecreate(t, pod) /\ ~pod.released -> Schedule(new)
                            [] OTHER                                  -> Unschedule(new)
  BY DEF UpdatedPod, Noted
<1> HIDE DEF new
<1>4. CASE NeedsRecreate(t, pod)
  <2>1. UpdatedPod(t, pod) \in {Schedule(StartDrain(new)), Schedule(new)}
    BY <1>3, <1>4
  <2>2. UpdatedPod(t, pod).template = pod.template /\ UpdatedPod(t, pod).resize = new.resize
    BY <1>1, <1>2, <2>1
  <2> QED BY <1>2, <1>4, <2>2 DEF Due
<1>5. CASE ~NeedsRecreate(t, pod)
  <2>1. UpdatedPod(t, pod) = Unschedule(new)
    BY <1>3, <1>5
  <2> QED BY <1>1, <1>2, <2>1 DEF Due
<1> QED BY <1>4, <1>5

\* The steps that concern one tablet leave the versions alone.
LEMMA TabletStepFits ==
  ASSUME Types, Types', Ordered, Counted, Fitting, NEW t \in Tablets, TabletStep(t)
  PROVE  Fits(t)'
<1> USE DEF pass, config
<1>1. /\ pods[t] \in PodType /\ podsSeen[t] \in PodType /\ restarts[t] \in Nat
      /\ shard.generation \in Nat /\ Current.generation \in Nat
      /\ \A o \in Versions : o.generation \in Nat
      /\ pods \in [Tablets -> PodType] /\ restarts \in [Tablets -> Nat]
  BY DEF Types, ShardType, Current, Versions
<1>2. Fits(t)
  BY DEF Fitting
<1>3. UNCHANGED <<shard, shardSeen, vts, Current, Versions, podsSeen>>
  BY DEF TabletStep, WritePod, PodReady, PodGone, FinishDrain, OthersWrite, PlannedReparent,
         CreatePod, UpdatePod, DeleteDrainedPod, NoPodWrite, ReportsPod,
         ResizePending, ResizeDone, ReleasePod, DeleteLoneMaster, RolloutStep, AfterTablets, Current, Versions
<1>4. ASSUME restarts'[t] = restarts[t], pods'[t].template = pods[t].template,
             Exists(pods'[t]) => Exists(pods[t]),
             Live(pods'[t]) => Live(pods[t]) /\ (Due(pods'[t]) => Due(pods[t]))
      PROVE  Fits(t)'
  <2>1. ASSUME Live(pods'[t])
        PROVE  \A pod \in {pods'[t], podsSeen[t]} :
                 Exists(pod) /\ Due(pod) => restarts[t] + 2 <= Current.generation
    BY <1>2, <1>4, <2>1 DEF Fits, Live, Exists
  <2>2. Live(pods'[t]) => \A o \in Versions : o.generation = restarts[t] + 1 => o.template = pods[t].template
    BY <1>2, <1>4 DEF Fits
  <2> HIDE DEF Current, Versions
  <2> QED BY <1>2, <1>3, <1>4, <2>1, <2>2 DEF Fits
<1>5. CASE PodReady(t) \/ FinishDrain(t)
  <2>1. /\ pods[t].phase # "gone" => Exists(pods[t])
        /\ FinishDrain(t) => pods'[t] = [pods[t] EXCEPT !.drain = "finished"]
        /\ PodReady(t) => pods'[t] = [pods[t] EXCEPT !.phase = "ready"] /\ pods[t].phase = "starting"
        /\ restarts' = restarts
    BY <1>1, <1>5 DEF PodReady, FinishDrain, OthersWrite, Exists
  <2>2. CASE PodReady(t)
    <3>1. /\ pods'[t].template = pods[t].template /\ Due(pods'[t]) = Due(pods[t])
          /\ Live(pods[t]) /\ Exists(pods[t])
      BY <1>1, <2>1, <2>2 DEF Live, Exists, Due, PodType
    <3> QED BY <1>4, <2>1, <3>1
  <2>3. CASE FinishDrain(t)
    <3>1. /\ pods'[t].template = pods[t].template /\ Due(pods'[t]) = Due(pods[t])
          /\ pods'[t].phase = pods[t].phase
      BY <1>1, <2>1, <2>3 DEF Due, PodType
    <3> QED BY <1>4, <2>1, <3>1 DEF Live, Exists
  <2> QED BY <1>5, <2>2, <2>3
<1>6. CASE PodGone(t)
  <2>1. /\ pods'[t].phase = "gone" /\ pods'[t].template = pods[t].template /\ restarts' = restarts
    BY <1>1, <1>6 DEF PodGone, OthersWrite, Gone, PodType
  <2> QED BY <1>4, <2>1 DEF Exists, Live
<1>7. CASE PlannedReparent(t) \/ NoPodWrite(t) \/ ResizePending(t) \/ ResizeDone(t)
  BY <1>4, <1>7 DEF PlannedReparent, NoPodWrite, ResizePending, ResizeDone
<1>8. CASE CreatePod(t)
  <2>1. /\ pods'[t] = NewPod(vts.template) /\ restarts' = restarts /\ ~Exists(podsSeen[t])
        /\ pc = "tablets"
    BY <1>1, <1>8 DEF CreatePod, ReportsPod, Turn
  <2>2. Current = vts /\ Current \in Versions
    BY <2>1 DEF Current, Versions
  <2>3. pods'[t].template = Current.template /\ ~Due(pods'[t])
    BY <2>1, <2>2 DEF NewPod, Due
  <2>4. ASSUME NEW o \in Versions, o.generation = restarts[t] + 1 PROVE o.template = Current.template
    <3>1. Current.generation <= o.generation
      BY <1>1, <2>2 DEF Ordered, Versions, Types, ShardType
    <3>2. Current.generation = o.generation
      BY <1>1, <1>2, <2>4, <3>1 DEF Fits
    <3> QED BY <2>2, <3>2 DEF Ordered
  <2> HIDE DEF Current, Versions
  <2> QED BY <1>2, <1>3, <2>1, <2>3, <2>4 DEF Fits
<1>9. CASE UpdatePod(t)
  <2>1. /\ pods'[t] = UpdatedPod(t, pods[t]) /\ podsSeen[t] = pods[t] /\ restarts' = restarts
        /\ pc = "tablets" /\ Live(pods[t]) /\ Exists(pods[t])
    BY <1>1, <1>9 DEF UpdatePod, ReportsPod, Turn, Live, Exists
  <2>2. Current = vts /\ Current \in Versions
    BY <2>1 DEF Current, Versions
  <2>3. /\ pods'[t].template = pods[t].template
        /\ Due(pods'[t]) => pods[t].template # vts.template
    BY <1>1, <2>1, UpdatedPodDue
  <2>4. pods[t].template # vts.template => restarts[t] + 2 <= Current.generation
    BY <1>1, <1>2, <2>1, <2>2 DEF Fits
  <2>5. \A o \in Versions : o.generation = restarts[t] + 1 => o.template = pods[t].template
    BY <1>2, <2>1 DEF Fits
  <2>6. Due(podsSeen[t]) => restarts[t] + 2 <= Current.generation
    BY <1>2, <2>1 DEF Fits
  <2> HIDE DEF Current, Versions
  <2> QED BY <1>2, <1>3, <2>1, <2>3, <2>4, <2>5, <2>6 DEF Fits
<1>10. CASE ReleasePod(t)
  <2>1. pods'[t] = Release(pods[t]) /\ restarts' = restarts
    BY <1>1, <1>10 DEF ReleasePod
  <2>2. /\ pods'[t].template = pods[t].template /\ Due(pods'[t]) = Due(pods[t])
        /\ pods'[t].phase = pods[t].phase
    BY <1>1, <2>1 DEF Release, Due, PodType
  <2> QED BY <1>4, <2>1, <2>2 DEF Live, Exists
<1>11. ASSUME NEW change \in BOOLEAN, DeletePod(t, change), Exists(podsSeen[t]),
              change /\ Live(pods[t]) => restarts[t] + 2 <= Current.generation
       PROVE  Fits(t)'
  <2>1. /\ pods'[t].phase = "deleting" /\ pods'[t].template = pods[t].template /\ Exists(pods[t])
        /\ restarts'[t] = IF change /\ pods[t].phase # "deleting" THEN restarts[t] + 1
                          ELSE restarts[t]
    BY <1>1, <1>11 DEF DeletePod, PodType
  <2>2. pods[t].phase = "deleting" \/ Live(pods[t])
    BY <1>1, <2>1 DEF Live, Exists, PodType
  <2>3. restarts'[t] + 1 <= Current.generation
    BY <1>1, <1>2, <1>11, <2>1, <2>2 DEF Fits
  <2>4. ~Live(pods'[t])
    BY <2>1 DEF Live
  <2> HIDE DEF Current, Versions
  <2> QED BY <1>2, <1>3, <2>1, <2>3, <2>4 DEF Fits
<1>12. CASE DeleteDrainedPod(t)
  <2> DEFINE change == podsSeen[t].template # vts.template
  <2>1. DeletePod(t, change) /\ Exists(podsSeen[t]) /\ pc = "tablets" /\ change \in BOOLEAN
    BY <1>12 DEF DeleteDrainedPod, Exists, ReportsPod, Turn
  <2>2. Current = vts /\ Current \in Versions /\ Exists(pods[t])
    BY <2>1 DEF Current, Versions, DeletePod
  <2>3. change => pods[t].template # Current.template
    BY <1>2, <2>1, <2>2 DEF Fits
  <2>4. change /\ Live(pods[t]) => restarts[t] + 2 <= Current.generation
    BY <1>1, <1>2, <2>2, <2>3 DEF Fits
  <2> HIDE DEF change
  <2> QED BY <1>11, <2>1, <2>4
<1>13. CASE DeleteLoneMaster(t)
  <2>0. /\ DeletePod(t, ~podsSeen[t].resize) /\ MayRelease
        /\ t \in NextScheduledTablet
    BY <1>13 DEF DeleteLoneMaster, RolloutStep
  <2>1. /\ DeletePod(t, ~podsSeen[t].resize) /\ Exists(podsSeen[t]) /\ podsSeen[t].scheduled
        /\ (~podsSeen[t].resize) \in BOOLEAN
    <3>1. t \in ScheduledTablets
      BY <2>0 DEF NextScheduledTablet, FinishedScheduled
    <3>2. Exists(podsSeen[t])
      BY <2>0 DEF MayRelease
    <3> QED BY <2>0, <3>1, <3>2 DEF ScheduledTablets
  <2>2. ~podsSeen[t].resize /\ Live(pods[t]) => restarts[t] + 2 <= Current.generation
    BY <1>2, <2>1 DEF Fits, Due
  <2> QED BY <1>11, <2>1, <2>2
<1> QED
  BY <1>5, <1>6, <1>7, <1>8, <1>9, <1>10, <1>12, <1>13 DEF TabletStep, WritePod

LEMMA FittingStep ==
  ASSUME Types, Types', Ordered, Counted, Fitting, [Next]_vars
  PROVE  Fitting'
<1> USE DEF pass, config
<1>1. ASSUME NEW t \in Tablets, TabletStep(t) PROVE Fitting'
  <2>1. /\ UNCHANGED podsSeen
        /\ \A u \in Tablets \ {t} : pods'[u] = pods[u] /\ restarts'[u] = restarts[u]
    BY <1>1
    DEF TabletStep, WritePod, PodReady, PodGone, FinishDrain, OthersWrite, PlannedReparent,
        CreatePod, UpdatePod, DeleteDrainedPod, DeletePod, NoPodWrite, ReportsPod,
        ResizePending, ResizeDone, ReleasePod, DeleteLoneMaster, RolloutStep, Types
  <2>2. \A u \in Tablets \ {t} : Fits(u)'
    BY <2>1, FitsStays
  <2>3. Fits(t)'
    BY <1>1, TabletStepFits
  <2> QED BY <2>2, <2>3 DEF Fitting
<1>2. CASE /\ UNCHANGED <<pods, restarts>>
           /\ UNCHANGED podsSeen \/ podsSeen' = pods
  BY <1>2, FitsStays DEF Fitting
<1> QED
  BY <1>1, <1>2
  DEF Next, vars, ChangeTemplate, UserReleases, UserCascades, DeliverShard, DeliverPods,
      ReconcileShard, Reconcile, CascadeForDisks, CascadeRefused, DisksWait, RolloutPaused,
      UncascadeShard, UpdateStatus, PassFails

(***************************************************************************)
(* However stale the listing, the VitessShard and the template it is made  *)
(* of are, no tablet is restarted more often than the template was         *)
(* changed, the restarts for a resize alone not counted (drainAndDelete,   *)
(* releaseTabletPod, updateVitessShard).                                   *)
(***************************************************************************)
THEOREM AtMostOneRestartPerChange == Spec => []OneRestartPerChange
<1> DEFINE IInv == Types /\ Ordered /\ Counted /\ Fitting
<1>1. Init => IInv
  <2> SUFFICES ASSUME Init PROVE IInv
    OBVIOUS
  <2>1. Types
    BY InitTypes
  <2>2. /\ shard.generation = 1 /\ shard.template = template /\ shardSeen = shard
        /\ Current = shard /\ Versions = {shard}
    <3>1. shardSeen = shard /\ pc = "idle"
      BY DEF Init
    <3>2. shard.generation = 1 /\ shard.template = template
      BY DEF Init, NewShard
    <3>3. Current = shard
      BY <3>1 DEF Current
    <3>4. Versions = {shard}
      BY <3>1, <3>3 DEF Versions
    <3> QED BY <3>1, <3>2, <3>3, <3>4
  <2>3. Ordered /\ Counted
    <3>1. changes = 0
      BY DEF Init
    <3>2. Counted
      BY <2>2, <3>1 DEF Counted
    <3>3. Ordered
      BY <2>2 DEF Ordered
    <3> QED BY <3>2, <3>3
  <2>4. ASSUME NEW u \in Tablets PROVE Fits(u)
    <3> DEFINE pod == [NewPod(template) EXCEPT !.phase = "ready", !.observed = 1]
    <3>1. pod.template = template /\ ~Due(pod)
      BY DEF NewPod, Due
    <3>2. pods = [t \in Tablets |-> pod] /\ podsSeen = pods
      BY DEF Init
    <3>3. restarts[u] = 0
      BY DEF Init
    <3> HIDE DEF pod
    <3>4. pods[u] = pod /\ podsSeen[u] = pod
      BY <3>2
    <3> QED BY <2>2, <3>1, <3>3, <3>4 DEF Fits
  <2> QED BY <2>1, <2>3, <2>4 DEF Fitting
<1>2. IInv /\ [Next]_vars => IInv'
  BY NextTypes, VersionsAdvance, FittingStep
<1>3. IInv => OneRestartPerChange
  <2> SUFFICES ASSUME IInv, NEW t \in Tablets PROVE restarts[t] <= changes
    BY DEF OneRestartPerChange
  <2>1. /\ restarts[t] \in Nat /\ shard.generation \in Nat /\ shardSeen.generation \in Nat
        /\ Current.generation \in Nat /\ changes \in Nat
    BY DEF Types, ShardType, Current, Counted
  <2> QED BY <2>1 DEF Ordered, Counted, Fitting, Fits
<1> QED BY <1>1, <1>2, <1>3, PTL DEF Spec
=============================================================================
