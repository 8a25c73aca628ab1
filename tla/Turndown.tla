------------------------------- MODULE Turndown -------------------------------
(***************************************************************************)
(* Bringing up and turning down a keyspace, its shards and a cell: the     *)
(* cluster, keyspace, shard and cell controllers, the VitessKeyspace,      *)
(* VitessShard and VitessCell objects they hand work over with, and the    *)
(* topology records that must come and go with them.                       *)
(*                                                                         *)
(* Every controller reads objects from caches that lag behind the API      *)
(* server, computes its status anew in each pass and writes it at the end; *)
(* the parent decides from that status whether a child may be deleted      *)
(* (reconciler/object_set.go), and then removes topology records that are  *)
(* neither wanted nor orphaned (vitesstopo/prune_*.go).                    *)
(*                                                                         *)
(* A pass is cut into the steps between which another component can make a *)
(* difference: what it does to Kubernetes objects, then what it does to    *)
(* the topology and its status.  A call that fails does not stop it.       *)
(***************************************************************************)
EXTENDS Integers, FiniteSets

CONSTANTS
  Shards,   \* shards of the one keyspace
  None,     \* no such object
  Patient,  \* whether the user waits for what the statuses say
  Starts    \* where to start from: the shards that are deployed, the turn-down
            \* policy of the keyspace, and how much may happen (the bounds): edits
            \* of the VitessCluster, moves of traffic, failing calls and restarts

Conditions == {"Unknown", "True", "False"}

\* The spec lists the shards; None is none of the objects it may stand for.
ASSUME TurndownAssumption ==
  /\ IsFiniteSet(Shards)
  /\ None \notin [uid : Nat, shards : SUBSET Shards, idle : Conditions]
  /\ None \notin [uid : Nat, owner : Nat, idle : Conditions]
  /\ Patient \in BOOLEAN
  /\ Starts \subseteq [shards : SUBSET Shards, policy : {"RequireIdle", "Immediate"},
                      edits : Nat, moves : Nat, troubles : Nat]

VARIABLES
  policy,   \* turndownPolicy of the keyspace
  wanted,   \* the VitessCluster's spec: the shards of the keyspace that have
            \* tablet pools, or None if it does not list the keyspace
  wantCell, \* whether it lists the cell
  edits, moves, troubles, \* how many are left
  vtk,      \* the VitessKeyspace: [uid, shards, idle] or None
  vts,      \* the VitessShards: shard -> [uid, owner, idle] or None
  vtc,      \* the VitessCell: [uid, idle] or None
  seen,     \* these objects in the informer caches: [vtk, vts, vtc]
  tablets,  \* shard -> UID of the VitessShard whose tablets are running, or None
  keyspaceRecord, shardRecords, cellRecord, \* global topology
  serving,  \* the shards that the cell's SrvKeyspace lists
  cluster, keyspace, cell \* what a pass of each controller remembers, or None

user    == <<policy, wanted, wantCell, edits, moves>>
objects == <<vtk, vts, vtc>>
records == <<keyspaceRecord, shardRecords, cellRecord, serving>>
passes  == <<cluster, keyspace, cell>>
vars == <<user, troubles, objects, seen, tablets, records, passes>>

Truth(b) == IF b THEN "True" ELSE "False"

-----------------------------------------------------------------------------
(* A settled cluster *)

Init ==
  /\ \E start \in Starts :
       /\ wanted = start.shards /\ policy = start.policy
       /\ edits = start.edits /\ moves = start.moves /\ troubles = start.troubles
  /\ wantCell = TRUE
  /\ vtk = [uid |-> 0, shards |-> wanted, idle |-> Truth(wanted = {})]
  /\ vts = [s \in Shards |->
              IF s \in wanted THEN [uid |-> 0, owner |-> 0, idle |-> "False"] ELSE None]
  /\ vtc = [uid |-> 0, idle |-> Truth(wanted = {})]
  /\ seen = [vtk |-> vtk, vts |-> vts, vtc |-> vtc]
  /\ tablets = [s \in Shards |-> IF s \in wanted THEN 0 ELSE None]
  /\ keyspaceRecord = TRUE /\ shardRecords = wanted /\ cellRecord = TRUE
  /\ serving = wanted
  /\ cluster = None /\ keyspace = None /\ cell = None

\* Calls that fail, of one pass, count as one trouble.
Losing(lost) ==
  IF lost = {} THEN UNCHANGED troubles
  ELSE troubles > 0 /\ troubles' = troubles - 1

-----------------------------------------------------------------------------
(* Objects and copies of them *)

\* A deletion is of the object the cache showed: a precondition on the UID.
Same(obj, cached) == obj # None /\ cached # None /\ obj.uid = cached.uid

\* A UID nobody remembers stands for a new one.
Fresh(known) ==
  LET free == (0..Cardinality(known)) \ known
  IN  CHOOSE n \in free : \A k \in free : n <= k

Uids(objs) == {obj.uid : obj \in objs \ {None}}

\* The copies that passes work on.
Held(pass) == IF pass = None THEN {} ELSE {pass.obj}

\* Mutation: a condition that is not known is taken for True.
MayDeleteUnlessBusy(obj) == obj.idle # "False"

\* PrepareForTurndown: what a parent reads of the child in its cache.
MayDelete(obj) == obj.idle = "True"

\* Mutation: the policy RequireIdle is not looked at.
MayDeleteKeyspaceAlways(obj) == TRUE

\* Mutation: the policy Immediate is not looked at.
MayDeleteKeyspaceIdle(obj) == MayDelete(obj)

MayDeleteKeyspace(obj) == policy = "Immediate" \/ MayDelete(obj)

-----------------------------------------------------------------------------
(* The cluster controller: cells, keyspaces, then their records *)

\* reconcileCells.
ReconcileCells ==
  vtc' = CASE wantCell /\ seen.vtc = None /\ vtc = None ->
                [uid |-> Fresh(Uids(Held(cell))), idle |-> "Unknown"]
           [] ~wantCell /\ seen.vtc # None /\ MayDelete(seen.vtc) /\ Same(vtc, seen.vtc) -> None
           [] OTHER -> vtc

\* Mutation: a keyspace that exists is not updated.
ReconcileKeyspacesCreateOnly ==
  vtk' = CASE wanted # None /\ seen.vtk = None /\ vtk = None ->
                [uid |-> 1, shards |-> wanted, idle |-> "Unknown"]
           [] /\ wanted = None /\ seen.vtk # None
              /\ MayDeleteKeyspace(seen.vtk) /\ Same(vtk, seen.vtk) -> None
           [] OTHER -> vtk

\* reconcileKeyspaces.
ReconcileKeyspaces ==
  LET known == Uids({vtk} \cup Held(keyspace))
               \cup {obj.owner : obj \in {vts[s] : s \in Shards} \ {None}}
  IN  vtk' = CASE wanted # None /\ seen.vtk = None /\ vtk = None ->
                    [uid |-> Fresh(known), shards |-> wanted, idle |-> "Unknown"]
               [] wanted # None /\ seen.vtk # None /\ vtk = seen.vtk ->
                    [vtk EXCEPT !.shards = wanted]
               [] /\ wanted = None /\ seen.vtk # None
                  /\ MayDeleteKeyspace(seen.vtk) /\ Same(vtk, seen.vtk) -> None
               [] OTHER -> vtk

\* Mutation: what may not be deleted is not recorded.
ClusterOrphansForgotten == {}

\* Mutation: all that may not be deleted is recorded, wanted or not.
ClusterOrphansWanted ==
  {o \in {"cell", "keyspace"} :
     \/ o = "cell" /\ seen.vtc # None /\ ~MayDelete(seen.vtc)
     \/ o = "keyspace" /\ seen.vtk # None /\ ~MayDeleteKeyspace(seen.vtk)}

\* Status.OrphanedCells and Status.OrphanedKeyspaces of the pass.
ClusterOrphans ==
  {o \in {"cell", "keyspace"} :
     \/ o = "cell" /\ ~wantCell /\ seen.vtc # None /\ ~MayDelete(seen.vtc)
     \/ o = "keyspace" /\ wanted = None /\ seen.vtk # None /\ ~MayDeleteKeyspace(seen.vtk)}

\* What may fail is the write of an object or, before OrphanStatus is called, the
\* Get or List that should have found it: an orphan is then missed.
ClusterObjects ==
  /\ cluster = None
  /\ \E lost, unread \in SUBSET {"cell", "keyspace"} :
       /\ Losing(lost \cup unread)
       /\ IF "cell" \in lost \cup unread THEN UNCHANGED vtc ELSE ReconcileCells
       /\ IF "keyspace" \in lost \cup unread THEN UNCHANGED vtk ELSE ReconcileKeyspaces
       /\ cluster' = [wanted |-> wanted, wantCell |-> wantCell,
                      orphans |-> ClusterOrphans \ unread, missed |-> ClusterOrphans \cap unread]
  /\ UNCHANGED <<user, vts, seen, tablets, records, keyspace, cell>>

\* RegisterCells and PruneCells.  DeleteCellInfo without force refuses a cell
\* that still has a SrvKeyspace.
CellTopology ==
  cellRecord' = \/ cluster.wantCell
                \/ cellRecord /\ ("cell" \in cluster.orphans \/ serving # {})

\* PruneKeyspaces: DeleteKeyspace with everything below it.
PruneKeyspaces ==
  IF cluster.wanted = None /\ "keyspace" \notin cluster.orphans
  THEN keyspaceRecord' = FALSE /\ shardRecords' = {} /\ serving' = {}
  ELSE UNCHANGED <<keyspaceRecord, shardRecords, serving>>

ClusterTopology ==
  /\ cluster # None
  /\ \E lost \in SUBSET {"cell", "keyspace"} :
       /\ Losing(lost)
       /\ IF "cell" \in lost THEN UNCHANGED cellRecord ELSE CellTopology
       /\ IF "keyspace" \in lost THEN UNCHANGED <<keyspaceRecord, shardRecords, serving>>
          ELSE PruneKeyspaces
  /\ cluster' = None
  /\ UNCHANGED <<user, objects, seen, tablets, keyspace, cell>>

-----------------------------------------------------------------------------
(* The keyspace controller: its record, its shards, their records, status *)

\* reconcileShards.
ReconcileShards(obj, lost) ==
  LET known(s) == Uids({seen.vts[s]}) \cup ({tablets[s]} \ {None})
      new(s)   == [uid |-> Fresh(known(s)), owner |-> obj.uid, idle |-> "Unknown"]
  IN  vts' = [s \in Shards |->
                CASE s \in lost -> vts[s]
                  [] s \in obj.shards /\ seen.vts[s] = None /\ vts[s] = None -> new(s)
                  [] /\ s \notin obj.shards /\ seen.vts[s] # None
                     /\ MayDelete(seen.vts[s]) /\ Same(vts[s], seen.vts[s]) -> None
                  [] OTHER -> vts[s]]

\* Status.OrphanedShards of the pass.
KeyspaceOrphans ==
  {s \in Shards \ seen.vtk.shards : seen.vts[s] # None /\ ~MayDelete(seen.vts[s])}

\* Reconcile up to reconcileShards.  A List that fails leaves all shards unread.
KeyspaceObjects ==
  /\ keyspace = None /\ seen.vtk # None
  /\ \E lost \in SUBSET (Shards \cup {"record"}), unread \in SUBSET Shards :
       /\ Losing(lost \cup unread)
       /\ keyspaceRecord' = (keyspaceRecord \/ "record" \notin lost)
       /\ ReconcileShards(seen.vtk, lost \cup unread)
       /\ keyspace' = [obj |-> seen.vtk, orphans |-> KeyspaceOrphans \ unread,
                       missed |-> KeyspaceOrphans \cap unread]
  /\ UNCHANGED <<user, vtk, vtc, seen, tablets, shardRecords, cellRecord, serving,
                 cluster, cell>>

\* PruneShards.  DeleteShard without even_if_serving refuses a serving shard.
PruneShards ==
  shardRecords' = {s \in shardRecords : \/ s \in keyspace.obj.shards
                                        \/ s \in keyspace.orphans
                                        \/ s \in serving}

\* updateStatus: the keyspace is Idle when the spec of the object at hand has
\* no tablet pools.  Refused if the object has changed since it was read.
KeyspaceStatus ==
  vtk' = IF vtk = keyspace.obj THEN [vtk EXCEPT !.idle = Truth(vtk.shards = {})] ELSE vtk

KeyspaceTopology ==
  /\ keyspace # None
  /\ \E lost \in SUBSET {"prune", "status"} :
       /\ Losing(lost)
       /\ IF "prune" \in lost THEN UNCHANGED shardRecords ELSE PruneShards
       /\ IF "status" \in lost THEN UNCHANGED vtk ELSE KeyspaceStatus
  /\ keyspace' = None
  /\ UNCHANGED <<user, vts, vtc, seen, tablets, keyspaceRecord, cellRecord, serving,
                 cluster, cell>>

-----------------------------------------------------------------------------
(* The shard controller: is the shard serving anywhere?  All its pass leaves *)
(* behind here is what it writes, so it is one step.                         *)

\* reconcileTopology: Idle stays Unknown if the topology cannot be read.
ShardIdle(s, lost) ==
  IF lost = {} /\ s \in shardRecords THEN Truth(s \notin serving) ELSE "Unknown"

ShardPass(s) ==
  /\ vts[s] # None /\ seen.vts[s] = vts[s]
  /\ \E lost \in SUBSET {"topology"} :
       Losing(lost) /\ vts' = [vts EXCEPT ![s].idle = ShardIdle(s, lost)]
  /\ UNCHANGED <<user, vtk, vtc, seen, tablets, records, passes>>

-----------------------------------------------------------------------------
(* The cell controller: which keyspaces are deployed in the cell? *)

\* reconcileKeyspaces: those of the cached objects that have pools in it.
CellKeyspaces ==
  /\ cell = None /\ seen.vtc # None
  /\ cell' = [obj |-> seen.vtc, deployed |-> seen.vtk # None /\ seen.vtk.shards # {}]
  /\ UNCHANGED <<user, troubles, objects, seen, tablets, records, cluster, keyspace>>

\* pruneSrvKeyspaces.
PruneSrvKeyspaces == serving' = IF cell.deployed THEN serving ELSE {}

\* Idle needs the topology and the list of keyspaces confirmed empty; with
\* keyspaces deployed it is False even if the topology cannot be read.
CellStatus(lost) ==
  LET idle == CASE cell.deployed -> "False"
                [] "list" \in lost -> "Unknown"
                [] OTHER -> Truth(serving' = {})
  IN  vtc' = IF vtc = cell.obj THEN [vtc EXCEPT !.idle = idle] ELSE vtc

CellPass ==
  /\ cell # None
  /\ \E lost \in SUBSET {"prune", "list"} :
       /\ Losing(lost)
       /\ IF "prune" \in lost THEN UNCHANGED serving ELSE PruneSrvKeyspaces
       /\ CellStatus(lost)
  /\ cell' = None
  /\ UNCHANGED <<user, vtk, vts, seen, tablets, keyspaceRecord, shardRecords, cellRecord,
                 cluster, keyspace>>

-----------------------------------------------------------------------------
(* Kubernetes and the tablets *)

DeliverKeyspace ==
  /\ seen.vtk # vtk /\ seen' = [seen EXCEPT !.vtk = vtk]
  /\ UNCHANGED <<user, troubles, objects, tablets, records, passes>>

DeliverShard(s) ==
  /\ seen.vts[s] # vts[s] /\ seen' = [seen EXCEPT !.vts[s] = vts[s]]
  /\ UNCHANGED <<user, troubles, objects, tablets, records, passes>>

DeliverCell ==
  /\ seen.vtc # vtc /\ seen' = [seen EXCEPT !.vtc = vtc]
  /\ UNCHANGED <<user, troubles, objects, tablets, records, passes>>

\* The garbage collector deletes what belongs to an object that is gone.
CollectShard(s) ==
  /\ vts[s] # None /\ ~(vtk # None /\ vtk.uid = vts[s].owner)
  /\ vts' = [vts EXCEPT ![s] = None]
  /\ UNCHANGED <<user, troubles, vtk, vtc, seen, tablets, records, passes>>

CollectTablets(s) ==
  /\ tablets[s] # None /\ ~(vts[s] # None /\ vts[s].uid = tablets[s])
  /\ tablets' = [tablets EXCEPT ![s] = None]
  /\ UNCHANGED <<user, troubles, objects, seen, records, passes>>

\* A tablet that starts creates the records of its shard and its keyspace.
TabletsStart(s) ==
  /\ tablets[s] = None /\ Same(vts[s], seen.vts[s]) /\ cellRecord
  /\ tablets' = [tablets EXCEPT ![s] = vts[s].uid]
  /\ keyspaceRecord' = TRUE /\ shardRecords' = shardRecords \cup {s}
  /\ UNCHANGED <<user, troubles, objects, seen, cellRecord, serving, passes>>

\* A restart of the operator ends every pass.
Restart ==
  /\ Losing({"operator"})
  /\ <<cluster, keyspace, cell>> # <<None, None, None>>
  /\ cluster' = None /\ keyspace' = None /\ cell' = None
  /\ UNCHANGED <<user, objects, seen, tablets, records>>

-----------------------------------------------------------------------------
(* The user *)

\* What the statuses say is true and has reached the caches.
Settled ==
  /\ seen = [vtk |-> vtk, vts |-> vts, vtc |-> vtc]
  /\ IF wanted = None THEN vtk = None /\ \A s \in Shards : vts[s] = None /\ tablets[s] = None
     ELSE /\ vtk # None /\ vtk.shards = wanted /\ vtk.idle = Truth(wanted = {})
          /\ \A s \in wanted : vts[s] # None
  /\ \A s \in Shards : vts[s] # None => vts[s].idle = Truth(s \notin serving)
  /\ vtc # None => vtc.idle = Truth(serving = {} /\ (vtk = None \/ vtk.shards = {}))

\* A shard, the keyspace or the cell is removed or added.
Edit ==
  /\ edits > 0 /\ edits' = edits - 1
  /\ \/ /\ \E new \in ((SUBSET Shards) \cup {None}) \ {wanted} :
             /\ Patient /\ (wanted # None /\ new # None => ~(wanted \subseteq new)) => Settled
             /\ wanted' = new
        /\ UNCHANGED wantCell
     \/ /\ Patient /\ wantCell => Settled
        /\ wantCell' = ~wantCell
        /\ UNCHANGED wanted
  /\ UNCHANGED <<policy, moves, troubles, objects, seen, tablets, records, passes>>

\* Traffic is moved to a running shard that has been wanted for a while.
Serve(s) ==
  /\ moves > 0 /\ moves' = moves - 1
  /\ s \notin serving /\ vts[s] # None /\ tablets[s] = vts[s].uid /\ s \in shardRecords
  /\ Patient => /\ wanted # None /\ s \in wanted
                /\ vtk # None /\ vtk.uid = vts[s].owner /\ s \in vtk.shards /\ seen.vtk = vtk
                /\ keyspace # None => s \in keyspace.obj.shards
                /\ cell # None => cell.deployed
                /\ cluster # None => cluster.wanted # None
  /\ serving' = serving \cup {s}
  /\ UNCHANGED <<policy, wanted, wantCell, edits, troubles, objects, seen, tablets,
                 keyspaceRecord, shardRecords, cellRecord, passes>>

\* ... and away from a shard, to another one.
Unserve(s) ==
  /\ s \in serving /\ serving # {s}
  /\ serving' = serving \ {s}
  /\ UNCHANGED <<user, troubles, objects, seen, tablets, keyspaceRecord, shardRecords,
                 cellRecord, passes>>

-----------------------------------------------------------------------------
ClusterStep == ClusterObjects \/ ClusterTopology
KeyspaceStep == KeyspaceObjects \/ KeyspaceTopology
CellStep == CellKeyspaces \/ CellPass

Next ==
  \/ ClusterStep \/ KeyspaceStep \/ CellStep
  \/ DeliverKeyspace \/ DeliverCell \/ Edit \/ Restart
  \/ \E s \in Shards :
       \/ ShardPass(s) \/ DeliverShard(s)
       \/ CollectShard(s) \/ CollectTablets(s) \/ TabletsStart(s)
       \/ Serve(s) \/ Unserve(s)

Spec == Init /\ [][Next]_vars

\* The periodic resync runs every controller again and again, watches deliver,
\* the garbage collector works and Pods start.
FairSpec ==
  /\ Spec
  /\ WF_vars(ClusterStep) /\ WF_vars(KeyspaceStep) /\ WF_vars(CellStep)
  /\ WF_vars(\E s \in Shards : ShardPass(s))
  /\ WF_vars(DeliverKeyspace) /\ WF_vars(DeliverCell) /\ WF_vars(\E s \in Shards : DeliverShard(s))
  /\ WF_vars(\E s \in Shards : CollectShard(s) \/ CollectTablets(s) \/ TabletsStart(s))

-----------------------------------------------------------------------------
(* Properties *)

Object(fields) == {None} \cup fields

\* Types; and nothing is an orphan of the pass (OrphanStatus) that the spec the
\* pass works on still wants.
TypeOK ==
  /\ policy \in {"RequireIdle", "Immediate"}
  /\ wanted \in (SUBSET Shards) \cup {None} /\ wantCell \in BOOLEAN
  /\ {edits, moves, troubles} \subseteq Nat
  /\ \A k \in {vtk, seen.vtk} :
       k \in Object([uid : Nat, shards : SUBSET Shards, idle : Conditions])
  /\ \A v \in {vts, seen.vts} :
       v \in [Shards -> Object([uid : Nat, owner : Nat, idle : Conditions])]
  /\ \A c \in {vtc, seen.vtc} : c \in Object([uid : Nat, idle : Conditions])
  /\ tablets \in [Shards -> Nat \cup {None}]
  /\ keyspaceRecord \in BOOLEAN /\ cellRecord \in BOOLEAN
  /\ serving \subseteq Shards /\ shardRecords \subseteq Shards
  /\ cluster # None =>
       /\ cluster.wanted \in (SUBSET Shards) \cup {None} /\ cluster.wantCell \in BOOLEAN
       /\ "cell" \in cluster.orphans \cup cluster.missed => ~cluster.wantCell
       /\ "keyspace" \in cluster.orphans \cup cluster.missed => cluster.wanted = None
  /\ keyspace # None => keyspace.orphans \cup keyspace.missed \subseteq Shards \ keyspace.obj.shards
  /\ cell # None => cell.deployed \in BOOLEAN

\* The end of a pass that failed to read what it should have kept, and goes on to
\* prune without it.
ForgetsKeyspace == cluster # None /\ "keyspace" \in cluster.missed /\ ClusterTopology
ForgetsShard(s) == keyspace # None /\ s \in keyspace.missed /\ KeyspaceTopology

\* As long as the keyspace is deployed, and not to be removed at once, a shard
\* that serves traffic keeps its VitessShard, wanted or not; and its record, too,
\* unless the pass that prunes failed to read the VitessKeyspace (DeleteKeyspace
\* is recursive; PruneShards never removes a serving shard).
ServingShardKept ==
  [][vtk # None /\ vtk.shards # {} /\ (wanted # None \/ policy = "RequireIdle") =>
       \A s \in serving : /\ vts[s] # None => vts'[s] # None
                          /\ s \in shardRecords => s \in shardRecords' \/ ForgetsKeyspace]_vars

\* A keyspace is not deleted while it has tablet pools.
PopulatedKeyspaceKept ==
  [][policy = "RequireIdle" /\ vtk # None /\ vtk.shards # {} => vtk' # None]_vars

\* What is kept although it is no longer wanted keeps its records, too, unless the
\* pass that prunes failed to read it (ReconcileObjectSet then returns before it
\* calls OrphanStatus, and Reconcile goes on to reconcileTopology).
OrphansKeepRecords ==
  [][vtk # None /\ ~MayDeleteKeyspace(vtk) =>
       /\ keyspaceRecord => keyspaceRecord' \/ ForgetsKeyspace
       /\ \A s \in shardRecords \ shardRecords' :
            vts[s] = None \/ vts[s].idle # "False" \/ ForgetsKeyspace \/ ForgetsShard(s)]_vars

\* A shard whose record was pruned although its deletion, or the call that should
\* have read it, failed: its Idle stays Unknown, and nothing ever deletes it.
Stranded(s) == vts[s] # None /\ vts[s].idle = "Unknown" /\ s \notin shardRecords

\* In the end everything that is not wanted is gone with its records, except
\* for shards that still serve, stranded ones, and a keyspace that was removed
\* together with its pools.
UnwantedGoes ==
  <>[](/\ wanted = None =>
            \/ policy = "RequireIdle" /\ vtk # None /\ vtk.shards # {}
            \/ /\ vtk = None /\ \A s \in Shards : vts[s] = None
               /\ ~keyspaceRecord /\ shardRecords = {} /\ serving = {}
       /\ wanted # None => \A s \in Shards \ (wanted \cup serving) :
                             (vts[s] = None /\ s \notin shardRecords) \/ Stranded(s)
       /\ ~wantCell /\ vtk = None => vtc = None /\ ~cellRecord)

\* In the end everything that is wanted is there, with its records, except for the
\* record of a shard that was stranded and is wanted again: only a tablet that
\* starts creates it, and those of the shard never stopped.
WantedComes ==
  <>[](/\ wantCell => vtc # None /\ cellRecord
       /\ wanted # None =>
            /\ vtk # None /\ vtk.shards = wanted /\ keyspaceRecord
            /\ \A s \in wanted : /\ vts[s] # None
                                 /\ cellRecord => /\ tablets[s] = vts[s].uid
                                                  /\ s \in shardRecords \/ Stranded(s))
===============================================================================
