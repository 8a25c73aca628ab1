---------------------------- MODULE TurndownProofs -----------------------------
(***************************************************************************)
(* Proofs about bringing up and turning down keyspaces: types, and that    *)
(* nothing the user still needs is deleted, for any set of shards, any     *)
(* start and any number of edits, failures and restarts.                   *)
(***************************************************************************)
EXTENDS Turndown, FiniteSetTheorems, FunctionTheorems, WellFoundedInduction, TLAPS

-----------------------------------------------------------------------------
(* UIDs *)

\* The values of a function with finitely many arguments.
LEMMA FiniteImage ==
  ASSUME NEW f, IsFiniteSet(DOMAIN f)
  PROVE  IsFiniteSet({f[x] : x \in DOMAIN f})
<1> DEFINE T == {f[x] : x \in DOMAIN f}
           g == [x \in DOMAIN f |-> f[x]]
<1>1. g \in Surjection(DOMAIN f, T)
  BY DEF Surjection
<1> QED BY <1>1, FS_Surjection

\* There is always a UID that nobody remembers.
LEMMA FreshIsNat ==
  ASSUME NEW known, IsFiniteSet(known)
  PROVE  Fresh(known) \in Nat
<1> DEFINE n == Cardinality(known)
           free == (0..n) \ known
<1>1. n \in Nat
  BY FS_CardinalityType
<1> HIDE DEF n
<1>2. free # {}
  <2> SUFFICES ASSUME 0..n \subseteq known PROVE FALSE
    OBVIOUS
  <2>1. Cardinality(0..n) = n + 1
    BY <1>1, FS_Interval
  <2>2. Cardinality(0..n) <= n
    BY FS_Subset DEF n
  <2> QED BY <1>1, <2>1, <2>2
<1>3. free \subseteq Nat
  BY <1>1
<1> HIDE DEF free
<1>4. \E x \in free : \A y \in free : ~(<<y, x>> \in OpToRel(<, Nat))
  BY <1>2, <1>3, NatLessThanWellFounded, WFMin
<1>5. \E x \in free : \A y \in free : x <= y
  <2>1. \A x, y \in Nat : <<y, x>> \notin OpToRel(<, Nat) => x <= y
    BY DEF OpToRel
  <2> QED BY <1>3, <1>4, <2>1
<1>6. Fresh(known) = CHOOSE x \in free : \A y \in free : x <= y
  BY DEF Fresh, free, n
<1> QED BY <1>3, <1>5, <1>6

\* The UIDs of finitely many objects.
LEMMA UidsFinite ==
  ASSUME NEW objs, IsFiniteSet(objs)
  PROVE  IsFiniteSet(Uids(objs))
<1> DEFINE S == objs \ {None}
           f == [obj \in S |-> obj.uid]
<1>1. IsFiniteSet(S)
  BY FS_Difference
<1>2. Uids(objs) = {f[x] : x \in DOMAIN f}
  BY DEF Uids
<1>3. DOMAIN f = S
  OBVIOUS
<1> HIDE DEF f
<1>4. IsFiniteSet({f[x] : x \in DOMAIN f})
  BY <1>1, <1>3, FiniteImage
<1> QED BY <1>2, <1>4

-----------------------------------------------------------------------------
(* Types *)

VitessKeyspaces == [uid : Nat, shards : SUBSET Shards, idle : Conditions]
VitessShards == [uid : Nat, owner : Nat, idle : Conditions]
VitessCells == [uid : Nat, idle : Conditions]

UserTyped ==
  /\ policy \in {"RequireIdle", "Immediate"}
  /\ wanted \in (SUBSET Shards) \cup {None} /\ wantCell \in BOOLEAN
  /\ edits \in Nat /\ moves \in Nat /\ troubles \in Nat

ObjectsTyped ==
  /\ vtk \in Object(VitessKeyspaces)
  /\ vts \in [Shards -> Object(VitessShards)]
  /\ vtc \in Object(VitessCells)

SeenTyped ==
  seen \in [vtk : Object(VitessKeyspaces), vts : [Shards -> Object(VitessShards)],
            vtc : Object(VitessCells)]

RecordsTyped ==
  /\ tablets \in [Shards -> Nat \cup {None}]
  /\ keyspaceRecord \in BOOLEAN /\ cellRecord \in BOOLEAN
  /\ serving \subseteq Shards /\ shardRecords \subseteq Shards

ClusterTyped ==
  cluster # None =>
    /\ cluster.wanted \in (SUBSET Shards) \cup {None} /\ cluster.wantCell \in BOOLEAN
    /\ "cell" \in cluster.orphans \cup cluster.missed => ~cluster.wantCell
    /\ "keyspace" \in cluster.orphans \cup cluster.missed => cluster.wanted = None

KeyspaceTyped ==
  keyspace # None =>
    /\ keyspace.obj \in VitessKeyspaces
    /\ keyspace.orphans \cup keyspace.missed \subseteq Shards \ keyspace.obj.shards

CellTyped == cell # None => cell.obj \in VitessCells /\ cell.deployed \in BOOLEAN

Typed == /\ UserTyped /\ ObjectsTyped /\ SeenTyped /\ RecordsTyped
         /\ ClusterTyped /\ KeyspaceTyped /\ CellTyped

LEMMA TypedIsTypeOK == Typed => TypeOK
<1> SUFFICES ASSUME Typed PROVE TypeOK
  OBVIOUS
<1> USE DEF Typed, UserTyped, ObjectsTyped, SeenTyped, RecordsTyped, ClusterTyped, KeyspaceTyped,
            CellTyped
<1>1. \A k \in {vtk, seen.vtk} : k \in Object([uid : Nat, shards : SUBSET Shards, idle : Conditions])
  BY DEF VitessKeyspaces
<1>2. \A v \in {vts, seen.vts} : v \in [Shards -> Object([uid : Nat, owner : Nat, idle : Conditions])]
  BY DEF VitessShards
<1>3. \A c \in {vtc, seen.vtc} : c \in Object([uid : Nat, idle : Conditions])
  BY DEF VitessCells
<1>4. {edits, moves, troubles} \subseteq Nat
  OBVIOUS
<1> QED BY <1>1, <1>2, <1>3, <1>4 DEF TypeOK

\* A settled cluster.
LEMMA InitTyped == Init => Typed
<1> SUFFICES ASSUME Init PROVE Typed
  OBVIOUS
<1>1. PICK start \in Starts : /\ wanted = start.shards /\ policy = start.policy
                              /\ edits = start.edits /\ moves = start.moves
                              /\ troubles = start.troubles
  BY DEF Init
<1>2. /\ wanted \in SUBSET Shards /\ policy \in {"RequireIdle", "Immediate"}
      /\ edits \in Nat /\ moves \in Nat /\ troubles \in Nat
  BY <1>1, TurndownAssumption
<1>3. \A b \in BOOLEAN : Truth(b) \in Conditions
  BY DEF Truth, Conditions
<1>4. Truth(wanted = {}) \in Conditions
  BY <1>3
<1>5. vtk \in VitessKeyspaces /\ vtc \in VitessCells
  <2>1. vtk = [uid |-> 0, shards |-> wanted, idle |-> Truth(wanted = {})]
        /\ vtc = [uid |-> 0, idle |-> Truth(wanted = {})]
    BY DEF Init
  <2> QED BY <1>2, <1>4, <2>1 DEF VitessKeyspaces, VitessCells
<1>6. vts \in [Shards -> Object(VitessShards)]
  <2>1. [uid |-> 0, owner |-> 0, idle |-> "False"] \in VitessShards
    BY DEF VitessShards, Conditions
  <2> QED BY <2>1 DEF Init, Object
<1>7. seen = [vtk |-> vtk, vts |-> vts, vtc |-> vtc]
  BY DEF Init
<1>8. seen \in [vtk : Object(VitessKeyspaces), vts : [Shards -> Object(VitessShards)],
                vtc : Object(VitessCells)]
  BY <1>5, <1>6, <1>7 DEF Object
<1>9. /\ tablets \in [Shards -> Nat \cup {None}] /\ wantCell \in BOOLEAN
      /\ keyspaceRecord \in BOOLEAN /\ cellRecord \in BOOLEAN
      /\ serving = wanted /\ shardRecords = wanted
      /\ cluster = None /\ keyspace = None /\ cell = None
  BY DEF Init
<1> QED
  BY <1>2, <1>5, <1>6, <1>8, <1>9
  DEF Typed, UserTyped, ObjectsTyped, SeenTyped, RecordsTyped, ClusterTyped, KeyspaceTyped, CellTyped,
      Object

\* Failing calls use up the bound on them.
LEMMA LosingTyped ==
  ASSUME NEW lost, Losing(lost), troubles \in Nat
  PROVE  troubles' \in Nat
BY DEF Losing

LEMMA ReconcileCellsTyped ==
  ASSUME Typed, ReconcileCells
  PROVE  vtc' \in Object(VitessCells)
<1>1. ASSUME cell # None PROVE cell.obj \in VitessCells
  BY <1>1 DEF Typed, CellTyped
<1>2. IsFiniteSet(Held(cell))
  BY FS_EmptySet, FS_Singleton DEF Held
<1>3. Fresh(Uids(Held(cell))) \in Nat
  BY <1>2, UidsFinite, FreshIsNat
<1>4. [uid |-> Fresh(Uids(Held(cell))), idle |-> "Unknown"] \in VitessCells
  BY <1>3 DEF VitessCells, Conditions
<1> QED BY <1>4 DEF ReconcileCells, Object, Typed, ObjectsTyped

LEMMA ReconcileKeyspacesTyped ==
  ASSUME Typed, ReconcileKeyspaces
  PROVE  /\ vtk' \in Object(VitessKeyspaces)
         /\ wanted # None /\ seen.vtk = None /\ vtk = None => vtk' \in VitessKeyspaces
<1> DEFINE shards == {vts[s] : s \in Shards} \ {None}
           known == Uids({vtk} \cup Held(keyspace)) \cup {obj.owner : obj \in shards}
<1>1. IsFiniteSet({vtk} \cup Held(keyspace))
  BY FS_EmptySet, FS_Singleton, FS_Union DEF Held
<1>2. IsFiniteSet(shards)
  <2>1. DOMAIN vts = Shards
    BY DEF Typed, ObjectsTyped
  <2>2. IsFiniteSet({vts[s] : s \in Shards})
    BY <2>1, FiniteImage, TurndownAssumption
  <2> QED BY <2>2, FS_Difference
<1>3. IsFiniteSet({obj.owner : obj \in shards})
  <2> DEFINE f == [obj \in shards |-> obj.owner]
  <2> HIDE DEF shards
  <2>1. {obj.owner : obj \in shards} = {f[x] : x \in DOMAIN f} /\ DOMAIN f = shards
    OBVIOUS
  <2> HIDE DEF f
  <2>2. IsFiniteSet({f[x] : x \in DOMAIN f})
    BY <1>2, <2>1, FiniteImage
  <2> QED BY <2>1, <2>2
<1>4. Fresh(known) \in Nat
  <2>1. IsFiniteSet(Uids({vtk} \cup Held(keyspace)))
    BY <1>1, UidsFinite
  <2> HIDE DEF shards
  <2>2. IsFiniteSet(known)
    BY <1>3, <2>1, FS_Union
  <2> QED BY <2>2, FreshIsNat
<1>5. vtk' = CASE wanted # None /\ seen.vtk = None /\ vtk = None ->
                    [uid |-> Fresh(known), shards |-> wanted, idle |-> "Unknown"]
               [] wanted # None /\ seen.vtk # None /\ vtk = seen.vtk ->
                    [vtk EXCEPT !.shards = wanted]
               [] /\ wanted = None /\ seen.vtk # None
                  /\ MayDeleteKeyspace(seen.vtk) /\ Same(vtk, seen.vtk) -> None
               [] OTHER -> vtk
  BY DEF ReconcileKeyspaces
<1> HIDE DEF known
<1>6. wanted # None => /\ wanted \in SUBSET Shards
                       /\ [uid |-> Fresh(known), shards |-> wanted, idle |-> "Unknown"] \in VitessKeyspaces
  BY <1>4 DEF Typed, UserTyped, VitessKeyspaces, Conditions
<1>7. vtk # None /\ wanted # None => [vtk EXCEPT !.shards = wanted] \in VitessKeyspaces
  BY <1>6 DEF Typed, ObjectsTyped, Object, VitessKeyspaces
<1>8. vtk \in Object(VitessKeyspaces)
  BY DEF Typed, ObjectsTyped
<1> QED BY <1>5, <1>6, <1>7, <1>8 DEF Object

\* What an event leaves in the caches.
LEMMA DeliverKeyspaceSeen ==
  ASSUME Typed, DeliverKeyspace
  PROVE  /\ SeenTyped'
         /\ seen'.vtk = vtk /\ seen'.vts = seen.vts /\ seen'.vtc = seen.vtc
BY DEF Typed, ObjectsTyped, SeenTyped, DeliverKeyspace

LEMMA DeliverCellSeen ==
  ASSUME Typed, DeliverCell
  PROVE  /\ SeenTyped'
         /\ seen'.vtk = seen.vtk /\ seen'.vts = seen.vts /\ seen'.vtc = vtc
BY DEF Typed, ObjectsTyped, SeenTyped, DeliverCell

LEMMA DeliverShardSeen ==
  ASSUME Typed, NEW s \in Shards, DeliverShard(s)
  PROVE  /\ SeenTyped'
         /\ seen'.vtk = seen.vtk /\ seen'.vtc = seen.vtc
         /\ seen'.vts[s] = vts[s] /\ \A r \in Shards \ {s} : seen'.vts[r] = seen.vts[r]
<1> DEFINE new == [seen.vts EXCEPT ![s] = vts[s]]
<1>1. seen' = [seen EXCEPT !.vts = new]
  BY DEF DeliverShard
<1>2. /\ seen \in [vtk : Object(VitessKeyspaces), vts : [Shards -> Object(VitessShards)],
                   vtc : Object(VitessCells)]
      /\ vts[s] \in Object(VitessShards)
  BY DEF Typed, ObjectsTyped, SeenTyped
<1>3. /\ new \in [Shards -> Object(VitessShards)]
      /\ new[s] = vts[s] /\ \A r \in Shards \ {s} : new[r] = seen.vts[r]
  BY <1>2
<1> HIDE DEF new
<1>4. seen'.vtk = seen.vtk /\ seen'.vtc = seen.vtc /\ seen'.vts = new
  BY <1>1, <1>2
<1>5. seen' \in [vtk : Object(VitessKeyspaces), vts : [Shards -> Object(VitessShards)],
                 vtc : Object(VitessCells)]
  BY <1>1, <1>2, <1>3
<1> QED BY <1>3, <1>4, <1>5 DEF SeenTyped

\* What the keyspace controller does to each shard.
LEMMA ReconcileShardsDoes ==
  ASSUME Typed, NEW obj \in VitessKeyspaces, NEW lost, ReconcileShards(obj, lost)
  PROVE  /\ vts' \in [Shards -> Object(VitessShards)]
         /\ \A s \in Shards :
              \/ vts'[s] = vts[s]
              \/ /\ vts[s] = None /\ seen.vts[s] = None /\ s \in obj.shards
                 /\ vts'[s] \in VitessShards /\ vts'[s].owner = obj.uid /\ vts'[s].idle = "Unknown"
              \/ /\ vts'[s] = None /\ s \notin obj.shards
                 /\ seen.vts[s] # None /\ MayDelete(seen.vts[s])
<1> DEFINE known(s) == Uids({seen.vts[s]}) \cup ({tablets[s]} \ {None})
           new(s)   == [uid |-> Fresh(known(s)), owner |-> obj.uid, idle |-> "Unknown"]
<1>1. ASSUME NEW s \in Shards PROVE new(s) \in VitessShards
  <2>1. IsFiniteSet(Uids({seen.vts[s]}))
    BY UidsFinite, FS_Singleton
  <2>2. IsFiniteSet({tablets[s]} \ {None})
    BY FS_Singleton, FS_Difference
  <2>3. IsFiniteSet(known(s))
    BY <2>1, <2>2, FS_Union
  <2> HIDE DEF known
  <2>4. Fresh(known(s)) \in Nat
    BY <2>3, FreshIsNat
  <2> QED BY <2>4 DEF VitessShards, VitessKeyspaces, Conditions
<1>2. \A s \in Shards : new(s).owner = obj.uid /\ new(s).idle = "Unknown"
  OBVIOUS
<1>3. vts' = [s \in Shards |->
                CASE s \in lost -> vts[s]
                  [] s \in obj.shards /\ seen.vts[s] = None /\ vts[s] = None -> new(s)
                  [] /\ s \notin obj.shards /\ seen.vts[s] # None
                     /\ MayDelete(seen.vts[s]) /\ Same(vts[s], seen.vts[s]) -> None
                  [] OTHER -> vts[s]]
  BY DEF ReconcileShards
<1> HIDE DEF new
<1>4. \A s \in Shards :
        \/ vts'[s] = vts[s]
        \/ vts[s] = None /\ seen.vts[s] = None /\ s \in obj.shards /\ vts'[s] = new(s)
        \/ /\ vts'[s] = None /\ s \notin obj.shards
           /\ seen.vts[s] # None /\ MayDelete(seen.vts[s])
  BY <1>3
<1>5. DOMAIN vts' = Shards /\ vts' = [s \in DOMAIN vts' |-> vts'[s]]
  BY <1>3
<1>6. \A s \in Shards : vts'[s] \in Object(VitessShards)
  BY <1>1, <1>4 DEF Typed, ObjectsTyped, Object
<1>7. vts' \in [Shards -> Object(VitessShards)]
  BY <1>5, <1>6
<1> QED BY <1>1, <1>2, <1>4, <1>7

\* The controllers' steps.
LEMMA ControllersTyped ==
  ASSUME Typed, ClusterStep \/ KeyspaceStep \/ CellStep \/ Restart
  PROVE  Typed'
<1> USE DEF user, objects, records, passes
<1>0. \A b \in BOOLEAN : Truth(b) \in Conditions
  BY DEF Truth, Conditions
<1>1. CASE ClusterObjects
  <2>1. UserTyped'
    BY <1>1, LosingTyped DEF ClusterObjects, Typed, UserTyped
  <2>2. ObjectsTyped'
    <3>1. vtc' \in Object(VitessCells)
      BY <1>1, ReconcileCellsTyped DEF ClusterObjects, Typed, ObjectsTyped
    <3>2. vtk' \in Object(VitessKeyspaces)
      BY <1>1, ReconcileKeyspacesTyped DEF ClusterObjects, Typed, ObjectsTyped
    <3> QED BY <1>1, <3>1, <3>2 DEF ClusterObjects, Typed, ObjectsTyped
  <2>3. SeenTyped' /\ RecordsTyped' /\ KeyspaceTyped' /\ CellTyped'
    BY <1>1 DEF ClusterObjects, Typed, SeenTyped, RecordsTyped, KeyspaceTyped, CellTyped
  <2>4. ClusterTyped'
    <3>1. PICK unread \in SUBSET {"cell", "keyspace"} :
            cluster' = [wanted |-> wanted, wantCell |-> wantCell,
                        orphans |-> ClusterOrphans \ unread, missed |-> ClusterOrphans \cap unread]
      BY <1>1 DEF ClusterObjects
    <3>2. /\ "cell" \in ClusterOrphans => ~wantCell
          /\ "keyspace" \in ClusterOrphans => wanted = None
      BY DEF ClusterOrphans
    <3>3. /\ cluster'.wanted = wanted /\ cluster'.wantCell = wantCell
          /\ cluster'.orphans \cup cluster'.missed = ClusterOrphans
      BY <3>1
    <3> QED BY <3>2, <3>3 DEF ClusterTyped, Typed, UserTyped
  <2> QED BY <2>1, <2>2, <2>3, <2>4 DEF Typed
<1>2. CASE ClusterTopology
  <2>1. UserTyped'
    BY <1>2, LosingTyped DEF ClusterTopology, Typed, UserTyped
  <2>2. RecordsTyped'
    <3>1. cellRecord' \in BOOLEAN
      BY <1>2 DEF ClusterTopology, CellTopology, Typed, RecordsTyped
    <3>2. keyspaceRecord' \in BOOLEAN /\ serving' \subseteq Shards /\ shardRecords' \subseteq Shards
      BY <1>2 DEF ClusterTopology, PruneKeyspaces, Typed, RecordsTyped
    <3> QED BY <1>2, <3>1, <3>2 DEF ClusterTopology, Typed, RecordsTyped
  <2> QED BY <1>2, <2>1, <2>2
          DEF ClusterTopology, Typed, ObjectsTyped, SeenTyped, ClusterTyped, KeyspaceTyped, CellTyped
<1>3. CASE KeyspaceObjects
  <2>1. UserTyped'
    BY <1>3, LosingTyped DEF KeyspaceObjects, Typed, UserTyped
  <2>2. seen.vtk \in VitessKeyspaces
    BY <1>3 DEF KeyspaceObjects, Typed, SeenTyped, Object
  <2>3. vts' \in [Shards -> Object(VitessShards)]
    BY <1>3, <2>2, ReconcileShardsDoes DEF KeyspaceObjects
  <2>4. ObjectsTyped'
    BY <1>3, <2>3 DEF KeyspaceObjects, Typed, ObjectsTyped
  <2>5. RecordsTyped'
    BY <1>3 DEF KeyspaceObjects, Typed, RecordsTyped
  <2>6. KeyspaceTyped'
    <3>1. PICK unread \in SUBSET Shards :
            keyspace' = [obj |-> seen.vtk, orphans |-> KeyspaceOrphans \ unread,
                         missed |-> KeyspaceOrphans \cap unread]
      BY <1>3 DEF KeyspaceObjects
    <3>2. /\ keyspace'.obj = seen.vtk
          /\ keyspace'.orphans \cup keyspace'.missed \subseteq Shards \ seen.vtk.shards
      BY <3>1 DEF KeyspaceOrphans
    <3> QED BY <2>2, <3>2 DEF KeyspaceTyped
  <2> QED BY <1>3, <2>1, <2>4, <2>5, <2>6
          DEF KeyspaceObjects, Typed, SeenTyped, ClusterTyped, CellTyped
<1>4. CASE KeyspaceTopology
  <2>1. UserTyped'
    BY <1>4, LosingTyped DEF KeyspaceTopology, Typed, UserTyped
  <2>2. vtk' \in Object(VitessKeyspaces)
    <3>1. vtk # None => [vtk EXCEPT !.idle = Truth(vtk.shards = {})] \in VitessKeyspaces
      BY <1>0 DEF Typed, ObjectsTyped, Object, VitessKeyspaces
    <3>2. vtk = keyspace.obj => vtk \in VitessKeyspaces
      BY <1>4 DEF KeyspaceTopology, Typed, KeyspaceTyped
    <3>3. vtk = keyspace.obj => [vtk EXCEPT !.idle = Truth(vtk.shards = {})] \in VitessKeyspaces
      BY <1>0, <3>2 DEF VitessKeyspaces
    <3> QED BY <1>4, <3>3 DEF KeyspaceTopology, KeyspaceStatus, Typed, ObjectsTyped, Object
  <2>3. RecordsTyped'
    BY <1>4 DEF KeyspaceTopology, PruneShards, Typed, RecordsTyped
  <2> QED BY <1>4, <2>1, <2>2, <2>3
          DEF KeyspaceTopology, Typed, ObjectsTyped, SeenTyped, ClusterTyped, KeyspaceTyped, CellTyped
<1>5. CASE CellKeyspaces
  <2>1. CellTyped'
    <3>1. /\ cell'.obj = seen.vtc /\ seen.vtc # None
          /\ cell'.deployed = (seen.vtk # None /\ seen.vtk.shards # {})
      BY <1>5 DEF CellKeyspaces
    <3>2. seen.vtc \in VitessCells
      BY <3>1 DEF Typed, SeenTyped, Object
    <3> QED BY <3>1, <3>2 DEF CellTyped
  <2> QED BY <1>5, <2>1
          DEF CellKeyspaces, Typed, UserTyped, ObjectsTyped, SeenTyped, RecordsTyped, ClusterTyped,
              KeyspaceTyped
<1>6. CASE CellPass
  <2>1. UserTyped'
    BY <1>6, LosingTyped DEF CellPass, Typed, UserTyped
  <2>2. vtc' \in Object(VitessCells)
    <3>1. PICK lost \in SUBSET {"prune", "list"} : CellStatus(lost)
      BY <1>6 DEF CellPass
    <3> DEFINE idle == CASE cell.deployed -> "False"
                         [] "list" \in lost -> "Unknown"
                         [] OTHER -> Truth(serving' = {})
    <3>2. Truth(serving' = {}) \in Conditions
      BY <1>0
    <3>3. idle \in Conditions
      BY <1>6, <3>2 DEF Conditions, CellPass, Typed, CellTyped
    <3>4. vtc' = IF vtc = cell.obj THEN [vtc EXCEPT !.idle = idle] ELSE vtc
      BY <3>1 DEF CellStatus
    <3> HIDE DEF idle
    <3>5. vtc = cell.obj => vtc \in VitessCells
      BY <1>6 DEF CellPass, Typed, CellTyped
    <3>6. vtc = cell.obj => [vtc EXCEPT !.idle = idle] \in VitessCells
      BY <3>3, <3>5 DEF VitessCells
    <3> QED BY <3>4, <3>6 DEF Typed, ObjectsTyped, Object
  <2>3. RecordsTyped'
    BY <1>6 DEF CellPass, PruneSrvKeyspaces, Typed, RecordsTyped
  <2> QED BY <1>6, <2>1, <2>2, <2>3
          DEF CellPass, Typed, ObjectsTyped, SeenTyped, ClusterTyped, KeyspaceTyped, CellTyped
<1>7. CASE Restart
  <2>1. UserTyped'
    BY <1>7, LosingTyped DEF Restart, Typed, UserTyped
  <2> QED BY <1>7, <2>1
          DEF Restart, Typed, ObjectsTyped, SeenTyped, RecordsTyped, ClusterTyped, KeyspaceTyped,
              CellTyped
<1> QED BY <1>1, <1>2, <1>3, <1>4, <1>5, <1>6, <1>7 DEF ClusterStep, KeyspaceStep, CellStep

\* The other steps.
LEMMA ShardStepTyped ==
  ASSUME Typed, NEW s \in Shards,
         \/ ShardPass(s) \/ DeliverShard(s) \/ CollectShard(s) \/ CollectTablets(s)
         \/ TabletsStart(s) \/ Serve(s) \/ Unserve(s)
  PROVE  Typed'
<1> USE DEF user, objects, records, passes
<1>1. CASE ShardPass(s)
  <2>1. UserTyped'
    BY <1>1, LosingTyped DEF ShardPass, Typed, UserTyped
  <2>2. PICK lost \in SUBSET {"topology"} : vts' = [vts EXCEPT ![s].idle = ShardIdle(s, lost)]
    BY <1>1 DEF ShardPass
  <2>3. ShardIdle(s, lost) \in Conditions
    BY DEF ShardIdle, Truth, Conditions
  <2>4. vts[s] \in VitessShards /\ vts \in [Shards -> Object(VitessShards)]
    BY <1>1 DEF ShardPass, Typed, ObjectsTyped, Object
  <2>5. [vts[s] EXCEPT !.idle = ShardIdle(s, lost)] \in VitessShards
    BY <2>3, <2>4 DEF VitessShards
  <2>6. vts' = [vts EXCEPT ![s] = [vts[s] EXCEPT !.idle = ShardIdle(s, lost)]]
    BY <2>2, <2>4
  <2>7. vts' \in [Shards -> Object(VitessShards)]
    BY <2>4, <2>5, <2>6 DEF Object
  <2> QED BY <1>1, <2>1, <2>7
          DEF ShardPass, Typed, ObjectsTyped, SeenTyped, RecordsTyped, ClusterTyped, KeyspaceTyped,
              CellTyped
<1>2. CASE DeliverShard(s)
  BY <1>2, DeliverShardSeen
  DEF DeliverShard, Typed, UserTyped, ObjectsTyped, RecordsTyped, ClusterTyped, KeyspaceTyped,
      CellTyped
<1>3. CASE CollectShard(s)
  <2>1. vts' \in [Shards -> Object(VitessShards)]
    BY <1>3 DEF CollectShard, Typed, ObjectsTyped, Object
  <2> QED BY <1>3, <2>1
          DEF CollectShard, Typed, UserTyped, ObjectsTyped, SeenTyped, RecordsTyped, ClusterTyped,
              KeyspaceTyped, CellTyped
<1>4. CASE CollectTablets(s) \/ TabletsStart(s)
  <2>1. vts[s] # None => vts[s].uid \in Nat
    BY DEF Typed, ObjectsTyped, Object, VitessShards
  <2>2. RecordsTyped'
    BY <1>4, <2>1 DEF CollectTablets, TabletsStart, Same, Typed, RecordsTyped
  <2> QED BY <1>4, <2>2
          DEF CollectTablets, TabletsStart, Typed, UserTyped, ObjectsTyped, SeenTyped, ClusterTyped,
              KeyspaceTyped, CellTyped
<1>5. CASE Serve(s) \/ Unserve(s)
  <2>1. UserTyped'
    BY <1>5 DEF Serve, Unserve, Typed, UserTyped
  <2> QED BY <1>5, <2>1
          DEF Serve, Unserve, Typed, ObjectsTyped, SeenTyped, RecordsTyped, ClusterTyped, KeyspaceTyped,
              CellTyped
<1> QED BY <1>1, <1>2, <1>3, <1>4, <1>5

LEMMA NextTyped == Typed /\ [Next]_vars => Typed'
<1> SUFFICES ASSUME Typed, [Next]_vars PROVE Typed'
  OBVIOUS
<1> USE DEF user, objects, records, passes
<1>1. CASE DeliverKeyspace
  BY <1>1, DeliverKeyspaceSeen
  DEF DeliverKeyspace, Typed, UserTyped, ObjectsTyped, RecordsTyped, ClusterTyped, KeyspaceTyped,
      CellTyped
<1>2. CASE DeliverCell
  BY <1>2, DeliverCellSeen
  DEF DeliverCell, Typed, UserTyped, ObjectsTyped, RecordsTyped, ClusterTyped, KeyspaceTyped, CellTyped
<1>3. CASE Edit
  <2>1. wanted' \in (SUBSET Shards) \cup {None} /\ wantCell' \in BOOLEAN
    <3>1. CASE wantCell' = ~wantCell /\ wanted' = wanted
      BY <3>1 DEF Typed, UserTyped
    <3>2. CASE wanted' \in (SUBSET Shards) \cup {None} /\ wantCell' = wantCell
      BY <3>2 DEF Typed, UserTyped
    <3> QED BY <1>3, <3>1, <3>2 DEF Edit
  <2>2. edits' \in Nat /\ policy' = policy /\ moves' = moves /\ troubles' = troubles
    BY <1>3 DEF Edit, Typed, UserTyped
  <2>3. UserTyped'
    BY <2>1, <2>2 DEF Typed, UserTyped
  <2> QED BY <1>3, <2>3
          DEF Edit, Typed, ObjectsTyped, SeenTyped, RecordsTyped, ClusterTyped, KeyspaceTyped, CellTyped
<1>4. CASE UNCHANGED vars
  BY <1>4
  DEF vars, Typed, UserTyped, ObjectsTyped, SeenTyped, RecordsTyped, ClusterTyped, KeyspaceTyped,
      CellTyped
<1> QED BY <1>1, <1>2, <1>3, <1>4, ControllersTyped, ShardStepTyped DEF Next

\* What the objects, the caches and the passes hold fits; no pass takes for an
\* orphan what the spec it works on still wants (OrphanStatus).
THEOREM TurndownTypes == Spec => []TypeOK
BY InitTyped, NextTyped, TypedIsTypeOK, PTL DEF Spec

-----------------------------------------------------------------------------
(* What a patient user can rely on.  The caches, the passes under way and    *)
(* the statuses lag behind what the user has asked for since; what saves a   *)
(* serving shard is that every copy of it errs on the same side.             *)

Asked(s) == wanted # None /\ s \in wanted
Listed(s) == seen.vtk # None /\ s \in seen.vtk.shards
Deployed(s) == Asked(s) /\ s \in vtk.shards /\ Listed(s)

\* A keyspace that was added again starts from nothing.
Clean ==
  vtk = None /\ wanted # None =>
    seen.vtk = None /\ \A s \in Shards : vts[s] = None /\ seen.vts[s] = None

\* A keyspace that was removed is seen as it is, with a status that is true.
Removed == wanted = None /\ vtk # None => seen.vtk = vtk /\ vtk.idle = Truth(vtk.shards = {})

Owned ==
  vtk # None => /\ seen.vtk # None => seen.vtk.uid = vtk.uid
                /\ \A s \in Shards : vts[s] # None => vts[s].owner = vtk.uid

\* A shard on its way out was there, and was seen to be, when it was removed.
Lagging ==
  vtk # None => \A s \in Shards :
    /\ s \in vtk.shards /\ ~Asked(s) => Listed(s)
    /\ Listed(s) /\ ~Deployed(s) => vts[s] # None /\ seen.vts[s] # None

\* A shard on its way out that serves, or is known to, is not seen as idle.
Guarded ==
  vtk # None => \A s \in Shards : vts[s] # None /\ ~Deployed(s) =>
    /\ s \in serving \/ vts[s].idle = "False" => seen.vts[s] # None /\ seen.vts[s].idle # "True"
    /\ s \in serving => vts[s].idle # "True"

\* What the pass of the cluster controller remembers still holds.
ClusterRemembers ==
  cluster # None /\ vtk # None =>
    (cluster.wanted = None =>
       /\ wanted = None
       /\ "keyspace" \in (cluster.orphans \cup cluster.missed) <=> ~MayDeleteKeyspace(vtk))

\* A shard that the pass of the keyspace controller has read, and takes for gone,
\* is not busy.
KeyspaceRemembers ==
  keyspace # None /\ vtk # None =>
    \A s \in Shards \ (keyspace.obj.shards \cup keyspace.orphans \cup keyspace.missed) :
      vts[s] # None => s \notin serving /\ vts[s].idle # "False"

Safe == /\ Clean /\ Removed /\ Owned /\ Lagging /\ Guarded
        /\ ClusterRemembers /\ KeyspaceRemembers

LEMMA InitSafe == Init => Safe
<1> SUFFICES ASSUME Init PROVE Safe
  OBVIOUS
<1>1. /\ vtk = [uid |-> 0, shards |-> wanted, idle |-> Truth(wanted = {})]
      /\ seen.vtk = vtk /\ seen.vts = vts /\ serving = wanted
      /\ cluster = None /\ keyspace = None
  BY DEF Init
<1>2. \A s \in Shards : vts[s] = IF s \in wanted THEN [uid |-> 0, owner |-> 0, idle |-> "False"]
                                 ELSE None
  BY DEF Init
<1>3. vtk # None
  <2>1. Typed
    BY InitTyped
  <2>2. wanted \in SUBSET Shards
    BY TurndownAssumption DEF Init
  <2>3. vtk \in VitessKeyspaces
    BY <1>1, <2>2 DEF VitessKeyspaces, Truth, Conditions
  <2> QED BY <2>3, TurndownAssumption DEF VitessKeyspaces
<1>4. vtk.uid = 0 /\ vtk.shards = wanted /\ vtk.idle = Truth(wanted = {})
  BY <1>1
<1>5. \A s \in Shards : vts[s] # None => s \in wanted /\ vts[s].owner = 0 /\ vts[s].idle = "False"
  BY <1>2
<1>6. \A s \in Shards : s \in wanted => vts[s] # None
  <2>1. [uid |-> 0, owner |-> 0, idle |-> "False"] \in VitessShards
    BY DEF VitessShards, Conditions
  <2> QED BY <1>2, <2>1, TurndownAssumption DEF VitessShards
<1>7. Clean /\ Removed /\ Owned
  BY <1>1, <1>3, <1>4, <1>5 DEF Clean, Removed, Owned
<1>8. Lagging
  BY <1>1, <1>3, <1>4, <1>6 DEF Lagging, Listed
<1>9. Guarded
  BY <1>1, <1>5 DEF Guarded
<1> QED BY <1>1, <1>7, <1>8, <1>9 DEF Safe, ClusterRemembers, KeyspaceRemembers

\* The steps that touch neither the spec nor the objects and copies of the
\* keyspace and its shards: less serves, or a pass ends.
LEMMA OtherStepsSafe ==
  ASSUME Safe,
         UNCHANGED <<policy, wanted, vtk, vts>>, seen'.vtk = seen.vtk, seen'.vts = seen.vts,
         serving' \subseteq serving,
         cluster' \in {cluster, None}, keyspace' \in {keyspace, None}
  PROVE  Safe'
<1>1. Clean' /\ Removed' /\ Owned'
  BY DEF Safe, Clean, Removed, Owned
<1>2. \A s : (Asked(s)' <=> Asked(s)) /\ (Listed(s)' <=> Listed(s)) /\ (Deployed(s)' <=> Deployed(s))
  BY DEF Asked, Listed, Deployed
<1>3. Lagging'
  BY <1>2 DEF Safe, Lagging
<1>4. Guarded'
  BY <1>2 DEF Safe, Guarded
<1>5. ClusterRemembers'
  BY DEF Safe, ClusterRemembers, MayDeleteKeyspace
<1>6. KeyspaceRemembers'
  BY DEF Safe, KeyspaceRemembers
<1> QED BY <1>1, <1>3, <1>4, <1>5, <1>6 DEF Safe

\* What the cluster controller does to the keyspace.
LEMMA ReconcileKeyspacesDoes ==
  ASSUME Typed, ReconcileKeyspaces
  PROVE  \/ vtk' = vtk
         \/ /\ vtk = None /\ seen.vtk = None /\ wanted # None
            /\ vtk' # None /\ vtk'.shards = wanted
         \/ /\ vtk # None /\ seen.vtk = vtk /\ wanted # None
            /\ vtk' # None /\ vtk'.uid = vtk.uid /\ vtk'.shards = wanted
         \/ /\ wanted = None /\ vtk # None /\ seen.vtk # None /\ MayDeleteKeyspace(seen.vtk)
            /\ vtk' = None
<1> DEFINE known == Uids({vtk} \cup Held(keyspace))
                    \cup {obj.owner : obj \in {vts[s] : s \in Shards} \ {None}}
           new == [uid |-> Fresh(known), shards |-> wanted, idle |-> "Unknown"]
           updated == [vtk EXCEPT !.shards = wanted]
<1>1. \/ wanted # None /\ seen.vtk = None /\ vtk = None /\ vtk' = new
      \/ wanted # None /\ seen.vtk # None /\ vtk = seen.vtk /\ vtk' = updated
      \/ /\ wanted = None /\ seen.vtk # None
         /\ MayDeleteKeyspace(seen.vtk) /\ Same(vtk, seen.vtk) /\ vtk' = None
      \/ vtk' = vtk
  BY DEF ReconcileKeyspaces
<1>2. new.shards = wanted
  OBVIOUS
<1> HIDE DEF new
<1>3. CASE wanted # None /\ seen.vtk = None /\ vtk = None /\ vtk' = new
  <2>1. vtk' # None
    BY <1>3, ReconcileKeyspacesTyped, TurndownAssumption DEF VitessKeyspaces
  <2> QED BY <1>2, <1>3, <2>1
<1>4. CASE wanted # None /\ seen.vtk # None /\ vtk = seen.vtk /\ vtk' = updated
  <2>1. vtk \in VitessKeyspaces
    BY <1>4 DEF Typed, ObjectsTyped, Object
  <2>2. updated \in VitessKeyspaces /\ updated.uid = vtk.uid /\ updated.shards = wanted
    BY <1>4, <2>1 DEF Typed, UserTyped, VitessKeyspaces
  <2> QED BY <1>4, <2>2, TurndownAssumption DEF VitessKeyspaces
<1> QED BY <1>1, <1>3, <1>4 DEF Same

LEMMA ClusterObjectsSafe ==
  ASSUME Typed, Safe, ClusterObjects
  PROVE  Safe'
<1> USE DEF user, objects, records, passes
<1>1. /\ UNCHANGED <<policy, wanted, vts, seen, serving, keyspace>>
      /\ vtk' = vtk \/ ReconcileKeyspaces
  BY DEF ClusterObjects
<1>2. /\ cluster'.wanted = wanted
      /\ "keyspace" \in (cluster'.orphans \cup cluster'.missed) <=>
           wanted = None /\ seen.vtk # None /\ ~MayDeleteKeyspace(seen.vtk)
  <2>1. PICK unread \in SUBSET {"cell", "keyspace"} :
          cluster' = [wanted |-> wanted, wantCell |-> wantCell,
                      orphans |-> ClusterOrphans \ unread, missed |-> ClusterOrphans \cap unread]
    BY DEF ClusterObjects
  <2>2. /\ cluster'.wanted = wanted
        /\ cluster'.orphans \cup cluster'.missed = ClusterOrphans
    BY <2>1
  <2> QED BY <2>2 DEF ClusterOrphans
<1>3. \A s : (Asked(s)' <=> Asked(s)) /\ (Listed(s)' <=> Listed(s))
  BY <1>1 DEF Asked, Listed
<1>4. CASE vtk' = vtk
  <2>1. Clean' /\ Removed' /\ Owned'
    BY <1>1, <1>4 DEF Safe, Clean, Removed, Owned
  <2>2. \A s : Deployed(s)' <=> Deployed(s)
    BY <1>3, <1>4 DEF Deployed
  <2>3. Lagging'
    BY <1>1, <1>3, <1>4, <2>2 DEF Safe, Lagging
  <2>4. Guarded'
    BY <1>1, <1>4, <2>2 DEF Safe, Guarded
  <2>5. ClusterRemembers'
    BY <1>1, <1>2, <1>4 DEF Safe, Removed, ClusterRemembers, MayDeleteKeyspace
  <2>6. KeyspaceRemembers'
    BY <1>1, <1>4 DEF Safe, KeyspaceRemembers
  <2> QED BY <2>1, <2>3, <2>4, <2>5, <2>6 DEF Safe
<1>5. CASE /\ vtk = None /\ seen.vtk = None /\ wanted # None
           /\ vtk' # None /\ vtk'.shards = wanted
  <2>1. \A s \in Shards : vts[s] = None
    BY <1>5 DEF Safe, Clean
  <2>2. Clean' /\ Removed' /\ Owned' /\ Guarded' /\ KeyspaceRemembers' /\ ClusterRemembers'
    BY <1>1, <1>2, <1>5, <2>1
    DEF Clean, Removed, Owned, Guarded, KeyspaceRemembers, ClusterRemembers
  <2>3. Lagging'
    BY <1>1, <1>5 DEF Lagging, Asked, Listed
  <2> QED BY <2>2, <2>3 DEF Safe
<1>6. CASE /\ vtk # None /\ seen.vtk = vtk /\ wanted # None
           /\ vtk' # None /\ vtk'.uid = vtk.uid /\ vtk'.shards = wanted
  <2>1. Clean' /\ Removed' /\ Owned' /\ ClusterRemembers'
    BY <1>1, <1>2, <1>6 DEF Safe, Clean, Removed, Owned, ClusterRemembers
  <2>2. \A s : Deployed(s)' <=> Deployed(s)
    BY <1>1, <1>6 DEF Asked, Listed, Deployed
  <2>3. Lagging'
    BY <1>1, <1>3, <1>6, <2>2 DEF Safe, Lagging, Asked
  <2>4. Guarded'
    BY <1>1, <1>6, <2>2 DEF Safe, Guarded
  <2>5. KeyspaceRemembers'
    BY <1>1, <1>6 DEF Safe, KeyspaceRemembers
  <2> QED BY <2>1, <2>3, <2>4, <2>5 DEF Safe
<1>7. CASE wanted = None /\ vtk' = None
  BY <1>1, <1>7
  DEF Safe, Clean, Removed, Owned, Lagging, Guarded, ClusterRemembers, KeyspaceRemembers
<1> QED BY <1>1, <1>4, <1>5, <1>6, <1>7, ReconcileKeyspacesDoes

LEMMA KeyspaceObjectsSafe ==
  ASSUME Typed, Safe, KeyspaceObjects
  PROVE  Safe'
<1> USE DEF user, objects, records, passes
<1>1. /\ UNCHANGED <<policy, wanted, vtk, seen, serving, cluster>>
      /\ seen.vtk # None
  BY DEF KeyspaceObjects
<1>2. seen.vtk \in VitessKeyspaces
  BY <1>1 DEF Typed, SeenTyped, Object
<1>3. \A s \in Shards :
        \/ vts'[s] = vts[s]
        \/ /\ vts[s] = None /\ seen.vts[s] = None /\ s \in seen.vtk.shards
           /\ vts'[s] # None /\ vts'[s].owner = seen.vtk.uid /\ vts'[s].idle = "Unknown"
        \/ /\ vts'[s] = None /\ s \notin seen.vtk.shards
           /\ seen.vts[s] # None /\ MayDelete(seen.vts[s])
  <2>1. PICK lost : ReconcileShards(seen.vtk, lost)
    BY DEF KeyspaceObjects
  <2>2. \A obj \in VitessShards : obj # None
    BY TurndownAssumption DEF VitessShards
  <2> QED BY <1>2, <2>1, <2>2, ReconcileShardsDoes
<1>4. \A s : /\ (Asked(s)' <=> Asked(s)) /\ (Listed(s)' <=> Listed(s))
             /\ (Deployed(s)' <=> Deployed(s))
  BY <1>1 DEF Asked, Listed, Deployed
<1>5. Clean' /\ Removed' /\ ClusterRemembers'
  BY <1>1 DEF Safe, Clean, Removed, ClusterRemembers, MayDeleteKeyspace
<1>6. Owned'
  BY <1>1, <1>3 DEF Safe, Owned
<1>7. Lagging'
  <2> SUFFICES ASSUME vtk # None, NEW s \in Shards, Listed(s), ~Deployed(s) PROVE vts'[s] # None
    BY <1>1, <1>4 DEF Safe, Lagging
  <2> QED BY <1>3 DEF Safe, Lagging, Listed
<1>8. Guarded'
  <2> SUFFICES ASSUME vtk # None, NEW s \in Shards, vts'[s] # None, ~Deployed(s)
               PROVE  vts'[s] = vts[s]
    BY <1>1, <1>4 DEF Safe, Guarded
  <2>1. CASE vts[s] = None /\ seen.vts[s] = None /\ s \in seen.vtk.shards
    BY <1>1, <2>1 DEF Safe, Lagging, Listed
  <2> QED BY <1>3, <2>1
<1>9. KeyspaceRemembers'
  <2>1. /\ keyspace'.obj = seen.vtk
        /\ keyspace'.orphans \cup keyspace'.missed =
             {s \in Shards \ seen.vtk.shards : seen.vts[s] # None /\ ~MayDelete(seen.vts[s])}
    <3>1. PICK unread \in SUBSET Shards :
            keyspace' = [obj |-> seen.vtk, orphans |-> KeyspaceOrphans \ unread,
                         missed |-> KeyspaceOrphans \cap unread]
      BY DEF KeyspaceObjects
    <3>2. /\ keyspace'.obj = seen.vtk
          /\ keyspace'.orphans \cup keyspace'.missed = KeyspaceOrphans
      BY <3>1
    <3> QED BY <3>2 DEF KeyspaceOrphans
  <2> SUFFICES ASSUME vtk # None, NEW s \in Shards, vts'[s] # None, s \notin seen.vtk.shards,
                      seen.vts[s] # None => MayDelete(seen.vts[s])
               PROVE  s \notin serving /\ vts'[s].idle # "False"
    BY <1>1, <2>1 DEF KeyspaceRemembers
  <2>2. vts'[s] = vts[s] /\ ~Deployed(s)
    BY <1>3 DEF Deployed, Listed
  <2> QED BY <2>2 DEF Safe, Guarded, MayDelete
<1> QED BY <1>5, <1>6, <1>7, <1>8, <1>9 DEF Safe

LEMMA KeyspaceTopologySafe ==
  ASSUME Typed, Safe, KeyspaceTopology
  PROVE  Safe'
<1> USE DEF user, objects, records, passes
<1>1. /\ UNCHANGED <<policy, wanted, vts, seen, serving, cluster>> /\ keyspace' = None
      /\ vtk' = vtk \/ (vtk = keyspace.obj /\ vtk' = [vtk EXCEPT !.idle = Truth(vtk.shards = {})])
  BY DEF KeyspaceTopology, KeyspaceStatus
<1>2. CASE vtk' = vtk
  BY <1>1, <1>2, OtherStepsSafe
<1>3. CASE vtk = keyspace.obj /\ vtk' = [vtk EXCEPT !.idle = Truth(vtk.shards = {})]
  <2>1. vtk \in VitessKeyspaces
    BY <1>3 DEF KeyspaceTopology, Typed, KeyspaceTyped
  <2>2. /\ vtk # None /\ vtk' # None /\ vtk'.uid = vtk.uid /\ vtk'.shards = vtk.shards
        /\ vtk'.idle = Truth(vtk.shards = {})
    <3>1. vtk' \in VitessKeyspaces
      BY <1>3, <2>1 DEF VitessKeyspaces, Truth, Conditions
    <3> QED BY <1>3, <2>1, <3>1, TurndownAssumption DEF VitessKeyspaces
  <2>3. wanted = None => vtk' = vtk
    <3> SUFFICES ASSUME wanted = None PROVE vtk' = vtk
      OBVIOUS
    <3>1. vtk.idle = Truth(vtk.shards = {})
      BY <2>2 DEF Safe, Removed
    <3> QED BY <1>3, <2>1, <3>1 DEF VitessKeyspaces
  <2>4. \A s : /\ (Asked(s)' <=> Asked(s)) /\ (Listed(s)' <=> Listed(s))
               /\ (Deployed(s)' <=> Deployed(s))
    BY <1>1, <2>2 DEF Asked, Listed, Deployed
  <2>5. Clean'
    BY <1>1, <2>2, <2>3 DEF Safe, Clean
  <2>6. Removed' /\ Owned'
    BY <1>1, <2>2, <2>3 DEF Safe, Removed, Owned
  <2>7. Lagging'
    BY <1>1, <2>2, <2>4 DEF Safe, Lagging
  <2>8. Guarded'
    BY <1>1, <2>2, <2>4 DEF Safe, Guarded
  <2>9. ClusterRemembers' /\ KeyspaceRemembers'
    BY <1>1, <2>2, <2>3 DEF Safe, ClusterRemembers, KeyspaceRemembers, MayDeleteKeyspace
  <2> QED BY <2>5, <2>6, <2>7, <2>8, <2>9 DEF Safe
<1> QED BY <1>1, <1>2, <1>3

LEMMA ShardPassSafe ==
  ASSUME Typed, Safe, NEW s \in Shards, ShardPass(s)
  PROVE  Safe'
<1> USE DEF user, objects, records, passes
<1>1. /\ UNCHANGED <<policy, wanted, vtk, seen, serving, cluster, keyspace>>
      /\ vts[s] # None /\ seen.vts[s] = vts[s]
  BY DEF ShardPass
<1>2. /\ vts'[s] # None /\ vts'[s].owner = vts[s].owner
      /\ vts'[s].idle \in {"Unknown", Truth(s \notin serving)}
      /\ \A r \in Shards \ {s} : vts'[r] = vts[r]
  <2>1. PICK lost : vts' = [vts EXCEPT ![s].idle = ShardIdle(s, lost)]
    BY DEF ShardPass
  <2>2. vts[s] \in VitessShards /\ vts \in [Shards -> Object(VitessShards)]
    BY <1>1 DEF Typed, ObjectsTyped, Object
  <2> DEFINE new == [vts[s] EXCEPT !.idle = ShardIdle(s, lost)]
  <2>3. new \in VitessShards /\ new.owner = vts[s].owner /\ new.idle = ShardIdle(s, lost)
    BY <2>2 DEF VitessShards, ShardIdle, Truth, Conditions
  <2>4. vts' = [vts EXCEPT ![s] = new]
    BY <2>1, <2>2
  <2> HIDE DEF new
  <2>5. vts'[s] = new /\ \A r \in Shards \ {s} : vts'[r] = vts[r]
    BY <2>2, <2>4
  <2>6. new # None
    BY <2>3, TurndownAssumption DEF VitessShards
  <2> QED BY <2>3, <2>5, <2>6 DEF ShardIdle
<1>3. \A r : /\ (Asked(r)' <=> Asked(r)) /\ (Listed(r)' <=> Listed(r))
             /\ (Deployed(r)' <=> Deployed(r))
  BY <1>1 DEF Asked, Listed, Deployed
<1>4. \A r \in Shards : /\ vts'[r] = None <=> vts[r] = None
                        /\ vts'[r].owner = vts[r].owner
  BY <1>1, <1>2
<1>5. Clean' /\ Removed' /\ ClusterRemembers'
  BY <1>1, <1>4 DEF Safe, Clean, Removed, ClusterRemembers, MayDeleteKeyspace
<1>6. Owned'
  BY <1>1, <1>4 DEF Safe, Owned
<1>7. Lagging'
  BY <1>1, <1>3, <1>4 DEF Safe, Lagging
<1>8. Guarded'
  <2> SUFFICES ASSUME vtk # None, NEW r \in Shards, vts'[r] # None, ~Deployed(r)
               PROVE  /\ r \in serving \/ vts'[r].idle = "False" =>
                           seen.vts[r] # None /\ seen.vts[r].idle # "True"
                      /\ r \in serving => vts'[r].idle # "True"
    BY <1>1, <1>3 DEF Guarded
  <2>1. CASE r = s
    <3>1. vts'[r].idle = "False" => r \in serving
      BY <1>2, <2>1 DEF Truth
    <3>2. r \in serving => vts'[r].idle # "True"
      BY <1>2, <2>1 DEF Truth
    <3>3. vts[r] # None
      BY <1>4
    <3> QED BY <3>1, <3>2, <3>3 DEF Safe, Guarded
  <2>2. CASE r # s
    BY <1>2, <2>2 DEF Safe, Guarded
  <2> QED BY <2>1, <2>2
<1>9. KeyspaceRemembers'
  <2> SUFFICES ASSUME keyspace # None, vtk # None,
                      NEW r \in Shards \ (keyspace.obj.shards \cup keyspace.orphans
                                         \cup keyspace.missed),
                      vts'[r] # None
               PROVE  r \notin serving /\ vts'[r].idle # "False"
    BY <1>1 DEF KeyspaceRemembers
  <2>1. r \notin serving /\ vts[r].idle # "False"
    BY <1>4 DEF Safe, KeyspaceRemembers
  <2> QED BY <1>2, <2>1 DEF Truth
<1> QED BY <1>5, <1>6, <1>7, <1>8, <1>9 DEF Safe

LEMMA DeliverSafe ==
  ASSUME Typed, Safe, DeliverKeyspace \/ \E s \in Shards : DeliverShard(s)
  PROVE  Safe'
<1> USE DEF user, objects, records, passes
<1>1. UNCHANGED <<policy, wanted, vtk, vts, serving, cluster, keyspace>>
  BY DEF DeliverKeyspace, DeliverShard
<1>2. ClusterRemembers' /\ KeyspaceRemembers'
  BY <1>1 DEF Safe, ClusterRemembers, KeyspaceRemembers, MayDeleteKeyspace
<1>3. \A s : Asked(s)' <=> Asked(s)
  BY <1>1 DEF Asked
<1>4. CASE DeliverKeyspace
  <2>1. seen'.vtk = vtk /\ seen'.vts = seen.vts
    BY <1>4, DeliverKeyspaceSeen
  <2>2. Clean' /\ Removed' /\ Owned'
    BY <1>1, <2>1 DEF Safe, Clean, Removed, Owned
  <2>3. \A s \in Shards : vtk # None =>
          /\ Listed(s)' <=> s \in vtk.shards
          /\ ~Deployed(s)' => ~Deployed(s)
    BY <1>1, <1>3, <2>1 DEF Listed, Deployed
  <2>4. Lagging'
    <3> SUFFICES ASSUME vtk # None, NEW s \in Shards, s \in vtk.shards, ~Deployed(s)'
                 PROVE  vts[s] # None /\ seen.vts[s] # None
      BY <1>1, <1>3, <2>1, <2>3 DEF Lagging
    <3>1. ~Asked(s)
      BY <1>1, <1>3, <2>3 DEF Deployed
    <3> QED BY <2>3, <3>1 DEF Safe, Lagging
  <2>5. Guarded'
    BY <1>1, <2>1, <2>3 DEF Safe, Guarded
  <2> QED BY <1>2, <2>2, <2>4, <2>5 DEF Safe
<1>5. ASSUME NEW s \in Shards, DeliverShard(s) PROVE Safe'
  <2>1. /\ seen'.vtk = seen.vtk
        /\ seen'.vts[s] = vts[s] /\ \A r \in Shards \ {s} : seen'.vts[r] = seen.vts[r]
    BY <1>5, DeliverShardSeen
  <2>2. \A r : (Listed(r)' <=> Listed(r)) /\ (Deployed(r)' <=> Deployed(r))
    BY <1>1, <1>3, <2>1 DEF Listed, Deployed
  <2>3. Clean' /\ Owned'
    BY <1>1, <2>1 DEF Safe, Clean, Owned
  <2>4. Removed'
    BY <1>1, <2>1 DEF Safe, Removed
  <2>5. Lagging'
    <3> SUFFICES ASSUME vtk # None, NEW r \in Shards
                 PROVE  /\ r \in vtk.shards /\ ~Asked(r) => Listed(r)
                        /\ Listed(r) /\ ~Deployed(r) => vts[r] # None /\ seen'.vts[r] # None
      BY <1>1, <1>3, <2>2 DEF Lagging
    <3> QED BY <2>1 DEF Safe, Lagging
  <2>6. Guarded'
    <3> SUFFICES ASSUME vtk # None, NEW r \in Shards, vts[r] # None, ~Deployed(r)
                 PROVE  /\ r \in serving \/ vts[r].idle = "False" =>
                             seen'.vts[r] # None /\ seen'.vts[r].idle # "True"
                        /\ r \in serving => vts[r].idle # "True"
      BY <1>1, <2>2 DEF Guarded
    <3>1. CASE r = s
      BY <2>1, <3>1 DEF Safe, Guarded
    <3>2. CASE r # s
      BY <2>1, <3>2 DEF Safe, Guarded
    <3> QED BY <3>1, <3>2
  <2> QED BY <1>2, <2>3, <2>4, <2>5, <2>6 DEF Safe
<1> QED BY <1>4, <1>5

LEMMA CollectShardSafe ==
  ASSUME Safe, NEW s \in Shards, CollectShard(s)
  PROVE  vtk = None /\ Safe'
<1>1. UNCHANGED <<wanted, vtk, seen>> /\ vts[s] # None /\ ~(vtk # None /\ vtk.uid = vts[s].owner)
  BY DEF CollectShard, user
<1>2. vtk = None
  BY <1>1 DEF Safe, Owned
<1>3. wanted = None
  BY <1>1, <1>2 DEF Safe, Clean
<1> QED BY <1>1, <1>2, <1>3
        DEF Safe, Clean, Removed, Owned, Lagging, Guarded, ClusterRemembers, KeyspaceRemembers

\* A patient user only takes away what the statuses are true of.
LEMMA EditSafe ==
  ASSUME Typed, Safe, Patient, Edit
  PROVE  Safe'
<1> USE DEF objects, records, passes
<1>1. UNCHANGED <<policy, vtk, vts, seen, serving, cluster, keyspace>>
  BY DEF Edit
<1>2. \A s : Listed(s)' <=> Listed(s)
  BY <1>1 DEF Listed
<1>3. KeyspaceRemembers'
  BY <1>1 DEF Safe, KeyspaceRemembers
<1>4. CASE wanted' = wanted
  BY <1>1, <1>4, OtherStepsSafe
<1>5. CASE wanted # None /\ wanted' # None /\ wanted \subseteq wanted'
  <2>1. \A s : (Asked(s) => Asked(s)') /\ (~Deployed(s)' => ~Deployed(s))
    BY <1>1, <1>2, <1>5 DEF Asked, Deployed
  <2>2. Clean' /\ Removed' /\ Owned'
    BY <1>1, <1>5 DEF Safe, Clean, Removed, Owned
  <2>3. Lagging'
    BY <1>1, <1>2, <2>1 DEF Safe, Lagging
  <2>4. Guarded'
    BY <1>1, <2>1 DEF Safe, Guarded
  <2>5. ClusterRemembers'
    BY <1>1, <1>5 DEF Safe, ClusterRemembers
  <2> QED BY <1>3, <2>2, <2>3, <2>4, <2>5 DEF Safe
<1>6. CASE Settled /\ wanted = None
  <2>1. vtk = None /\ seen.vtk = None /\ \A s \in Shards : vts[s] = None /\ seen.vts[s] = None
    <3>1. seen.vtk = vtk /\ seen.vts = vts
      BY <1>6 DEF Settled
    <3> QED BY <1>6, <3>1 DEF Settled
  <2> QED BY <1>1, <1>3, <2>1
          DEF Safe, Clean, Removed, Owned, Lagging, Guarded, ClusterRemembers
<1>7. CASE Settled /\ wanted # None
  <2>1. /\ seen.vtk = vtk /\ seen.vts = vts
        /\ vtk # None /\ vtk.shards = wanted /\ vtk.idle = Truth(wanted = {})
        /\ \A s \in wanted : vts[s] # None
        /\ \A s \in Shards : vts[s] # None => vts[s].idle = Truth(s \notin serving)
    BY <1>7 DEF Settled
  <2>2. Clean' /\ Removed' /\ Owned'
    BY <1>1, <2>1 DEF Safe, Clean, Removed, Owned
  <2>3. Lagging'
    BY <1>1, <1>2, <2>1 DEF Lagging, Listed
  <2>4. Guarded'
    BY <1>1, <2>1 DEF Guarded, Truth
  <2>5. ClusterRemembers'
    BY <1>1, <1>7, <2>1 DEF Safe, ClusterRemembers
  <2> QED BY <1>3, <2>2, <2>3, <2>4, <2>5 DEF Safe
<1> QED BY <1>4, <1>5, <1>6, <1>7 DEF Edit

\* ... and only moves traffic to what has been deployed for a while.
LEMMA ServeSafe ==
  ASSUME Safe, Patient, NEW s \in Shards, Serve(s)
  PROVE  Safe'
<1>1. /\ UNCHANGED <<policy, wanted, vtk, vts, seen, cluster, keyspace>>
      /\ serving' = serving \cup {s}
      /\ keyspace # None => s \in keyspace.obj.shards
  BY DEF Serve, objects, passes
<1>2. Deployed(s)
  BY DEF Serve, Deployed, Asked, Listed
<1>3. \A r : /\ (Asked(r)' <=> Asked(r)) /\ (Listed(r)' <=> Listed(r))
             /\ (Deployed(r)' <=> Deployed(r))
  BY <1>1 DEF Asked, Listed, Deployed
<1>4. Clean' /\ Removed' /\ Owned' /\ ClusterRemembers'
  BY <1>1 DEF Safe, Clean, Removed, Owned, ClusterRemembers, MayDeleteKeyspace
<1>5. Lagging'
  BY <1>1, <1>3 DEF Safe, Lagging
<1>6. Guarded'
  BY <1>1, <1>2, <1>3 DEF Safe, Guarded
<1>7. KeyspaceRemembers'
  BY <1>1 DEF Safe, KeyspaceRemembers
<1> QED BY <1>4, <1>5, <1>6, <1>7 DEF Safe

LEMMA NextSafe ==
  ASSUME Patient, Typed, Safe, [Next]_vars
  PROVE  Safe'
<1> USE DEF user, objects, records, passes
<1>1. CASE ClusterTopology \/ CellKeyspaces \/ Restart
  <2>1. /\ UNCHANGED <<policy, wanted, vtk, vts, seen>> /\ serving' \subseteq serving
        /\ cluster' \in {cluster, None} /\ keyspace' \in {keyspace, None}
    BY <1>1 DEF ClusterTopology, PruneKeyspaces, CellKeyspaces, Restart
  <2> QED BY <2>1, OtherStepsSafe
<1>2. CASE CellPass
  <2>1. /\ UNCHANGED <<policy, wanted, vtk, vts, seen, cluster, keyspace>> /\ serving' \subseteq serving
    BY <1>2 DEF CellPass, PruneSrvKeyspaces
  <2> QED BY <2>1, OtherStepsSafe
<1>3. CASE DeliverCell
  <2>1. UNCHANGED <<policy, wanted, vtk, vts, serving, cluster, keyspace>>
    BY <1>3 DEF DeliverCell
  <2> QED BY <1>3, <2>1, DeliverCellSeen, OtherStepsSafe
<1>4. CASE UNCHANGED vars \/ \E s \in Shards : CollectTablets(s) \/ TabletsStart(s) \/ Unserve(s)
  <2>1. UNCHANGED <<policy, wanted, vtk, vts, seen, cluster, keyspace>> /\ serving' \subseteq serving
    BY <1>4 DEF CollectTablets, TabletsStart, Unserve, vars
  <2> QED BY <2>1, OtherStepsSafe
<1> QED BY <1>1, <1>2, <1>3, <1>4, ClusterObjectsSafe, KeyspaceObjectsSafe, KeyspaceTopologySafe,
           ShardPassSafe, DeliverSafe, CollectShardSafe, EditSafe, ServeSafe
        DEF Next, ClusterStep, KeyspaceStep, CellStep

LEMMA AlwaysSafe ==
  ASSUME Patient
  PROVE  Spec => [](Typed /\ Safe)
<1>1. Typed /\ Safe /\ [Next]_vars => Typed' /\ Safe'
  BY NextTyped, NextSafe
<1> QED BY InitTyped, InitSafe, <1>1, PTL DEF Spec

-----------------------------------------------------------------------------
(* Nothing that is still in use is deleted *)

\* The keyspace is not deleted while it has tablet pools: the only step that
\* deletes it is reconcileKeyspaces, and then its status is true.
LEMMA PopulatedKept ==
  ASSUME Typed, Safe, [Next]_vars,
         policy = "RequireIdle", vtk # None, vtk.shards # {}
  PROVE  vtk' # None
<1> USE DEF user, objects, records, passes
<1>1. CASE ClusterObjects
  <2>1. ~(wanted = None /\ seen.vtk # None /\ MayDeleteKeyspace(seen.vtk))
    BY DEF Safe, Removed, Truth, MayDeleteKeyspace, MayDelete
  <2> QED BY <1>1, <2>1, ReconcileKeyspacesDoes DEF ClusterObjects
<1>2. CASE KeyspaceTopology
  <2>1. CASE vtk' = vtk
    BY <2>1
  <2>2. CASE vtk = keyspace.obj /\ vtk' = [vtk EXCEPT !.idle = Truth(vtk.shards = {})]
    <3>1. vtk \in VitessKeyspaces
      BY <1>2, <2>2 DEF KeyspaceTopology, Typed, KeyspaceTyped
    <3>2. vtk' \in VitessKeyspaces
      BY <2>2, <3>1 DEF VitessKeyspaces, Truth, Conditions
    <3> QED BY <3>2, TurndownAssumption DEF VitessKeyspaces
  <2> QED BY <1>2, <2>1, <2>2 DEF KeyspaceTopology, KeyspaceStatus
<1>3. CASE UNCHANGED vtk
  BY <1>3
<1>4. \/ ClusterObjects \/ KeyspaceTopology \/ UNCHANGED vtk
  BY DEF Next, vars, ClusterStep, KeyspaceStep, CellStep, ClusterTopology, KeyspaceObjects,
         CellKeyspaces, CellPass, DeliverKeyspace, DeliverCell, Edit, Restart, ShardPass, DeliverShard,
         CollectShard, CollectTablets, TabletsStart, Serve, Unserve
<1> QED BY <1>1, <1>2, <1>3, <1>4

\* A VitessShard is deleted by reconcileShards or by the garbage collector.
LEMMA WhoDeletesShards ==
  ASSUME Typed, [Next]_vars, NEW s \in Shards, vts[s] # None, vts'[s] = None
  PROVE  \/ CollectShard(s)
         \/ KeyspaceObjects /\ ~Listed(s) /\ seen.vts[s] # None /\ MayDelete(seen.vts[s])
<1> USE DEF user, objects, records, passes
<1>1. ASSUME NEW r \in Shards, ShardPass(r) PROVE FALSE
  <2>1. vts[r] \in VitessShards /\ vts \in [Shards -> Object(VitessShards)]
    BY <1>1 DEF ShardPass, Typed, ObjectsTyped, Object
  <2>2. PICK lost : vts' = [vts EXCEPT ![r].idle = ShardIdle(r, lost)]
    BY <1>1 DEF ShardPass
  <2> DEFINE new == [vts[r] EXCEPT !.idle = ShardIdle(r, lost)]
  <2>3. new \in VitessShards
    BY <2>1 DEF VitessShards, ShardIdle, Truth, Conditions
  <2>4. vts' = [vts EXCEPT ![r] = new]
    BY <2>1, <2>2
  <2>5. new # None
    BY <2>3, TurndownAssumption DEF VitessShards
  <2> HIDE DEF new
  <2> QED BY <2>1, <2>4, <2>5
<1>2. ASSUME NEW r \in Shards, CollectShard(r) PROVE CollectShard(s)
  BY <1>2 DEF CollectShard, Typed, ObjectsTyped
<1>3. CASE KeyspaceObjects
  <2>1. seen.vtk \in VitessKeyspaces
    BY <1>3 DEF KeyspaceObjects, Typed, SeenTyped, Object
  <2>2. PICK lost : ReconcileShards(seen.vtk, lost)
    BY <1>3 DEF KeyspaceObjects
  <2> QED BY <1>3, <2>1, <2>2, ReconcileShardsDoes DEF Listed
<1>4. \/ KeyspaceObjects \/ UNCHANGED vts
      \/ \E r \in Shards : ShardPass(r) \/ CollectShard(r)
  BY DEF Next, vars, ClusterStep, KeyspaceStep, CellStep, ClusterObjects, ClusterTopology,
         KeyspaceTopology, CellKeyspaces, CellPass, DeliverKeyspace, DeliverCell, Edit, Restart,
         DeliverShard, CollectTablets, TabletsStart, Serve, Unserve
<1> QED BY <1>1, <1>2, <1>3, <1>4

\* Records go in PruneKeyspaces and PruneShards.
LEMMA WhoDeletesRecords ==
  ASSUME [Next]_vars
  PROVE  \/ /\ keyspaceRecord => keyspaceRecord'
            /\ shardRecords \subseteq shardRecords'
         \/ /\ ClusterTopology /\ cluster # None
            /\ cluster.wanted = None /\ "keyspace" \notin cluster.orphans
         \/ /\ KeyspaceTopology /\ UNCHANGED keyspaceRecord
            /\ \A s \in shardRecords \ shardRecords' :
                 s \notin keyspace.obj.shards \cup keyspace.orphans \cup serving
<1> USE DEF user, objects, records, passes
<1>1. CASE ClusterTopology
  BY <1>1 DEF ClusterTopology, PruneKeyspaces
<1>2. CASE KeyspaceTopology
  BY <1>2 DEF KeyspaceTopology, PruneShards
<1>3. CASE UNCHANGED vars
  BY <1>3 DEF vars
<1>4. CASE Next /\ ~ClusterTopology /\ ~KeyspaceTopology
  BY <1>4
  DEF Next, ClusterStep, KeyspaceStep, CellStep, ClusterObjects, KeyspaceObjects,
      CellKeyspaces, CellPass, DeliverKeyspace, DeliverCell, Edit, Restart, ShardPass, DeliverShard,
      CollectShard, CollectTablets, TabletsStart, Serve, Unserve
<1> QED BY <1>1, <1>2, <1>3, <1>4

\* The cluster controller prunes the records of a keyspace that it has read when
\* it may go only.
LEMMA PrunedMayGo ==
  ASSUME Safe, vtk # None, ClusterTopology, cluster # None, cluster.wanted = None,
         "keyspace" \notin cluster.orphans, ~ForgetsKeyspace
  PROVE  /\ wanted = None /\ MayDeleteKeyspace(vtk)
         /\ policy = "RequireIdle" => vtk.shards = {}
<1>1. wanted = None /\ MayDeleteKeyspace(vtk)
  BY DEF Safe, ClusterRemembers, ForgetsKeyspace
<1>2. vtk.idle = Truth(vtk.shards = {})
  BY <1>1 DEF Safe, Removed
<1> QED BY <1>1, <1>2 DEF MayDeleteKeyspace, MayDelete, Truth

LEMMA ServingKept ==
  ASSUME Patient, Typed, Safe, [Next]_vars,
         vtk # None, vtk.shards # {}, wanted # None \/ policy = "RequireIdle",
         NEW s \in serving
  PROVE  /\ vts[s] # None => vts'[s] # None
         /\ s \in shardRecords => s \in shardRecords' \/ ForgetsKeyspace
<1>1. s \in Shards
  BY DEF Typed, RecordsTyped
<1>2. ASSUME vts[s] # None, vts'[s] = None PROVE FALSE
  <2>1. CASE CollectShard(s)
    BY <1>1, <2>1, CollectShardSafe
  <2>2. CASE ~Listed(s) /\ seen.vts[s] # None /\ MayDelete(seen.vts[s])
    BY <1>1, <1>2, <2>2 DEF Safe, Guarded, Deployed, MayDelete
  <2> QED BY <1>1, <1>2, <2>1, <2>2, WhoDeletesShards
<1>3. s \in shardRecords => s \in shardRecords' \/ ForgetsKeyspace
  BY PrunedMayGo, WhoDeletesRecords
<1> QED BY <1>2, <1>3

LEMMA OrphansKept ==
  ASSUME Typed, Safe, [Next]_vars, vtk # None, ~MayDeleteKeyspace(vtk)
  PROVE  /\ keyspaceRecord => keyspaceRecord' \/ ForgetsKeyspace
         /\ \A s \in shardRecords \ shardRecords' :
              vts[s] = None \/ vts[s].idle # "False" \/ ForgetsKeyspace \/ ForgetsShard(s)
<1>1. CASE (keyspaceRecord => keyspaceRecord') /\ shardRecords \subseteq shardRecords'
  BY <1>1
<1>2. CASE /\ KeyspaceTopology /\ UNCHANGED keyspaceRecord
           /\ \A s \in shardRecords \ shardRecords' :
                s \notin keyspace.obj.shards \cup keyspace.orphans \cup serving
  <2> SUFFICES ASSUME NEW s \in shardRecords \ shardRecords', vts[s] # None, ~ForgetsShard(s)
               PROVE  vts[s].idle # "False"
    BY <1>2
  <2>1. keyspace # None
    BY <1>2 DEF KeyspaceTopology
  <2>2. s \in Shards \ (keyspace.obj.shards \cup keyspace.orphans \cup keyspace.missed)
    BY <1>2, <2>1 DEF ForgetsShard, Typed, RecordsTyped
  <2> QED BY <2>1, <2>2 DEF Safe, KeyspaceRemembers
<1> QED BY <1>1, <1>2, PrunedMayGo, WhoDeletesRecords

\* For a user who waits for what the statuses say, however many edits, moves of
\* traffic, failing calls and restarts there are: a keyspace that may only go
\* when it is idle is not deleted while it has tablet pools.
THEOREM PopulatedKeyspacesStay ==
  ASSUME Patient
  PROVE  Spec => PopulatedKeyspaceKept
<1>1. Typed /\ Safe /\ [Next]_vars
      => [policy = "RequireIdle" /\ vtk # None /\ vtk.shards # {} => vtk' # None]_vars
  BY PopulatedKept
<1>2. Spec => [](Typed /\ Safe)
  BY AlwaysSafe
<1> QED BY <1>1, <1>2, PTL DEF Spec, PopulatedKeyspaceKept

\* ... a shard that serves traffic keeps its VitessShard and, unless the pass that
\* prunes failed to read the VitessKeyspace, its record, whatever the caches showed
\* of it when its parents' passes began.
THEOREM ServingShardsStay ==
  ASSUME Patient
  PROVE  Spec => ServingShardKept
<1>1. Typed /\ Safe /\ [Next]_vars
      => [vtk # None /\ vtk.shards # {} /\ (wanted # None \/ policy = "RequireIdle") =>
            \A s \in serving : /\ vts[s] # None => vts'[s] # None
                               /\ s \in shardRecords => s \in shardRecords' \/ ForgetsKeyspace]_vars
  BY ServingKept
<1>2. Spec => [](Typed /\ Safe)
  BY AlwaysSafe
<1> QED BY <1>1, <1>2, PTL DEF Spec, ServingShardKept

\* ... and what is kept although it is no longer wanted keeps its records, unless
\* the pass that prunes failed to read it.
THEOREM OrphansStayRecorded ==
  ASSUME Patient
  PROVE  Spec => OrphansKeepRecords
<1>1. Typed /\ Safe /\ [Next]_vars
      => [vtk # None /\ ~MayDeleteKeyspace(vtk) =>
            /\ keyspaceRecord => keyspaceRecord' \/ ForgetsKeyspace
            /\ \A s \in shardRecords \ shardRecords' :
                 vts[s] = None \/ vts[s].idle # "False" \/ ForgetsKeyspace \/ ForgetsShard(s)]_vars
  BY OrphansKept
<1>2. Spec => [](Typed /\ Safe)
  BY AlwaysSafe
<1> QED BY <1>1, <1>2, PTL DEF Spec, OrphansKeepRecords
===============================================================================
