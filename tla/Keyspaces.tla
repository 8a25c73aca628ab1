------------------------------- MODULE Keyspaces -------------------------------
(***************************************************************************)
(* How a user's keyspace becomes shards, and how its changes are let through*)
(* from the VitessCluster to a VitessKeyspace and from there to each of its *)
(* VitessShards.  With the External strategy, an object is updated in two  *)
(* steps: some changes are made at once (in place), the others only when   *)
(* the user releases them (ShardRollout).                                  *)
(*                                                                         *)
(* A partitioning has one of "equal", a number of parts and the template of*)
(* each, and "custom", a list of ranges with their templates; an empty one *)
(* has neither.  A pool's "claim" is the part of its data volume's claim   *)
(* that may change, and "rest" is what is handed on without a look at it.  *)
(***************************************************************************)
EXTENDS Updates, Sequences

CONSTANT EqualRanges  \* Vitess' GenerateShardRanges: a list of ranges for each number of parts

Last(indices) == CHOOSE i \in indices : \A j \in indices : j <= i
First(indices) == CHOOSE i \in indices : \A j \in indices : i <= j

-----------------------------------------------------------------------------
(* Shards of a keyspace (vitesskeyspace_methods.go) *)

KeyRanges(p) ==
  CASE p.equal # None -> EqualRanges[p.equal.parts]
    [] p.equal = None /\ p.custom # None -> [i \in DOMAIN p.custom |-> p.custom[i].range]
    [] OTHER -> <<>>

\* ShardNameSet; a range and its name are the same here.
ShardNameSet(p) == {KeyRanges(p)[i] : i \in DOMAIN KeyRanges(p)}

\* The template that a partitioning has for one of its shards.
TemplateFor(p, range) ==
  IF p.equal # None THEN p.equal.template
  ELSE p.custom[Last({i \in DOMAIN p.custom : p.custom[i].range = range})].template

\* ShardTemplates: later partitionings win.
ShardTemplates(partitionings) ==
  [r \in UNION {ShardNameSet(partitionings[i]) : i \in DOMAIN partitionings} |->
     TemplateFor(partitionings[Last({i \in DOMAIN partitionings : r \in ShardNameSet(partitionings[i])})], r)]

\* SortKeyRanges; an end that is not given is after all others.  Byte strings
\* are ordered as numbers are, and no start is before all others.
Earlier(range, other) ==
  \/ range.start < other.start
  \/ /\ range.start = other.start
     /\ range.end # None
     /\ other.end = None \/ range.end < other.end

-----------------------------------------------------------------------------
(* Disk sizes (update/resources.go) *)

StorageResource(dst, src) ==
  IF "storage" \in DOMAIN src THEN Merge(dst, One("storage", src["storage"])) ELSE dst

\* IsMatch.
IsMatch(pool, other) == pool.type = other.type /\ pool.cell = other.cell /\ pool.name = other.name

\* updateTabletPoolDiskSize.  It cannot resize what has no claim: a pool that
\* has none and whose match has one makes the operator panic.
ShardDiskSize(pools, wanted) ==
  [i \in DOMAIN pools |->
     LET pool == pools[i]
         matches == {j \in DOMAIN wanted : IsMatch(wanted[j], pool)}
         match == wanted[First(matches)]
     IN  IF matches = {} \/ (matches # {} /\ match.claim = None) THEN pool
         ELSE [type |-> pool.type, cell |-> pool.cell, name |-> pool.name, rest |-> pool.rest,
               claim |-> StorageResource(pool.claim, match.claim)]]

TemplateDiskSize(template, wanted) ==
  [pools |-> ShardDiskSize(template.pools, wanted.pools),
   annotations |-> template.annotations, rest |-> template.rest]

\* partitioningsMatch.
PartitioningsMatch(p, q) ==
  /\ (p.equal # None) = (q.equal # None) /\ (p.custom # None) = (q.custom # None)
  /\ \/ p.equal # None /\ p.equal.parts = q.equal.parts
     \/ p.equal = None /\ p.custom # None /\ KeyRanges(p) = KeyRanges(q)

PartitioningDiskSize(p, q) ==
  [equal  |-> IF p.equal = None THEN None
              ELSE [parts |-> p.equal.parts,
                    template |-> TemplateDiskSize(p.equal.template, q.equal.template)],
   custom |-> IF p.custom = None THEN None
              ELSE [i \in DOMAIN p.custom |->
                      [range |-> p.custom[i].range,
                       template |-> TemplateDiskSize(p.custom[i].template, q.custom[i].template)]]]

\* KeyspaceDiskSize: only if the partitionings are the same, one by one.
KeyspaceDiskSize(partitionings, wanted) ==
  IF Len(partitionings) = Len(wanted)
     /\ \A i \in DOMAIN partitionings : PartitioningsMatch(partitionings[i], wanted[i])
  THEN [i \in DOMAIN partitionings |-> PartitioningDiskSize(partitionings[i], wanted[i])]
  ELSE partitionings

-----------------------------------------------------------------------------
(* Updates of a VitessKeyspace and a VitessShard                           *)

\* PartitioningSet (update/partitionings.go): partitionings come and go, and one
\* that is there already, by the set of its shards, stays as it is.
PartitioningSet(partitionings, wanted) ==
  [i \in DOMAIN wanted |->
     LET same == {j \in DOMAIN partitionings : ShardNameSet(partitionings[j]) = ShardNameSet(wanted[i])}
     IN  IF same = {} THEN wanted[i] ELSE partitionings[Last(same)]]

\* updateVitessKeyspaceAnnotations, updateVitessShardAnnotations: those which the
\* user has asked for, as noted in the spec, and does not ask for any more, go.
UpdateAnnotations(annotations, asked, wanted) ==
  Merge([k \in DOMAIN annotations \ (DOMAIN asked \ DOMAIN wanted) |-> annotations[k]], wanted)

\* Whether disk sizes do not have to wait (ResourceChangesAllowed).
DiskAtOnce(strategy) == strategy.type = "External" /\ "storage" \in strategy.allowed

\* updateVitessKeyspace; "new" is the keyspace's NewVitessKeyspace.
UpdateVitessKeyspace(vtk, new) ==
  [labels      |-> Merge(vtk.labels, new.labels),
   annotations |-> UpdateAnnotations(vtk.annotations, vtk.spec.annotations, new.spec.annotations),
   spec        |-> new.spec]

\* updateVitessKeyspaceInPlace.
UpdateVitessKeyspaceInPlace(vtk, new) ==
  LET disks == IF DiskAtOnce(new.spec.strategy)
               THEN KeyspaceDiskSize(vtk.spec.partitionings, new.spec.partitionings)
               ELSE vtk.spec.partitionings
  IN  [labels      |-> Merge(vtk.labels, new.labels),
       annotations |-> UpdateAnnotations(vtk.annotations, vtk.spec.annotations, new.spec.annotations),
       spec        |-> [strategy      |-> new.spec.strategy,
                        partitionings |-> PartitioningSet(disks, new.spec.partitionings),
                        turndown      |-> new.spec.turndown,
                        annotations   |-> new.spec.annotations,
                        images        |-> vtk.spec.images,
                        rest          |-> vtk.spec.rest]]

\* newVitessKeyspace; "images" are Defaults' KeyspaceImages.
NewVitessKeyspace(cluster, keyspace, images) ==
  [labels      |-> Merge(One("cluster", cluster.name), One("keyspace", keyspace.name)),
   annotations |-> keyspace.annotations,
   spec        |-> [strategy |-> cluster.strategy, partitionings |-> keyspace.partitionings,
                    turndown |-> keyspace.turndown, annotations |-> keyspace.annotations,
                    images |-> images, rest |-> <<cluster.rest, keyspace.rest>>]]

\* updateVitessShard; "new" is the shard's NewVitessShard.
UpdateVitessShard(vts, new) ==
  [labels      |-> Merge(vts.labels, new.labels),
   annotations |-> UpdateAnnotations(vts.annotations, vts.spec.template.annotations,
                                     new.spec.template.annotations),
   spec        |-> new.spec]

\* updateVitessShardInPlace.
UpdateVitessShardInPlace(vts, new) ==
  LET template == vts.spec.template
      pools == IF DiskAtOnce(new.spec.strategy)
               THEN ShardDiskSize(template.pools, new.spec.template.pools) ELSE template.pools
  IN  [labels      |-> vts.labels,
       annotations |-> UpdateAnnotations(vts.annotations, template.annotations,
                                         new.spec.template.annotations),
       spec        |-> [strategy |-> new.spec.strategy,
                        template |-> [pools |-> pools, annotations |-> new.spec.template.annotations,
                                      rest |-> template.rest],
                        rest     |-> vts.spec.rest]]

\* newVitessShard, for a range in the ShardTemplates of a VitessKeyspace.
NewVitessShard(vtk, range) ==
  LET template == ShardTemplates(vtk.spec.partitionings)[range]
  IN  [labels      |-> Merge(Only(vtk.labels, {"cluster", "keyspace"}), One("shard", range)),
       annotations |-> template.annotations,
       spec        |-> [strategy |-> vtk.spec.strategy, template |-> template,
                        rest |-> <<range, vtk.spec.images, vtk.spec.rest>>]]
===============================================================================
