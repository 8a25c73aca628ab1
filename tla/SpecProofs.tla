------------------------------ MODULE SpecProofs -------------------------------
(***************************************************************************)
(* Proofs about the pure functions that hand wishes on, from object to object *)
(* and from step to step.                                                  *)
(*                                                                         *)
(* Keyspaces: the two steps of an update, in place and with a release, agree: *)
(* the step in place takes nothing back that the release brings, changes   *)
(* nothing but what it may, and comes to an end.                           *)
(*                                                                         *)
(* Defaults: they are filled in again by each controller that an object passes *)
(* through.  For every object, that changes nothing that was filled in before, *)
(* and the images of one keyspace stay out of all others.                  *)
(*                                                                         *)
(* Results: nothing that a step of a pass asks for is forgotten, in whatever *)
(* order the steps come.                                                   *)
(***************************************************************************)
EXTENDS Keyspaces, Defaults, TLAPS

R == INSTANCE Results

LEMMA MergedTwice == ASSUME NEW d, NEW s PROVE Merge(Merge(d, s), s) = Merge(d, s)
  BY DEF Merge

LEMMA LastOfOne ==
  ASSUME NEW i \in Nat, NEW S, S = {i} PROVE Last(S) = i /\ First(S) = i
  BY DEF Last, First

-----------------------------------------------------------------------------
(* Disk sizes *)

\* Custom shards are a list, and a partitioning has one of its two fields.
IsPartitioning(p) ==
  /\ p = [equal |-> p.equal, custom |-> p.custom]
  /\ p.equal = None \/ p.custom = None

\* A record or a list is not the absence of one.
NoneIsNothing ==
  /\ \A parts, template : [parts |-> parts, template |-> template] # None
  /\ \A list : list = [i \in DOMAIN list |-> list[i]] => list # None

OthersOf(claim) == [k \in DOMAIN claim \ {"storage"} |-> claim[k]]

SameButSize(pool, other) ==
  /\ IsMatch(pool, other) /\ pool.rest = other.rest
  /\ pool.claim = other.claim \/ OthersOf(pool.claim) = OthersOf(other.claim)

\* "It does not update any other values besides disk sizes" (update/resources.go:29):
\* ShardDiskSize leaves every pool where it is, and of a pool everything but the
\* size of its disk.
THEOREM OnlyDiskSizes ==
  ASSUME NEW pools, NEW wanted
  PROVE  /\ DOMAIN ShardDiskSize(pools, wanted) = DOMAIN pools
         /\ \A i \in DOMAIN pools : SameButSize(ShardDiskSize(pools, wanted)[i], pools[i])
<1>1. DOMAIN ShardDiskSize(pools, wanted) = DOMAIN pools
  BY DEF ShardDiskSize
<1>2. ASSUME NEW i \in DOMAIN pools PROVE SameButSize(ShardDiskSize(pools, wanted)[i], pools[i])
  <2> DEFINE pool == pools[i]
             matches == {j \in DOMAIN wanted : IsMatch(wanted[j], pool)}
             match == wanted[First(matches)]
             new == [type |-> pool.type, cell |-> pool.cell, name |-> pool.name, rest |-> pool.rest,
                     claim |-> StorageResource(pool.claim, match.claim)]
  <2>1. ShardDiskSize(pools, wanted)[i] = pool \/ ShardDiskSize(pools, wanted)[i] = new
    BY DEF ShardDiskSize
  <2>2. SameButSize(pool, pool)
    BY DEF SameButSize, IsMatch
  <2>3. OthersOf(StorageResource(pool.claim, match.claim)) = OthersOf(pool.claim)
    BY DEF OthersOf, StorageResource, Merge, One
  <2> HIDE DEF match
  <2>4. SameButSize(new, pool)
    BY <2>3 DEF SameButSize, IsMatch
  <2> QED BY <2>1, <2>2, <2>4
<1> QED BY <1>1, <1>2

LEMMA StorageTwice ==
  ASSUME NEW d, NEW s PROVE StorageResource(StorageResource(d, s), s) = StorageResource(d, s)
  BY MergedTwice DEF StorageResource

LEMMA ShardDiskTwice ==
  ASSUME NEW pools, NEW wanted
  PROVE  ShardDiskSize(ShardDiskSize(pools, wanted), wanted) = ShardDiskSize(pools, wanted)
<1> DEFINE once == ShardDiskSize(pools, wanted)
           Matches(pool) == {j \in DOMAIN wanted : IsMatch(wanted[j], pool)}
           Kept(pool) == Matches(pool) = {}
                         \/ (Matches(pool) # {} /\ wanted[First(Matches(pool))].claim = None)
           Resized(pool) ==
             IF Kept(pool) THEN pool
             ELSE [type |-> pool.type, cell |-> pool.cell, name |-> pool.name, rest |-> pool.rest,
                   claim |-> StorageResource(pool.claim, wanted[First(Matches(pool))].claim)]
<1>1. \A ps : ShardDiskSize(ps, wanted) = [i \in DOMAIN ps |-> Resized(ps[i])]
  BY DEF ShardDiskSize
<1>2. ASSUME NEW pool PROVE Resized(Resized(pool)) = Resized(pool)
  <2>1. CASE Kept(pool)
    BY <2>1
  <2>2. CASE ~Kept(pool)
    <3> DEFINE claim == wanted[First(Matches(pool))].claim
               new == [type |-> pool.type, cell |-> pool.cell, name |-> pool.name, rest |-> pool.rest,
                       claim |-> StorageResource(pool.claim, claim)]
    <3>1. Resized(pool) = new
      BY <2>2
    <3>2. Matches(new) = Matches(pool)
      BY DEF IsMatch
    <3>3. ~Kept(new)
      BY <2>2, <3>2
    <3>4. StorageResource(new.claim, claim) = new.claim
      <4>1. new.claim = StorageResource(pool.claim, claim)
        OBVIOUS
      <4> HIDE DEF claim, new
      <4> QED BY <4>1, StorageTwice
    <3>5. Resized(new) = [type |-> new.type, cell |-> new.cell, name |-> new.name, rest |-> new.rest,
                          claim |-> StorageResource(new.claim, claim)]
      BY <3>2, <3>3
    <3> QED BY <3>1, <3>4, <3>5
  <2> QED BY <2>1, <2>2
<1> HIDE DEF Resized
<1>3. once = [i \in DOMAIN pools |-> Resized(pools[i])]
  BY <1>1
<1>4. ShardDiskSize(once, wanted) = [i \in DOMAIN once |-> Resized(once[i])]
  BY <1>1
<1> QED BY <1>2, <1>3, <1>4

LEMMA TemplateTwice ==
  ASSUME NEW t, NEW w
  PROVE  TemplateDiskSize(TemplateDiskSize(t, w), w) = TemplateDiskSize(t, w)
  BY ShardDiskTwice DEF TemplateDiskSize

\* The shards of a partitioning do not change with the sizes of their disks.
LEMMA SameShards ==
  ASSUME NEW p, NEW q, NoneIsNothing
  PROVE  LET new == PartitioningDiskSize(p, q)
         IN  /\ KeyRanges(new) = KeyRanges(p) /\ ShardNameSet(new) = ShardNameSet(p)
             /\ (new.equal # None) = (p.equal # None) /\ (new.custom # None) = (p.custom # None)
             /\ p.equal # None => new.equal.parts = p.equal.parts
<1> DEFINE new == PartitioningDiskSize(p, q)
<1>1. /\ p.equal = None => new.equal = None
      /\ p.equal # None => /\ new.equal = [parts |-> p.equal.parts,
                                           template |-> TemplateDiskSize(p.equal.template, q.equal.template)]
                           /\ new.equal # None
  BY DEF PartitioningDiskSize, NoneIsNothing
<1>2. /\ p.custom = None => new.custom = None
      /\ p.custom # None => /\ new.custom = [i \in DOMAIN p.custom |->
                                               [range |-> p.custom[i].range,
                                                template |-> TemplateDiskSize(p.custom[i].template,
                                                                              q.custom[i].template)]]
                            /\ new.custom # None
  <2>1. CASE p.custom = None
    BY <2>1 DEF PartitioningDiskSize
  <2>2. CASE p.custom # None
    <3>1. new.custom = [i \in DOMAIN p.custom |->
                          [range |-> p.custom[i].range,
                           template |-> TemplateDiskSize(p.custom[i].template, q.custom[i].template)]]
      BY <2>2 DEF PartitioningDiskSize
    <3> HIDE DEF new
    <3>2. new.custom = [i \in DOMAIN new.custom |-> new.custom[i]]
      BY <3>1
    <3> QED BY <2>2, <3>1, <3>2 DEF NoneIsNothing
  <2> QED BY <2>1, <2>2
<1> HIDE DEF new
<1>3. p.equal # None => new.equal.parts = p.equal.parts
  BY <1>1
<1>4. p.custom # None => [i \in DOMAIN new.custom |-> new.custom[i].range]
                         = [i \in DOMAIN p.custom |-> p.custom[i].range]
  BY <1>2
<1>5. KeyRanges(new) = KeyRanges(p)
  BY <1>1, <1>2, <1>3, <1>4 DEF KeyRanges
<1> QED BY <1>1, <1>2, <1>3, <1>5 DEF ShardNameSet, new

LEMMA SameMatch ==
  ASSUME NEW p, NEW q, NoneIsNothing
  PROVE  PartitioningsMatch(PartitioningDiskSize(p, q), q) = PartitioningsMatch(p, q)
<1> DEFINE new == PartitioningDiskSize(p, q)
<1>1. /\ KeyRanges(new) = KeyRanges(p)
      /\ (new.equal # None) = (p.equal # None) /\ (new.custom # None) = (p.custom # None)
      /\ p.equal # None => new.equal.parts = p.equal.parts
  BY SameShards
<1> HIDE DEF new
<1>2. PartitioningsMatch(new, q) = PartitioningsMatch(p, q)
  BY <1>1 DEF PartitioningsMatch
<1> QED BY <1>2 DEF new

LEMMA PartitioningTwice ==
  ASSUME NEW p, NEW q, NoneIsNothing
  PROVE  PartitioningDiskSize(PartitioningDiskSize(p, q), q) = PartitioningDiskSize(p, q)
<1> DEFINE new == PartitioningDiskSize(p, q)
           newer == PartitioningDiskSize(new, q)
<1>1. newer.equal = new.equal
  <2>1. CASE p.equal = None
    BY <2>1 DEF PartitioningDiskSize
  <2>2. CASE p.equal # None
    <3>1. new.equal = [parts |-> p.equal.parts,
                       template |-> TemplateDiskSize(p.equal.template, q.equal.template)]
      BY <2>2 DEF PartitioningDiskSize
    <3>2. new.equal # None
      BY <3>1 DEF NoneIsNothing
    <3>3. newer.equal = [parts |-> new.equal.parts,
                         template |-> TemplateDiskSize(new.equal.template, q.equal.template)]
      BY <3>2 DEF PartitioningDiskSize
    <3> HIDE DEF new, newer
    <3>4. new.equal.parts = p.equal.parts
          /\ TemplateDiskSize(new.equal.template, q.equal.template) = new.equal.template
      BY <3>1, TemplateTwice
    <3> QED BY <3>1, <3>3, <3>4
  <2> QED BY <2>1, <2>2
<1>2. newer.custom = new.custom
  <2>1. CASE p.custom = None
    BY <2>1 DEF PartitioningDiskSize
  <2>2. CASE p.custom # None
    <3>1. new.custom = [i \in DOMAIN p.custom |->
                          [range |-> p.custom[i].range,
                           template |-> TemplateDiskSize(p.custom[i].template, q.custom[i].template)]]
      BY <2>2 DEF PartitioningDiskSize
    <3>2. new.custom # None
      BY <2>2, SameShards
    <3>3. newer.custom = [i \in DOMAIN new.custom |->
                            [range |-> new.custom[i].range,
                             template |-> TemplateDiskSize(new.custom[i].template, q.custom[i].template)]]
      BY <3>2 DEF PartitioningDiskSize
    <3> HIDE DEF new, newer
    <3>4. ASSUME NEW i \in DOMAIN new.custom
          PROVE  new.custom[i] = [range |-> new.custom[i].range,
                                  template |-> TemplateDiskSize(new.custom[i].template, q.custom[i].template)]
      BY <3>1, TemplateTwice
    <3> QED BY <3>1, <3>3, <3>4
  <2> QED BY <2>1, <2>2
<1>3. newer = [equal |-> newer.equal, custom |-> newer.custom]
      /\ new = [equal |-> new.equal, custom |-> new.custom]
  BY DEF PartitioningDiskSize
<1> HIDE DEF new, newer
<1>4. newer = new
  BY <1>1, <1>2, <1>3
<1> QED BY <1>4 DEF newer, new

LEMMA KeyspaceDisk ==
  ASSUME NoneIsNothing, NEW T, NEW ps \in Seq(T), NEW ws \in Seq(T)
  PROVE  LET new == KeyspaceDiskSize(ps, ws)
         IN  /\ DOMAIN new = DOMAIN ps
             /\ \A i \in DOMAIN ps : ShardNameSet(new[i]) = ShardNameSet(ps[i])
             /\ KeyspaceDiskSize(new, ws) = new
<1> DEFINE new == KeyspaceDiskSize(ps, ws)
           Match(qs) == Len(qs) = Len(ws) /\ \A i \in DOMAIN qs : PartitioningsMatch(qs[i], ws[i])
<1>1. CASE ~Match(ps)
  BY <1>1 DEF KeyspaceDiskSize
<1>2. CASE Match(ps)
  <2>1. new = [i \in DOMAIN ps |-> PartitioningDiskSize(ps[i], ws[i])]
    BY <1>2 DEF KeyspaceDiskSize
  <2>2. DOMAIN new = 1..Len(ps) /\ Len(new) = Len(ps)
    BY <2>1
  <2>3. Match(new)
    <3>1. ASSUME NEW i \in DOMAIN ps PROVE PartitioningsMatch(new[i], ws[i])
      BY <1>2, <2>1, SameMatch
    <3> HIDE DEF new
    <3> QED BY <1>2, <2>1, <2>2, <3>1
  <2>4. KeyspaceDiskSize(new, ws) = [i \in DOMAIN new |-> PartitioningDiskSize(new[i], ws[i])]
    BY <2>3 DEF KeyspaceDiskSize
  <2>5. \A i \in DOMAIN ps : PartitioningDiskSize(new[i], ws[i]) = new[i]
    BY <2>1, PartitioningTwice
  <2>6. \A i \in DOMAIN ps : ShardNameSet(new[i]) = ShardNameSet(ps[i])
    BY <2>1, SameShards
  <2> HIDE DEF new
  <2>7. KeyspaceDiskSize(new, ws) = new
    BY <2>1, <2>4, <2>5
  <2> QED BY <2>1, <2>6, <2>7 DEF new
<1> QED BY <1>1, <1>2

-----------------------------------------------------------------------------
(* Partitionings *)

\* Nobody lists the same shards twice.
Distinct(partitionings) ==
  \A i, j \in DOMAIN partitionings : ShardNameSet(partitionings[i]) = ShardNameSet(partitionings[j]) => i = j

\* Two lists have the same partitionings, in the same order.
Aligned(partitionings, wanted) ==
  /\ DOMAIN partitionings = DOMAIN wanted
  /\ \A i \in DOMAIN wanted : ShardNameSet(partitionings[i]) = ShardNameSet(wanted[i])

LEMMA TheSame ==
  ASSUME NEW T, NEW ps \in Seq(T), Distinct(ps), NEW w, NEW j \in DOMAIN ps,
         ShardNameSet(ps[j]) = ShardNameSet(w)
  PROVE  LET same == {i \in DOMAIN ps : ShardNameSet(ps[i]) = ShardNameSet(w)}
         IN  same # {} /\ Last(same) = j
<1>1. {i \in DOMAIN ps : ShardNameSet(ps[i]) = ShardNameSet(w)} = {j}
  BY DEF Distinct
<1>2. j \in Nat
  OBVIOUS
<1> QED BY <1>1, <1>2, LastOfOne

\* "keep the set of partitionings in sync with src, without changing the content
\* of any partitioning that already existed" (update/partitionings.go:25): after
\* PartitioningSet, partitionings are those wanted, in the order wanted, and those
\* that were there are what they were.
THEOREM PartitioningsFollow ==
  ASSUME NEW T, NEW ps \in Seq(T), NEW ws \in Seq(T), Distinct(ps)
  PROVE  LET new == PartitioningSet(ps, ws)
         IN  /\ Aligned(new, ws)
             /\ \A i \in DOMAIN ws, j \in DOMAIN ps :
                  ShardNameSet(ps[j]) = ShardNameSet(ws[i]) => new[i] = ps[j]
<1> DEFINE new == PartitioningSet(ps, ws)
           Same(i) == {j \in DOMAIN ps : ShardNameSet(ps[j]) = ShardNameSet(ws[i])}
<1>1. new = [i \in DOMAIN ws |-> IF Same(i) = {} THEN ws[i] ELSE ps[Last(Same(i))]]
  BY DEF PartitioningSet
<1>2. ASSUME NEW i \in DOMAIN ws, NEW j \in DOMAIN ps, ShardNameSet(ps[j]) = ShardNameSet(ws[i])
      PROVE  new[i] = ps[j]
  <2>1. Same(i) # {} /\ Last(Same(i)) = j
    BY <1>2, TheSame
  <2> HIDE DEF Same, new
  <2> QED BY <1>1, <2>1
<1>3. ASSUME NEW i \in DOMAIN ws PROVE ShardNameSet(new[i]) = ShardNameSet(ws[i])
  <2>1. CASE Same(i) = {}
    BY <1>1, <2>1
  <2>2. CASE Same(i) # {}
    <3>1. PICK j \in DOMAIN ps : ShardNameSet(ps[j]) = ShardNameSet(ws[i])
      BY <2>2
    <3> QED BY <1>2, <3>1
  <2> QED BY <2>1, <2>2
<1>4. DOMAIN new = DOMAIN ws
  BY <1>1
<1> HIDE DEF new
<1>5. Aligned(new, ws)
  BY <1>3, <1>4 DEF Aligned
<1> QED BY <1>2, <1>5 DEF new

LEMMA AlignedStays ==
  ASSUME NEW T, NEW ps \in Seq(T), NEW ws \in Seq(T), Distinct(ws), Aligned(ps, ws)
  PROVE  PartitioningSet(ps, ws) = ps
<1> DEFINE new == PartitioningSet(ps, ws)
<1>1. Distinct(ps)
  BY DEF Distinct, Aligned
<1>2. DOMAIN new = DOMAIN ps /\ new = [i \in DOMAIN new |-> new[i]]
  BY DEF PartitioningSet, Aligned
<1>3. \A i \in DOMAIN ps : new[i] = ps[i]
  BY <1>1, PartitioningsFollow DEF Aligned
<1>4. ps = [i \in DOMAIN ps |-> ps[i]]
  OBVIOUS
<1> HIDE DEF new
<1>5. new = ps
  BY <1>2, <1>3, <1>4
<1> QED BY <1>5 DEF new

-----------------------------------------------------------------------------
(* Updates *)

LEMMA AnnotationsSettle ==
  ASSUME NEW a, NEW asked, NEW wanted
  PROVE  LET new == UpdateAnnotations(a, asked, wanted)
         IN  UpdateAnnotations(new, wanted, wanted) = new
  BY DEF UpdateAnnotations, Merge

\* The user's annotations are on the object and those the user has taken back are
\* not; those that somebody else has put there stay (updateVitessShardAnnotations).
THEOREM AnnotationsFollow ==
  ASSUME NEW a, NEW asked, NEW wanted
  PROVE  LET new == UpdateAnnotations(a, asked, wanted)
         IN  /\ \A k \in DOMAIN wanted : k \in DOMAIN new /\ new[k] = wanted[k]
             /\ \A k \in DOMAIN asked \ DOMAIN wanted : k \notin DOMAIN new
             /\ \A k \in DOMAIN a \ (DOMAIN asked \cup DOMAIN wanted) : k \in DOMAIN new /\ new[k] = a[k]
  BY DEF UpdateAnnotations, Merge

\* The release of a change brings all of it, whatever has been made in place
\* before: the same object comes out as without the step in place.
THEOREM ShardInPlaceIsPart ==
  ASSUME NEW vts, NEW new
  PROVE  UpdateVitessShard(UpdateVitessShardInPlace(vts, new), new) = UpdateVitessShard(vts, new)
<1> DEFINE half == UpdateVitessShardInPlace(vts, new)
<1>1. /\ half.labels = vts.labels
      /\ half.annotations = UpdateAnnotations(vts.annotations, vts.spec.template.annotations,
                                              new.spec.template.annotations)
      /\ half.spec.template.annotations = new.spec.template.annotations
  BY DEF UpdateVitessShardInPlace
<1> HIDE DEF half
<1>2. UpdateVitessShard(half, new) = UpdateVitessShard(vts, new)
  BY <1>1, AnnotationsSettle DEF UpdateVitessShard
<1> QED BY <1>2 DEF half

\* ... and of a keyspace.
THEOREM KeyspaceInPlaceIsPart ==
  ASSUME NEW vtk, NEW new
  PROVE  UpdateVitessKeyspace(UpdateVitessKeyspaceInPlace(vtk, new), new) = UpdateVitessKeyspace(vtk, new)
<1> DEFINE half == UpdateVitessKeyspaceInPlace(vtk, new)
<1>1. /\ half.labels = Merge(vtk.labels, new.labels)
      /\ half.annotations = UpdateAnnotations(vtk.annotations, vtk.spec.annotations, new.spec.annotations)
      /\ half.spec.annotations = new.spec.annotations
  BY DEF UpdateVitessKeyspaceInPlace
<1> HIDE DEF half
<1>2. UpdateVitessKeyspace(half, new) = UpdateVitessKeyspace(vtk, new)
  BY <1>1, AnnotationsSettle, MergedTwice DEF UpdateVitessKeyspace
<1> QED BY <1>2 DEF half

\* Updating a VitessShard in place comes to an end with the first pass ...
THEOREM ShardInPlaceSettles ==
  ASSUME NEW vts, NEW new
  PROVE  LET once == UpdateVitessShardInPlace(vts, new)
         IN  UpdateVitessShardInPlace(once, new) = once
<1> DEFINE once == UpdateVitessShardInPlace(vts, new)
           Pools(pools) == IF DiskAtOnce(new.spec.strategy)
                           THEN ShardDiskSize(pools, new.spec.template.pools) ELSE pools
           Update(x) ==
             [labels      |-> x.labels,
              annotations |-> UpdateAnnotations(x.annotations, x.spec.template.annotations,
                                                new.spec.template.annotations),
              spec        |-> [strategy |-> new.spec.strategy,
                               template |-> [pools |-> Pools(x.spec.template.pools),
                                             annotations |-> new.spec.template.annotations,
                                             rest |-> x.spec.template.rest],
                               rest     |-> x.spec.rest]]
<1>1. \A x : UpdateVitessShardInPlace(x, new) = Update(x)
  BY DEF UpdateVitessShardInPlace
<1>2. \A pools : Pools(Pools(pools)) = Pools(pools)
  BY ShardDiskTwice
<1> HIDE DEF Pools
<1>3. once = Update(vts)
  BY <1>1
<1>4. /\ once.spec.template.pools = Pools(vts.spec.template.pools)
      /\ once.annotations = UpdateAnnotations(vts.annotations, vts.spec.template.annotations,
                                              new.spec.template.annotations)
      /\ once.spec.template.annotations = new.spec.template.annotations
      /\ once.labels = vts.labels /\ once.spec.template.rest = vts.spec.template.rest
      /\ once.spec.rest = vts.spec.rest
  BY <1>3
<1>5. Pools(once.spec.template.pools) = Pools(vts.spec.template.pools)
  BY <1>2, <1>4
<1>6. UpdateAnnotations(once.annotations, once.spec.template.annotations, new.spec.template.annotations)
      = UpdateAnnotations(vts.annotations, vts.spec.template.annotations, new.spec.template.annotations)
  BY <1>4, AnnotationsSettle
<1> HIDE DEF once
<1>7. Update(once) = Update(vts)
  BY <1>4, <1>5, <1>6
<1>8. UpdateVitessShardInPlace(once, new) = once
  BY <1>1, <1>3, <1>7
<1> QED BY <1>8 DEF once

LEMMA IsSeqOf ==
  ASSUME NEW n \in Nat, NEW s, s = [i \in 1..n |-> s[i]], NEW T, \A i \in 1..n : s[i] \in T
  PROVE  s \in Seq(T)
  OBVIOUS

\* What the step in place makes of the partitionings.
InPlace(atOnce, ps, ws) == PartitioningSet(IF atOnce THEN KeyspaceDiskSize(ps, ws) ELSE ps, ws)

LEMMA PartitioningsSettle ==
  ASSUME NoneIsNothing, NEW T, NEW ps \in Seq(T), NEW ws \in Seq(T), Distinct(ps), Distinct(ws),
         NEW atOnce \in BOOLEAN
  PROVE  LET once == InPlace(atOnce, ps, ws)
             twice == InPlace(atOnce, once, ws)
         IN  InPlace(atOnce, twice, ws) = twice
<1> DEFINE Disks(qs) == IF atOnce THEN KeyspaceDiskSize(qs, ws) ELSE qs
           first == Disks(ps)
           once == PartitioningSet(first, ws)
           second == Disks(once)
           twice == PartitioningSet(second, ws)
           U == T \cup {first[i] : i \in DOMAIN ps} \cup {once[i] : i \in DOMAIN ws}
                  \cup {second[i] : i \in DOMAIN ws}
<1>1. ws \in Seq(U) /\ DOMAIN ps = 1..Len(ps) /\ DOMAIN ws = 1..Len(ws) /\ Len(ps) \in Nat /\ Len(ws) \in Nat
  OBVIOUS
<1>2. ASSUME NEW V, T \subseteq V, NEW qs \in Seq(V)
      PROVE  /\ DOMAIN Disks(qs) = DOMAIN qs
             /\ \A i \in DOMAIN qs : ShardNameSet(Disks(qs)[i]) = ShardNameSet(qs[i])
             /\ Disks(Disks(qs)) = Disks(qs)
             /\ Disks(qs) = [i \in DOMAIN qs |-> Disks(qs)[i]]
  <2>1. ws \in Seq(V) /\ qs = [i \in DOMAIN qs |-> qs[i]]
    BY <1>2
  <2>2. /\ DOMAIN KeyspaceDiskSize(qs, ws) = DOMAIN qs
        /\ \A i \in DOMAIN qs : ShardNameSet(KeyspaceDiskSize(qs, ws)[i]) = ShardNameSet(qs[i])
        /\ KeyspaceDiskSize(KeyspaceDiskSize(qs, ws), ws) = KeyspaceDiskSize(qs, ws)
    BY <1>2, <2>1, KeyspaceDisk
  <2>3. KeyspaceDiskSize(qs, ws) = [i \in DOMAIN qs |-> KeyspaceDiskSize(qs, ws)[i]]
    BY <2>1, <2>2 DEF KeyspaceDiskSize
  <2> QED BY <2>1, <2>2, <2>3
<1>3. /\ DOMAIN first = DOMAIN ps /\ first = [i \in DOMAIN ps |-> first[i]]
      /\ \A i \in DOMAIN ps : ShardNameSet(first[i]) = ShardNameSet(ps[i])
  BY <1>2
<1>4. once = [i \in DOMAIN ws |-> once[i]]
  BY DEF PartitioningSet
<1> HIDE DEF first, Disks
<1>5. first \in Seq(U) /\ Distinct(first)
  BY <1>1, <1>3, IsSeqOf DEF Distinct
<1>6. Aligned(once, ws)
  BY <1>1, <1>5, PartitioningsFollow
<1> HIDE DEF once
<1>7. once \in Seq(U)
  BY <1>1, <1>4, IsSeqOf
<1>8. /\ DOMAIN second = DOMAIN once /\ second = [i \in DOMAIN once |-> second[i]]
      /\ \A i \in DOMAIN once : ShardNameSet(second[i]) = ShardNameSet(once[i])
      /\ Disks(second) = second
  BY <1>2, <1>7
<1> HIDE DEF second
<1>9. Aligned(second, ws)
  BY <1>6, <1>8 DEF Aligned
<1>10. second \in Seq(U)
  BY <1>1, <1>8, <1>9, IsSeqOf DEF Aligned
<1>11. twice = second
  BY <1>1, <1>9, <1>10, AlignedStays
<1>12. PartitioningSet(Disks(twice), ws) = twice
  BY <1>8, <1>11
<1>13. \A qs : InPlace(atOnce, qs, ws) = PartitioningSet(Disks(qs), ws)
  BY DEF InPlace, Disks
<1> HIDE DEF twice
<1>14. InPlace(atOnce, ps, ws) = once
  BY <1>13 DEF first, once
<1>15. InPlace(atOnce, once, ws) = twice
  BY <1>13 DEF second, twice
<1>16. InPlace(atOnce, twice, ws) = twice
  BY <1>12, <1>13
<1> QED BY <1>14, <1>15, <1>16

\* ... and updating a VitessKeyspace in place with the second: a disk size that is
\* changed together with the list of partitionings has to wait for the list.
THEOREM KeyspaceInPlaceSettles ==
  ASSUME NoneIsNothing, NEW T, NEW vtk, NEW new,
         vtk.spec.partitionings \in Seq(T), new.spec.partitionings \in Seq(T),
         Distinct(vtk.spec.partitionings), Distinct(new.spec.partitionings)
  PROVE  LET once == UpdateVitessKeyspaceInPlace(vtk, new)
             twice == UpdateVitessKeyspaceInPlace(once, new)
         IN  UpdateVitessKeyspaceInPlace(twice, new) = twice
<1> DEFINE ws == new.spec.partitionings
           atOnce == DiskAtOnce(new.spec.strategy)
           Annotations(x) == UpdateAnnotations(x.annotations, x.spec.annotations, new.spec.annotations)
           Update(x) ==
             [labels      |-> Merge(x.labels, new.labels),
              annotations |-> Annotations(x),
              spec        |-> [strategy      |-> new.spec.strategy,
                               partitionings |-> InPlace(atOnce, x.spec.partitionings, ws),
                               turndown      |-> new.spec.turndown,
                               annotations   |-> new.spec.annotations,
                               images        |-> x.spec.images,
                               rest          |-> x.spec.rest]]
           once == Update(vtk)
           twice == Update(once)
<1>1. \A x : UpdateVitessKeyspaceInPlace(x, new) = Update(x)
  BY DEF UpdateVitessKeyspaceInPlace, InPlace
<1>2. atOnce \in BOOLEAN
  BY DEF DiskAtOnce
<1>3. LET p1 == InPlace(atOnce, vtk.spec.partitionings, ws)
          p2 == InPlace(atOnce, p1, ws)
      IN  InPlace(atOnce, p2, ws) = p2
  <2> HIDE DEF atOnce
  <2> QED BY <1>2, PartitioningsSettle
<1>4. \A x : /\ Update(x).labels = Merge(x.labels, new.labels)
             /\ Update(x).annotations = Annotations(x)
             /\ Update(x).spec.partitionings = InPlace(atOnce, x.spec.partitionings, ws)
             /\ Update(x).spec.annotations = new.spec.annotations
             /\ Update(x).spec.images = x.spec.images /\ Update(x).spec.rest = x.spec.rest
  OBVIOUS
<1>5. Annotations(once) = once.annotations
  BY <1>4, AnnotationsSettle
<1>6. Merge(once.labels, new.labels) = once.labels
  BY <1>4, MergedTwice
<1>7. Merge(twice.labels, new.labels) = twice.labels /\ Annotations(twice) = twice.annotations
  BY <1>4, MergedTwice, AnnotationsSettle
<1>8. InPlace(atOnce, twice.spec.partitionings, ws) = twice.spec.partitionings
  BY <1>3, <1>4
<1>9. twice = [labels |-> twice.labels, annotations |-> twice.annotations,
               spec |-> [strategy |-> new.spec.strategy, partitionings |-> twice.spec.partitionings,
                         turndown |-> new.spec.turndown, annotations |-> new.spec.annotations,
                         images |-> twice.spec.images, rest |-> twice.spec.rest]]
  OBVIOUS
<1> HIDE DEF twice, atOnce, ws
<1>10. Update(twice) = twice
  BY <1>7, <1>8, <1>9
<1>11. UpdateVitessKeyspaceInPlace(twice, new) = twice
  BY <1>1, <1>10
<1> HIDE DEF Update, once
<1>12. UpdateVitessKeyspaceInPlace(vtk, new) = once
  BY <1>1 DEF once
<1>13. UpdateVitessKeyspaceInPlace(once, new) = twice
  BY <1>1 DEF twice
<1> QED BY <1>11, <1>12, <1>13

-----------------------------------------------------------------------------
(* Defaults *)

\* A map is not the absence of one.
MapsAreThings == \A f : f = [k \in DOMAIN f |-> f[k]] => f # None

LEMMA MergeIsMap == ASSUME NEW d, NEW s PROVE Merge(d, s) = [k \in DOMAIN Merge(d, s) |-> Merge(d, s)[k]]
  BY DEF Merge

LEMMA MergeKeepsDefaults ==
  ASSUME NEW d, NEW s PROVE Merge(d, Merge(d, s)) = Merge(d, s)
  BY DEF Merge

LEMMA DefaultIsThing ==
  ASSUME MapsAreThings, NEW g, NEW d PROVE Default(g, d) # None
<1> DEFINE s == IF g = None THEN Empty ELSE g
<1>1. Default(g, d) = Merge(d, s)
  BY DEF Default
<1> HIDE DEF s
<1> QED BY <1>1, MergeIsMap DEF MapsAreThings

LEMMA DefaultedTwice ==
  ASSUME MapsAreThings, NEW g, NEW d PROVE Default(Default(g, d), d) = Default(g, d)
<1> DEFINE s == IF g = None THEN Empty ELSE g
<1>1. Default(g, d) = Merge(d, s)
  BY DEF Default
<1> HIDE DEF s
<1>2. Default(Merge(d, s), d) = Merge(d, Merge(d, s))
  BY <1>1, DefaultIsThing DEF Default
<1> QED BY <1>1, <1>2, MergeKeepsDefaults

-----------------------------------------------------------------------------
(* Objects that are handed down *)

LEMMA StrategyTwice ==
  ASSUME MapsAreThings, NEW s
  PROVE  DefaultUpdateStrategy(DefaultUpdateStrategy(s)) = DefaultUpdateStrategy(s)
<1> DEFINE d == [type |-> "External"]
           e == [external |-> Empty]
           typed == Default(s, d)
           full == Default(typed, e)
<1>1. Default(typed, d) = typed
  BY DefaultedTwice
<1>2. CASE typed["type"] # "External"
  BY <1>1, <1>2 DEF DefaultUpdateStrategy
<1>3. CASE typed["type"] = "External"
  <2>1. DefaultUpdateStrategy(s) = full
    BY <1>3 DEF DefaultUpdateStrategy
  <2>2. full = Merge(e, typed)
    BY DefaultIsThing DEF Default
  <2>3. "type" \in DOMAIN typed
    <3>1. typed = Merge(d, IF s = None THEN Empty ELSE s)
      BY DEF Default
    <3> QED BY <3>1 DEF Merge
  <2>4. full["type"] = "External" /\ "type" \in DOMAIN full
    <3> HIDE DEF typed, e
    <3> QED BY <2>2, <2>3, <1>3 DEF Merge
  <2>5. Default(full, d) = Merge(d, full)
    BY DefaultIsThing DEF Default
  <2>6. Merge(d, full) = full
    <3>1. full = [k \in DOMAIN full |-> full[k]]
      <4> HIDE DEF typed, e
      <4> QED BY <2>2, MergeIsMap
    <3>2. DOMAIN d = {"type"}
      OBVIOUS
    <3> HIDE DEF full, d
    <3> QED BY <2>4, <3>1, <3>2 DEF Merge
  <2>7. Default(full, e) = full
    BY DefaultedTwice
  <2> HIDE DEF full, typed, e, d
  <2>8. DefaultUpdateStrategy(full) = full
    BY <2>4, <2>5, <2>6, <2>7 DEF DefaultUpdateStrategy, d, e
  <2> QED BY <2>1, <2>8
<1> QED BY <1>2, <1>3

LEMMA DefaultTemplateTwice ==
  ASSUME MapsAreThings, NEW t
  PROVE  DefaultVitessShardTemplate(DefaultVitessShardTemplate(t)) = DefaultVitessShardTemplate(t)
  BY DefaultedTwice DEF DefaultVitessShardTemplate

LEMMA TopologyTwice ==
  ASSUME MapsAreThings, NEW c
  PROVE  DefaultTopoReconcileConfig(DefaultTopoReconcileConfig(c)) = DefaultTopoReconcileConfig(c)
  BY DefaultedTwice DEF DefaultTopoReconcileConfig

\* What a VitessKeyspace gets from a VitessCluster is defaulted already, but for
\* its VTOrc: the defaults of two controllers do not contradict one another.
THEOREM KeyspacesAreDefaulted ==
  ASSUME MapsAreThings, NEW vt, NEW i \in DOMAIN vt.keyspaces
  PROVE  LET vtk == KeyspaceOf(DefaultVitessCluster(vt), i)
         IN  DefaultVitessKeyspace(vtk) =
               [template |-> [turndown |-> vtk.template.turndown, templates |-> vtk.template.templates,
                              vtorc |-> DefaultVitessOrchestrator(vt.keyspaces[i].vtorc)],
                topology |-> vtk.topology, strategy |-> vtk.strategy]
<1> DEFINE vtk == KeyspaceOf(DefaultVitessCluster(vt), i)
<1>1. /\ vtk.template = DefaultVitessKeyspaceTemplate(vt.keyspaces[i])
      /\ vtk.topology = DefaultTopoReconcileConfig(vt.topology)
      /\ vtk.strategy = DefaultUpdateStrategy(vt.strategy)
  BY DEF KeyspaceOf, DefaultVitessCluster
<1>2. vtk.template.vtorc = vt.keyspaces[i].vtorc
  BY <1>1 DEF DefaultVitessKeyspaceTemplate
<1> HIDE DEF vtk
<1>3. DefaultTopoReconcileConfig(vtk.topology) = vtk.topology
  BY <1>1, TopologyTwice
<1>4. DefaultUpdateStrategy(vtk.strategy) = vtk.strategy
  BY <1>1, StrategyTwice
<1>5. DefaultVitessKeyspace(vtk) =
        [template |-> [turndown |-> vtk.template.turndown, templates |-> vtk.template.templates,
                       vtorc |-> DefaultVitessOrchestrator(vt.keyspaces[i].vtorc)],
         topology |-> vtk.topology, strategy |-> vtk.strategy]
  BY <1>2, <1>3, <1>4 DEF DefaultVitessKeyspace
<1> QED BY <1>5 DEF vtk

\* What a VitessShard gets from there is defaulted completely: its own controller
\* changes nothing, whichever of the two has looked at it first.
THEOREM ShardsAreDefaulted ==
  ASSUME MapsAreThings, NEW vt, NEW i \in DOMAIN vt.keyspaces, NEW j \in DOMAIN vt.keyspaces[i].templates
  PROVE  LET vts == ShardOf(DefaultVitessKeyspace(KeyspaceOf(DefaultVitessCluster(vt), i)), j)
         IN  DefaultVitessShard(vts) = vts
<1> DEFINE vtk == KeyspaceOf(DefaultVitessCluster(vt), i)
           full == DefaultVitessKeyspace(vtk)
           vts == ShardOf(full, j)
           template == DefaultVitessShardTemplate(vt.keyspaces[i].templates[j])
<1>1. /\ vtk.template = DefaultVitessKeyspaceTemplate(vt.keyspaces[i])
      /\ vtk.topology = DefaultTopoReconcileConfig(vt.topology)
      /\ vtk.strategy = DefaultUpdateStrategy(vt.strategy)
  BY DEF KeyspaceOf, DefaultVitessCluster
<1>2. vtk.template.templates[j] = template
  BY <1>1 DEF DefaultVitessKeyspaceTemplate
<1> HIDE DEF vtk, template
<1>3. /\ full.template.templates = vtk.template.templates
      /\ full.topology = DefaultTopoReconcileConfig(vtk.topology)
      /\ full.strategy = DefaultUpdateStrategy(vtk.strategy)
  BY DEF DefaultVitessKeyspace
<1> HIDE DEF full
<1>4. vts = [template |-> template, vtorc |-> full.template.vtorc,
             topology |-> DefaultTopoReconcileConfig(vtk.topology),
             strategy |-> DefaultUpdateStrategy(vtk.strategy)]
  BY <1>2, <1>3 DEF ShardOf
<1>5. DefaultVitessShardTemplate(template) = template
  BY DefaultTemplateTwice DEF template
<1>6. DefaultTopoReconcileConfig(DefaultTopoReconcileConfig(vtk.topology)) = DefaultTopoReconcileConfig(vtk.topology)
  BY TopologyTwice
<1>7. DefaultUpdateStrategy(DefaultUpdateStrategy(vtk.strategy)) = DefaultUpdateStrategy(vtk.strategy)
  BY StrategyTwice
<1> HIDE DEF vts
<1>8. DefaultVitessShard(vts) = vts
  BY <1>4, <1>5, <1>6, <1>7 DEF DefaultVitessShard
<1> QED BY <1>8 DEF vts, full, vtk

-----------------------------------------------------------------------------
(* Images *)

\* "prevent overwriting any value for subsequent keyspaces"
\* (vitesskeyspace_defaults.go:56): a keyspace runs its own image of MySQL if it
\* names one and its cluster's if not, and no image that was there before changes, be
\* it of the cluster, of another keyspace or the operator's default, which the
\* clusters share.
THEOREM ImagesStayApart ==
  ASSUME NEW heap, NEW cluster, NEW own, NEW new,
         new \notin DOMAIN heap,
         "mysqld" \in DOMAIN cluster, cluster["mysqld"] \in DOMAIN heap
  PROVE  LET after == HeapAfter(heap, cluster, own, new)
             used == KeyspaceImages(cluster, own, new)["mysqld"]
         IN  /\ \A a \in DOMAIN heap : after[a] = heap[a]
             /\ used \notin DOMAIN heap
             /\ after[used] = IF "mysqld" \notin DOMAIN own THEN heap[cluster["mysqld"]]
                              ELSE [mysql56 |-> own["mysqld"].mysql56, mysql80 |-> own["mysqld"].mysql80,
                                    mariadb |-> heap[cluster["mysqld"]].mariadb]
<1> DEFINE images == KeyspaceImages(cluster, own, new)
           copied == Copied(heap, cluster, new)
           after == HeapAfter(heap, cluster, own, new)
           image == [mysql56 |-> own["mysqld"].mysql56, mysql80 |-> own["mysqld"].mysql80,
                     mariadb |-> heap[cluster["mysqld"]].mariadb]
<1>1. images["mysqld"] = new
  <2>1. "mysqld" \in DOMAIN KeyspaceDefaults(cluster, new) /\ KeyspaceDefaults(cluster, new)["mysqld"] = new
    BY DEF KeyspaceDefaults, Merge, One
  <2> DEFINE fields == Only(own, {"vttablet", "vtorc", "vtbackup", "mysqldExporter"})
  <2>2. "mysqld" \notin DOMAIN fields
    BY DEF Only
  <2>3. images = Merge(KeyspaceDefaults(cluster, new), fields)
    BY DEF KeyspaceImages
  <2> HIDE DEF fields, images
  <2> QED BY <2>1, <2>2, <2>3 DEF Merge
<1>2. /\ \A a \in DOMAIN heap : a \in DOMAIN copied /\ copied[a] = heap[a]
      /\ new \in DOMAIN copied /\ copied[new] = heap[cluster["mysqld"]]
  BY DEF Copied, Merge, One
<1>3. after = Written(copied, images, own)
  BY DEF HeapAfter
<1> HIDE DEF images, copied, after
<1>4. CASE "mysqld" \notin DOMAIN own
  <2>1. after = copied
    BY <1>3, <1>4 DEF Written
  <2> QED BY <1>1, <1>2, <1>4, <2>1 DEF after, images
<1>5. CASE "mysqld" \in DOMAIN own
  <2>1. after = Merge(copied, One(new, image))
    BY <1>1, <1>2, <1>3, <1>5 DEF Written
  <2> HIDE DEF image
  <2>2. after[new] = image
    BY <2>1 DEF Merge, One
  <2>3. \A a \in DOMAIN heap : after[a] = heap[a]
    BY <1>2, <2>1 DEF Merge, One
  <2> QED BY <1>1, <1>5, <2>2, <2>3 DEF after, images, image
<1> QED BY <1>4, <1>5

-----------------------------------------------------------------------------
(* Results *)

LEMMA MergeType ==
  ASSUME NEW a \in R!Result, NEW b \in R!Result
  PROVE  R!Merge(a, b) \in R!Result
  BY DEF R!Result, R!Merge, R!Requeue, R!RequeueAfter

\* Builder.Merge: the object is queued by the time either part asked for, and
\* no earlier.
THEOREM MergeIsSoonest ==
  ASSUME NEW a \in R!Result, NEW b \in R!Result, NEW time \in Nat
  PROVE  R!QueuedBy(R!Merge(a, b), time) <=> R!QueuedBy(a, time) \/ R!QueuedBy(b, time)
  BY DEF R!Result, R!Merge, R!Requeue, R!RequeueAfter, R!QueuedBy

\* Builder.RequeueAfter does so as well, as long as the delay is positive.
THEOREM RequeueAfterIsSoonest ==
  ASSUME NEW a \in R!Result, NEW delay \in Nat \ {0}, NEW time \in Nat
  PROVE  R!QueuedBy(R!RequeueAfter(a, delay), time) <=> R!QueuedBy(a, time) \/ delay <= time
  BY DEF R!Result, R!RequeueAfter, R!QueuedBy

\* Two results that have the object queued at the same times are the same.
LEMMA SameResult ==
  ASSUME NEW a \in R!Result, NEW b \in R!Result,
         \A time \in Nat : R!QueuedBy(a, time) <=> R!QueuedBy(b, time)
  PROVE  a = b
<1>1. a.requeue = b.requeue
  BY DEF R!Result, R!QueuedBy
<1>2. a.after = b.after
  BY <1>1 DEF R!Result, R!QueuedBy
<1> QED BY <1>1, <1>2 DEF R!Result

\* So it does not matter in which order, or how nested, a pass merges the
\* results of its steps.
THEOREM MergeOrderIsIrrelevant ==
  ASSUME NEW a \in R!Result, NEW b \in R!Result, NEW c \in R!Result
  PROVE  /\ R!Merge(a, b) = R!Merge(b, a)
         /\ R!Merge(R!Merge(a, b), c) = R!Merge(a, R!Merge(b, c))
         /\ R!Merge(R!Nothing, a) = a
<1>1. R!Merge(a, b) = R!Merge(b, a)
  BY MergeType, MergeIsSoonest, SameResult
<1>2. R!Merge(R!Merge(a, b), c) = R!Merge(a, R!Merge(b, c))
  BY MergeType, MergeIsSoonest, SameResult
<1>3. R!Merge(R!Nothing, a) = a
  <2>1. R!Nothing \in R!Result /\ \A time \in Nat : ~R!QueuedBy(R!Nothing, time)
    BY DEF R!Result, R!Nothing, R!QueuedBy
  <2> QED BY <2>1, MergeType, MergeIsSoonest, SameResult
<1> QED BY <1>1, <1>2, <1>3
================================================================================
