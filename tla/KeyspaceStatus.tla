---------------------------- MODULE KeyspaceStatus ----------------------------
(***************************************************************************)
(* What a VitessKeyspace reports: its shards, each of its partitionings,   *)
(* whether it is ready, and how far a resharding is                        *)
(* (controller/vitesskeyspace).  A condition is "True", "False" or         *)
(* "Unknown", and what a pass has not found out is Unknown.                *)
(***************************************************************************)
EXTENDS Keyspaces, Functions, FiniteSets

Total(shards, field) == SumFunction([s \in DOMAIN shards |-> shards[s][field]])

-----------------------------------------------------------------------------
(* Shards and partitionings (reconcile_shards.go) *)

Replicas(pools) == SumFunction([i \in DOMAIN pools |-> pools[i].replicas])

\* NewVitessKeyspaceShardStatus, for a shard that is wanted ...
NewShardStatus(template) ==
  [hasPrimary |-> "Unknown", serving |-> "Unknown", desired |-> Replicas(template.pools),
   tablets |-> 0, ready |-> 0, updated |-> 0, cells |-> {}]

\* ... and what is known of its VitessShard.  A condition it does not have yet is
\* None.
ShardStatus(new, vts) ==
  LET tablets == vts.status.tablets
  IN  [new EXCEPT !.hasPrimary = IF vts.status.hasPrimary = None THEN @ ELSE vts.status.hasPrimary,
                  !.serving = IF vts.status.serving = None THEN @ ELSE vts.status.serving,
                  !.tablets = Cardinality(DOMAIN tablets),
                  !.ready = Cardinality({t \in DOMAIN tablets : tablets[t].ready = "True"}),
                  !.updated = Cardinality({t \in DOMAIN tablets : tablets[t].pending = None}),
                  !.cells = vts.status.cells]

\* TotalReplicas of a partitioning.
TotalReplicas(p) ==
  CASE p.equal # None -> Replicas(p.equal.template.pools) * p.equal.parts
    [] p.equal = None /\ p.custom # None ->
         SumFunction([i \in DOMAIN p.custom |-> Replicas(p.custom[i].template.pools)])
    [] OTHER -> 0

\* allShardsServingWrites: what is False of one shard is False of all.
ServingWrites(names, shards) ==
  CASE names = {} \/ (\E n \in names : shards[n].serving = "False") -> "False"
    [] names # {} /\ (\A n \in names : shards[n].serving = "True") -> "True"
    [] OTHER -> "Unknown"

\* A partitioning's tablets are counted in its shards as they are, and the desired
\* ones in its own templates, also where a later partitioning has another.
PartitioningStatus(p, shards) ==
  LET names == ShardNameSet(p)
      own == [n \in names |-> shards[n]]
  IN  [serving       |-> ServingWrites(names, shards),
       desired       |-> TotalReplicas(p),
       tablets       |-> Total(own, "tablets"),
       ready         |-> Total(own, "ready"),
       updated       |-> Total(own, "updated"),
       readyShards   |-> Cardinality({n \in names : shards[n].ready = shards[n].desired}),
       desiredShards |-> Cardinality(names)]

\* The Ready condition: of the last partitioning that serves, if any does.
Ready(statuses) ==
  LET serving == {i \in DOMAIN statuses : statuses[i].serving = "True"}
      last == statuses[Last(serving)]
  IN  IF serving # {} /\ last.ready = last.desired THEN "True" ELSE "False"

\* What the VitessCluster reports of a keyspace (vitesscluster/reconcile_keyspaces.go).
ClusterKeyspaceStatus(vtk) ==
  LET shards == vtk.status.shards
  IN  [shards        |-> Cardinality(DOMAIN shards),
       readyShards   |-> Cardinality({s \in DOMAIN shards : shards[s].ready = shards[s].desired}),
       updatedShards |-> Cardinality({s \in DOMAIN shards : shards[s].updated = shards[s].tablets}),
       tablets       |-> Total(shards, "tablets"),
       ready         |-> Total(shards, "ready"),
       updated       |-> Total(shards, "updated"),
       cells         |-> UNION {shards[s].cells : s \in DOMAIN shards}]

-----------------------------------------------------------------------------
(* The keyspace's record in the topology (reconcile_keyspace_information.go) *)

\* The record after a pass that reaches the topology: the policy follows the
\* user's, if there is one, and the name of the side-car database never changes.
KeyspaceRecord(record, spec) ==
  IF record = None THEN [durability |-> spec.durability, sidecarDb |-> spec.sidecarDb]
  ELSE [record EXCEPT !.durability = IF spec.durability = None THEN @ ELSE spec.durability]

-----------------------------------------------------------------------------
(* Resharding (reconcile_resharding.go) *)

MaxSafeLag == 10

\* Workflows that are active and move data between shards of the keyspace.
ReshardingWorkflows(workflows, keyspace) ==
  {w \in workflows : w.source.keyspace = w.target.keyspace /\ w.source.shards # w.target.shards}

\* The state of the streams together.  Streams that are stopped or not yet
\* started say nothing.
WorkflowState(w) ==
  CASE "Error" \in w.streams -> "Error"
    [] "Error" \notin w.streams /\ "Copying" \in w.streams -> "Copying"
    [] w.streams \cap {"Error", "Copying"} = {} /\ w.streams \cap {"Running", "Lagging"} # {} -> "Running"
    [] OTHER -> "Unknown"

\* percentCopied: -1 if it is not known, and never 100, as the rows of a table are
\* estimates.
PercentCopied(sourceRows, targetRows) ==
  LET percent == (targetRows * 100) \div sourceRows
  IN  CASE sourceRows = None -> -1
        [] sourceRows = 0 -> 99
        [] sourceRows \notin {None, 0} /\ targetRows = None -> -1
        [] OTHER -> IF percent > 99 THEN 99 ELSE percent

CopyProgress(w, rows) ==
  CASE WorkflowState(w) \in {"Error", "Copying"} -> PercentCopied(rows.source, rows.target)
    [] WorkflowState(w) = "Running" -> 100
    [] OTHER -> -1

ReshardingActive(workflows) ==
  CASE workflows = {} -> "False"
    [] Cardinality(workflows) = 1 -> "True"
    [] OTHER -> "Unknown"

\* Whether traffic may be switched to the new shards.
ReshardingInSync(workflows) ==
  CASE workflows = {} -> "False"
    [] Cardinality(workflows) > 1 -> "Unknown"
    [] OTHER ->
         LET w == CHOOSE w \in workflows : TRUE
         IN  CASE WorkflowState(w) \in {"Error", "Copying"} -> "False"
               [] WorkflowState(w) = "Running" -> IF w.lag < MaxSafeLag THEN "True" ELSE "False"
               [] OTHER -> "Unknown"

\* The status of the resharding after a pass; with none or with more than one,
\* that of an earlier pass is not carried over.
ReshardingStatus(workflows, rows) ==
  IF Cardinality(workflows) # 1 THEN None
  ELSE LET w == CHOOSE w \in workflows : TRUE
       IN  [workflow |-> w.name, state |-> WorkflowState(w), progress |-> CopyProgress(w, rows),
            source |-> w.source.shards, target |-> w.target.shards]
===============================================================================
