--------------------------- MODULE BackupStrategies ---------------------------
(***************************************************************************)
(* The shards each VitessBackupSchedule of a cluster stands for, given the *)
(* others.  Every pass of the controller computes them anew from cached    *)
(* objects, before it looks at any Job (BackupSchedule models what follows *)
(* for one of these shards).                                               *)
(***************************************************************************)
EXTENDS BackupFrequency

CONSTANTS
  Shards,  \* the shards in the cached statuses of the VitessKeyspaces of the
           \* cluster: pairs <<keyspace, shard>>
  None     \* a field that is not set

-----------------------------------------------------------------------------
(* Strategies *)

\* ValidateScheduleConfig; frequency is a number of minutes or None.
ValidConfig(spec) ==
  \/ spec.schedule /\ spec.frequency = None
  \/ ~spec.schedule /\ spec.frequency # None /\ ValidFrequency(spec.frequency)

\* ValidateStrategies.
ValidStrategy(s) ==
  CASE s.scope = "Shard"    -> s.keyspace # None /\ s.shard # None
    [] s.scope = "Keyspace" -> s.keyspace # None /\ s.shard = None
    [] s.scope = "Cluster"  -> s.keyspace = None /\ s.shard = None
    [] OTHER -> FALSE

Valid(spec) ==
  ValidConfig(spec) /\ \A i \in DOMAIN spec.strategy : ValidStrategy(spec.strategy[i])

\* expandStrategy: a shard that is named is taken as it is, a keyspace without
\* shards stands for nothing.
Expand(s, excluded) ==
  CASE s.scope = "Shard"    -> {<<s.keyspace, s.shard>>}
    [] s.scope = "Keyspace" -> {x \in Shards : x[1] = s.keyspace}
    [] s.scope = "Cluster"  -> {x \in Shards : x[1] \notin excluded}

\* validateNoDuplicateExpandedShardTargets.
Duplicates(spec, excluded) ==
  \E i, j \in DOMAIN spec.strategy :
    i # j /\ Expand(spec.strategy[i], excluded) \cap Expand(spec.strategy[j], excluded) # {}

\* localExcludedKeyspaces.
Overrides(spec) ==
  {spec.strategy[i].keyspace : i \in {j \in DOMAIN spec.strategy :
                                       spec.strategy[j].scope = "Keyspace"}}

\* Whether other schedules respect the overrides of a schedule.  It is judged
\* by its own overrides alone.
RespectedByPeers(spec) ==
  ~spec.suspended /\ Valid(spec) /\ ~Duplicates(spec, Overrides(spec))

\* getExcludedKeyspaces.
Excluded(specs, n) ==
  Overrides(specs[n])
    \cup UNION {Overrides(specs[p]) : p \in {q \in DOMAIN specs \ {n} : RespectedByPeers(specs[q])}}

\* reconcileStrategies rejects a schedule as a whole.
Accepted(specs, n) ==
  ~specs[n].suspended /\ Valid(specs[n]) /\ ~Duplicates(specs[n], Excluded(specs, n))

\* The shards the schedule n backs up.
BackedUp(specs, n) ==
  IF Accepted(specs, n)
  THEN UNION {Expand(specs[n].strategy[i], Excluded(specs, n)) : i \in DOMAIN specs[n].strategy}
  ELSE {}
===============================================================================
