# Formal models of vitess-operator

TLA+ models of the parts of vitess-operator that decide when a tablet may go
away, who is primary, how a change reaches the tablets of a shard, when a
keyspace, shard or cell may be deleted and its topology record with it, when a
backup is started, and when shared connections are closed. TLC checks them on
small instances; TLAPS proves every safety property of these runs and the
refinement of the drain contract for all values of the constants (any number of
tablets, shards, connections or instants, any lag, any number of failures), and
facts about the operator's pure functions for every input: what it makes of the
Pods, Deployments, Services, claims, shards and keyspaces it keeps.

`PROJECT.json` lists the components, the runs, the source lines behind every
definition (`map`), the hazards and the theorems. Each property has a mutant: a
plausible slip in the code it is about, under which TLC finds it violated.

## 1. The system

The operator is one process with several controllers. Each controller's
`Reconcile` is called by a work queue for one object at a time, reads
Kubernetes objects from an informer cache that lags behind the API server,
writes to the API server with optimistic concurrency (`resourceVersion`), and
talks to Vitess's topology server and tablets. Controllers interact only
through objects: annotations, specs, statuses, and topology records.

| Component | State | Operations | Hard behaviours |
|---|---|---|---|
| drain state machine (`operator/drain`) | annotations started / acknowledged / finished on Pods | Start, Acknowledge, Finish and their inverses, StateTransitions | decides on a stale listing |
| drain controller (`vitessshardreplication/reconcile_drain`) | none of its own: a pass's listing and the primary it read | acknowledge, finish, clear, planned reparent | conflicts, partial failure, stale status, restart |
| shard initialisation (`vitessshardreplication/init_*`, `tablet_externally_reparent`) | shard record, tablet records, shard lock | InitShardPrimary, elect and promote a restored tablet, external reparent | crash between promotion and record, lock expiry, stale status |
| topology connection pool (`operator/toposerver`) | cached and dead connections, reference counts, two locks | Open, Close, liveness check, garbage collection | threads interleaving under a read-write lock |
| generic reconciler (`operator/reconciler`) | none | create, update in place, rolling update, drain and delete, turn down | stale cache, recreation under the same name |
| rolling updates (`operator/rollout`, `vitessshard/reconcile_rollout`, `vitesskeyspace/reconcile_shards`) | annotations scheduled / released / cascade, observed generations | schedule, release one tablet, cascade, uncascade | several controllers passing work by annotations |
| tablets (`vitessshard/reconcile_tablets`) | tablet Pods and volume claims, status | create, update, turn down | claim deleted under a Pod, primary turned down |
| keyspace, cluster and cell controllers, topology pruning (`operator/vitesstopo`) | child objects, topology records, orphan lists | create, turn down, prune | pruning what a blocked turn-down still needs |
| backup schedules (`controller/vitessbackupschedule`) | Jobs and volume claims; the status only reports | expand strategies, missed runs, concurrency policy, timeouts, history | stale Job lists, long outages, failure between claim and Job |
| reconcile results (`operator/results`) | none | merge requeue delays and errors | a request that is lost in a merge |
| backup storage | VitessBackup objects mirroring a bucket | list, create, delete | partial listings |
| etcd lock server | member Pods, claims, services, disruption budget | create and update members | objects that exist with other contents |
| periodic resync (`operator/resync`) | heap of timers | enqueue, fire | two unbuffered channels between the same goroutines |
| builders of Pods, Deployments, Services, claims (`operator/vttablet`, `etcd`, `vtgate`, `vtctld`, `vtadmin`, `vtorc`, `update`) | none | new, update, update in place | an update that never settles, or that restarts Pods for what somebody else has put there |
| keyspaces and shards as specs (`update/resources`, `vitesskeyspace_methods`) | none | shard templates, update in place, rolling update | two ways of updating the same object that must agree |
| defaults (`apis/planetscale/v2/*_defaults`) | none | filled in by every controller in memory | pointers shared between objects |
| names, hashes, API types, environment, metrics | none | pure functions | — |

## 2. Modules

### `Drain`, `ShardDrain`, `DrainContract`

`Drain` is `operator/drain/drain.go`: an annotated object is a record with the
three keys as Booleans, `GetState` and `StateTransitions` are the code's.

`ShardDrain` runs the drain controller of one shard against the API server.

* `log` is the stretch of the server's history of the shard's Pods the
  controller has not caught up with: `log[1]` is what the cache shows,
  `log[Len(log)]` what the server holds, and `Deliver` brings the cache one
  write closer. `MaxLag` bounds its length.
* `stale` is the set of Pods written since the pass's listing. An `Update` of
  one of them is refused: that is the `resourceVersion` check. A `Delete`
  carries the UID only, so it succeeds as long as the same Pod still exists.
* `Reconcile`, `ListPods`, `ClearDrain`/`MarkDrain` (one loop iteration each),
  `DecideReparent`, `PlannedReparent` are the pass; every API or RPC call may
  fail (`ClearFails`, `MarkFails`, `DisableFastShutdownFails`,
  `PlannedReparentFails`), and the operator may restart anywhere (`Restart`).
* Around it: drainers ask, withdraw and delete (`StartDrain`, `AbortDrain`,
  `DeleteDrained`: `drainAndDelete` in `operator/reconciler/object.go`), Pods
  are recreated, become ready or fail, the VitessShard status is rewritten
  from the cache, and the shard may fail over without the controller.

`DrainContract` is what the controller promises to drainers: leave to delete
is a single slot per shard. `ShardDrain` refines it under the mapping `SlotOf`.

### `ShardInit`

The three ways to a first primary, by `mode`: without backups
(`initShardPrimary`), with backups (`initRestoredShard` and
`electInitialShardPrimary`), and with an external MySQL
(`tabletExternallyReparent`). `rec` holds the type in each tablet's topology
record, `db` who was initialised or restored, `prim` the shard record. The
replication controller reads `status`, which `ReconcileShard` publishes and
which may miss either topology read or the latest backups. The election is
split where the code calls out: take the lock, read the records, ask the
tablets, promote, record; a call may fail, time out and still take effect, the
process may die, and the lock's lease may run out at any of these points up to
the code's last `CheckShardLocked`.

Others, such as VTOrc, which the operator always deploys, may make any running
replica primary (`OtherReparent`), also in a shard without backups that nobody
has initialised. There the tablets are asked without the shard lock
(`init_shard_primary.go:91-111`) and `InitShardPrimary` is forced (`:124`), so
that an election by others in between is lost with the data written since. The
history `race` says that such an election happened (`open`) and was overridden
(`lost`); three properties except the latter by name (`NoRaceLost`).

Vitess's `InitShardPrimary` and `PromoteReplica`, restores and vtbackup are
external: they are modelled from what the operator relies on.

### `ShardRollout`

A rolling update of one shard across two controllers. `ReconcileShard` is one
pass of the VitessKeyspace controller over the VitessShard: the two strategies
of `reconcileShards` through `ReconcileObject`. `Reconcile` to `UpdateStatus`
is a pass of the VitessShard controller: for each tablet in order
`CreatePod`, `UpdatePod` or `DeleteDrainedPod` (or none of them, `NoPodWrite`),
with the status collected on the way; then `reconcileRollout` pauses, releases
one tablet, deletes a lone primary, or takes the cascade annotation away; then
the status is written. `shardSeen` and `podsSeen` are the informer caches: each
shows some earlier state of the server and catches up in one step. An `Update`
needs the cached object to be the present one; a `Delete` does not. A pass may
break off between any two writes (`PassFails`).

The spec of a tablet is one value, `template`; `generation` and the
generation noted on the Pods are the numbers the keyspace controller compares.
A Pod is `starting`, `ready` (long enough to be Available), `deleting` or
`gone`. The drain controller is a single action that keeps `DrainContract`,
and the planned reparent; there is no failover that the operator did not ask
for. Users of the External strategy release and cascade.

A Pod also needs to be recreated when its volume has grown and its file system
has not (`NeedsRecreate`): `ResizePending` and `ResizeDone` change `claims`, the
claims that the cache shows with FileSystemResizePending, and `ResizeAnnotation`
adds the annotation to the wished Pod, so that it differs without a change of the
template. `reconcileDisk` cascades once every Pod whose claim waits is scheduled
(`CascadeForDisks`). `restarts` counts deletions for a change of the template; a
Pod that was scheduled for a resize alone (`resize`) is not counted.

### `TopoConnPool`

`operator/toposerver/connpool.go` with its users, liveness checkers, the
background connect and the collector as separate threads. The read-write lock
`openMu` is modelled with Go's rule that a waiting writer keeps new readers
out. `Open` is split at its lock, at taking the cached connection, at counting
the reference and at the end of the wait, because the collector runs in
between. `MaxDead` bounds checks that fail; `Conns` bounds the connections
ever dialled.

### `Turndown`

Bringing up and turning down one keyspace, its shards and one cell. The user
edits the VitessCluster's spec (`Edit`: `wanted`, `wantCell`) and moves traffic
(`Serve`, `Unserve`). The cluster, keyspace and cell controllers are split
where another component can make a difference: `ClusterObjects` (create,
update, turn down and orphan cells and keyspaces) before `ClusterTopology`
(register the cell, prune records, write the status), `KeyspaceObjects` before
`KeyspaceTopology`, `CellKeyspaces` before `CellPass`; the shard controller is
one step (`ShardPass`). What a pass read at its start it keeps in `cluster`,
`keyspace` and `cell`. `seen` is the informer caches, `Deliver...` refresh
them, `CollectShard`, `CollectTablets` are the garbage collector, and
`TabletsStart` a tablet that registers itself. In every step any of its calls
may fail, counted by `Losing`: a write (`lost`), or the Get or List that should
have found a child (`unread`). The operator may restart. A child whose read
fails is not recorded as an orphan, although the pass goes on to prune; the pass
remembers it in `missed`, which nothing in the code reads.

Orphans, the Idle conditions and the two pruning rules (not wanted, not
orphaned) are the code's; the user is external. `Patient` is a discipline of
the user the documentation asks for: tablet pools are taken away or
traffic is moved only when the statuses have settled (`Settled`). Without
it a stale Idle condition lets a shard be deleted to which traffic was moved
in the meantime (section 4).

### `BackupSchedule`, `BackupFrequency`, `BackupStrategies`

`BackupSchedule` is the VitessBackupSchedule controller for one shard of one
schedule against the clock: `Reconcile` lists Jobs in the cache and decides
what to delete (`Excess`, `Expired`), what runs were missed (`Missed`,
`TooManyMissed`) and whether to start the latest; `DeleteJob`, `DeleteClaim`,
`CreateClaim`, `CreateJob` and `UpdateStatus` are its calls, each of which
has a failing twin. A Job is named after its scheduled time, so `jobs` is a
function from times. Jobs end or hang, the user suspends and resumes,
passes break off, the operator may be away for any number of ticks.

`BackupFrequency` is the generation of a cron expression from a frequency.
`BackupStrategies` is the expansion of the strategies of all schedules of a
cluster to shards with their mutual exclusions.

### `Results`

`operator/results`: how a pass merges the wishes of its steps to be queued
again. Every controller model relies on it in assuming that the periodic
resync and requeue requests of a sub-step reach the work queue.

### `Updates`, `Volumes`, `TabletParts`, `Pods`

What the operator makes of an object it manages. `Updates` is
`operator/update`: a Kubernetes list whose items have a key is a function from
keys (`Merge` lays one over another; `ByKey` is a list as the user writes it,
which may repeat a key), a container is a record of what is always overwritten
and what is merged. `PodContainer` and `PodTemplateContainer` are the two rules
for a Pod that an admission webhook may have changed and for a Deployment's
template. `Volumes` is volumes from Secrets and those of backup storage,
`TabletParts` what vttablet, mysqld and vtbackup register for volumes, mounts,
flags and variables by their options (`lazy` values), and `Pods` the tablet's,
the backup's and the etcd member's Pod. `UpdatePod` says what a Pod should be,
given what it is; where `ShardRollout` has a `template`, this is what it stands
for. A flag that names a file has the mount's directory as its value, and a
hash is the data that it is taken of.

### `Deployments`, `Services`

The Deployments of vtgate, vtctld, vtadmin and VTOrc: the spec that a
controller makes for each cell, the Secrets it has to wait for or write, and
what `UpdateDeployment` and `UpdateDeploymentImmediate` make of a Deployment
that exists. `Services` has what stands next to the Pods: Services with their
overrides, claims, the etcd disruption budget, vtgate's autoscaler, the
EtcdLockserver objects, the parameters a topology is found by and what
`RegisterCells` writes of them, and `DiskCascade`, the condition under which
`reconcileDisk` has a shard's tablets restarted for their disks.

### `Keyspaces`, `KeyspaceStatus`, `Defaults`

`Keyspaces` is the specs of VitessKeyspaces and VitessShards: the shards of the
partitionings (`ShardTemplates`: the last of two with one range counts), what
is updated at once (`UpdateVitessKeyspaceInPlace`, `UpdateVitessShardInPlace`:
the set of partitionings, disk sizes, annotations) and what waits for the
release (`UpdateVitessKeyspace`, `UpdateVitessShard`). `KeyspaceStatus` is what
the keyspace controller reports of them and of resharding workflows. `Defaults`
is what each controller fills in, on records of the fields that are set;
images are on a heap, because MySQL's is behind a pointer that clusters and
keyspaces share.

## 3. Runs

| Run | Instance | Shows |
|---|---|---|
| `drain_safety` | 2 tablets, lag 3, 3 requests, aborts, 1 unplanned event | at most one finished Pod on the server (`AtMostOneFinished`); never the primary unless something unplanned happened (`NoFinishedPrimary`); no finished without acknowledged (`ValidAnnotations`); finished is not lost to a stale write (`FinishedSticks`) |
| `drain_liveness` | 3 tablets, 2 of them drained, lag 3, fairness | `ShardDrain` implements `DrainContract`; every drain finishes (`DrainCompletes`) |
| `drain_redundancy` | 3 tablets | violation: two tablets down at once (finding below) |
| `init_safety` | 3 tablets, 2 eligible, with and without backups | the record names a promoted tablet, no empty primary; one primary tablet, nothing initialised is erased, an existing primary is kept, except by `InitShardPrimary` forced over an election that others made since the tablets were asked |
| `init_liveness` | 2 tablets, with backups or external MySQL, fairness | the shard gets a primary whatever step is lost |
| `init_outofsync`, `init_stuck` | smallest instances | violations (findings below) |
| `rollout_safety` | 2 tablets, one with a claim, 1 or 2 eligible, Immediate, 2 changes or resizes | a tablet is deleted only drained and not as primary (`GracefulReplacement`), once per change, restarts for a resize alone apart (`OneRestartPerChange`) |
| `rollout_liveness` | 2 tablets, one with a claim, both eligible, both strategies, 1 change or resize, fairness | the change reaches every Pod and, once no claim waits for a resize, nothing stays scheduled or released (`RolloutCompletes`) |
| `pool` | 2 users, 1 checker, 3 connections, fairness | no use after close, exact reference counts, no leak, the cache holds no closed connection; dead connections are closed, `Open` returns |
| `backup` | runs due at 3 and 6 of 7 ticks, 16 specs, 1 suspension, 1 failure, fairness | one backup at a time under Forbid (`OneAtATime`), claims are those of the Jobs (`ClaimsMatchJobs`), trimming the history does not make a run start again (`RunsOnce`), the latest run is started after whatever outage (`LatestRunHappens`), the history is trimmed (`HistoryIsTrimmed`) |
| `turndown` | 2 shards; starts with 0 or 1 shard, up to 3 edits, 1 move of traffic, 1 failure or restart, fairness | a serving shard keeps its object and record (`ServingShardKept`), a keyspace with tablet pools is not deleted (`PopulatedKeyspaceKept`), what is kept unwanted keeps its records (`OrphansKeepRecords`), both as to records unless the pass that prunes failed to read the object; in the end the unwanted is gone (`UnwantedGoes`) and the wanted is there (`WantedComes`), stranded shards apart |

Why the bounds are enough. The drain protocol is about which of two Pods is
written on the basis of which listing: two drained Pods, a third to take over,
and three outstanding writes cover every order of request, acknowledgement,
finish and deletion of one round and the beginning of the next. The theorems
remove the bounds for every invariant and action property of all the runs; for
liveness the bounds remain. In `ShardInit` two eligible
tablets are needed for two to be promoted, the third is one that may never be.
One unplanned event is enough for each window between two calls. In
`ShardRollout` two tablets give the order of releases and the hand-over of the
primary, and the second change may arrive, or take the first one back, at any
point of its rollout, or a resize come before, during or after a change; with
one eligible tablet the lone primary is deleted without a drain. In
`BackupSchedule` two instants make a first run that may hang, time out or be
missed block or not block a second; the specs are the extremes of every limit
for both methods and both policies, and `EveryThreeTicks` has TLC check that
the instants are those of the expression `CronFromInterval` generates. In
`Turndown` one shard is deployed and the second can be added, so that there is
one to move traffic to; three edits are remove, add, remove. Longer
combinations of edits, moves and failures are cut into six starts
(`MCStarts`). In the pool,
the third connection is the one dialled while the first is dead and still
used and the second is being closed.

Fairness. Work queues call a pass again (watch events, errors, periodic
resync), watches deliver, the kubelet and the tablets make progress: weak
fairness. Calls that are retried for ever do not fail every time: strong
fairness on their success, never on anything that happens only once. In
`ShardRollout` a pass is not broken off at the same point for ever, and the
tool behind the External strategy goes on releasing. In `BackupSchedule` time
passes and the caches catch up between passes, however many there are (strong
fairness, as each waits for an open pass); Jobs need not end. In `Turndown`
controllers, watches, garbage collector and kubelet make progress; the user
need not do anything. For the
pool: Go's RWMutex hands over (strong fairness of `RLock`), connection
attempts and checks end by their time-outs. Requests, aborts, failures,
restarts and reparents by others are never fair.

## 4. Findings

* `drain_redundancy`: the health check of the drain controller reads a
  VitessShard status that may be older than the Pod listing it is combined
  with, so the promise of "only one tablet at a time" can be broken.
* `init_outofsync`: `tabletExternallyReparent` looks the shard record up under
  the Kubernetes object's name; the guard against a stale status never works.
* `init_stuck`: `initRestoredShard` compares the tablet type with "master"; the
  status says "primary", so a tablet that was promoted before a crash is not
  recognised as a candidate.

### Observations

What the models show of the code, and no run is spent on. Turning down:

* If deleting an idle shard fails once, the shard is neither desired nor
  orphaned, so the same pass prunes its topology record (`prune_shards.go`).
  Its Idle condition is then Unknown for ever and it is never turned down
  (`Stranded`, which `UnwantedGoes` excuses). The same can happen to a shard
  that is created and removed again before the cache shows it, and to a
  keyspace. If it is wanted again while its tablets run, its record does not come
  back, because only a tablet that starts creates it (`WantedComes` excuses
  that).
* A Get or List that fails returns before `OrphanStatus` is called
  (`reconciler/object.go:79-87`, `object_set.go:74-77`); the error is collected,
  and the same pass prunes without the orphan. A keyspace that is kept then
  loses its record and, as `DeleteKeyspace` is recursive, those of its shards,
  serving ones included; a shard that is kept and does not serve loses its own
  (`ForgetsKeyspace`, `ForgetsShard`).
* The Idle condition carries no observed generation, and Idle of a keyspace
  looks at its spec only: a user who takes the pools away and then the keyspace
  also removes orphaned shards that serve (documented), and one who does not
  wait for the statuses can lose a shard traffic has just been moved to
  (`Patient`).
* `PruneShards` deletes with `even_if_serving` false and `DeleteCellInfo`
  without force, so the topology server refuses what still serves.

Backup schedules:

* A failed Job that a history limit of 0 deletes is started again in the same
  instant, though a comment (`vitessbackupschedule_controller.go:775`) says
  it is not restarted until the next scheduled run; likewise a timed-out Job,
  whose Pod may still be running.
* After more missed runs than allowed nothing is scheduled ever again, contrary
  to the description of `allowedMissedRuns`.
* If a vtbackup Job cannot be created after its volume claim, every later try
  of the run fails on the claim (`LatestRunHappens` excludes it); a claim is
  deleted even if deleting its Job failed.
* `startingDeadlineSeconds` 0 never runs anything. The Job watch maps the owner
  kind VitessBackupStorage instead of VitessBackupSchedule. The concurrency
  policy Replace is documented but not implemented. Jobs of a shard that is no
  longer covered are no longer trimmed or timed out.
* Exclusion between schedules judges each peer without that peer's peers, so a
  keyspace can be backed up by two schedules; `NoShardForgotten` shows that it
  is never backed up by none.

First primaries and rollouts:

* In a shard without backups `initShardPrimary` asks the tablets whether they
  are initialised without the shard lock and then forces `InitShardPrimary`
  (`init_shard_primary.go:91-124`). A primary that VTOrc elects in between is
  replaced and what was written to it erased, and two tablets may claim to be
  primary for a while: without the exception (`NoRaceLost`), `NeverErased`,
  `PrimaryKept` and `OnePrimaryTablet` fail. The record still names a primary
  (`RecordNamesPrimary`).
* A change of the image and of the disk size in one edit may restart a tablet
  twice: for the template, and again once its claim has
  FileSystemResizePending (`reconcile_tablets.go:185`, `402-438`). A cache of
  claims that lags behind the resize can repeat the second restart.

Others:

* `Builder.RequeueAfter` with a delay that is not positive overwrites an
  earlier request, though its comment says it has no effect; the theorems are
  about positive delays.
* `DockerImageSafeUpgrade` (`operator/mysql/mysql.go:111`) compares the desired
  major version with the current minor one, so that minor downgrades (8.4 to
  8.0) are let through. `UpdateMySQLServerVersion` keeps the version in a global
  that concurrent passes of different clusters overwrite.

Pods and Deployments:

* A sidecar or an extra volume that is taken out of the spec stays in the Pod:
  neither is in the hash of the desired state (`TabletHash`), and `UpdatePod`
  removes nothing. A container whose wanted security context is nil, such as a
  user's sidecar, loses the one a webhook has set (`update/podspec.go:183`), so
  its Pod counts as changed for as long as the webhook sets it again.
* "Apply user-provided flag overrides last so they take precedence"
  (`vttablet/pod.go:81`): not over `mysql_server_version`, which is set
  afterwards, in vtctld too but not in vtgate; nor over the storage flags of
  vtbackup. Two keys that differ in leading dashes are the same flag, and
  either wins.
* extraLabels that contradict the operator's own make the update in place and
  the rolling update undo one another, take a Pod out of its Service
  (`ServicesFindPods` excludes them) and make a Deployment's template not match
  its selector.
* `updateTabletPoolDiskSize` dereferences the claim template of a pool that had
  none (`update/resources.go:74`); `updateDiskSize` indexes equal partitionings
  against custom ones when a partitioning has both.
* Two pools of one cell and type without an external datastore have the same
  tablet UIDs (`TabletUid`).
* vtgate's TLS Secret given as a volume has the empty name for
  `ReloadSecretNames`, which `GetByNames` does not find, so that vtgate is never
  deployed or updated (`CanDeployVtgate`).
* `reconcileVtadmin` logs that it is not deploying vtadmin when the addresses do
  not fit the cells (`reconcile_vtadmin.go:55`) but goes on, and indexes them
  (`:191`) by the position among the cells that exist.
* The label selector in a VitessCell's status is joined in map order
  (`vitesscell/reconcile_vtgate.go:170`): a status that differs each time makes
  the next pass.
* Switching off an etcd cluster's Services or disruption budget leaves those that
  exist (`EtcdPass`). A claim that asks for less than the volume has makes
  `reconcileDisk` wait for ever, for all tablets of the shard (`DiskCascade`
  with `UpdatePVCInPlace`).
* Requests and limits are defaulted independently: more memory requested than the
  default limit and no limit given is a Pod that the API server refuses.
* A disk size changed together with the list of partitionings reaches a
  VitessKeyspace only with the second pass (`KeyspaceInPlaceSettles`).
  `ReshardingInSync` is True if one stream runs and others are stopped.

## 5. Proofs

| Module | Proves, for every value of the constants |
|---|---|
| `ShardDrainProofs` | `TypeOK`, `AtMostOneFinished`, `ValidAnnotations`, `FinishedSticks`, `NoFinishedPrimary`; where nothing is aborted and nothing unplanned happens, `ImplementsContract` |
| `ShardInitProofs` | `TypeOK`, `OnePrimaryTablet`, `RecordNamesPrimary`, `PrimaryHasData`, `NeverErased`; without external MySQL, `PrimaryKept` |
| `ShardRolloutProofs` | `TypeOK`, `GracefulReplacement`, `OneRestartPerChange` |
| `TopoConnPoolProofs` | `TypeOK`, `NoUseAfterClose`, `RefCountExact`, `NoConnectionLeak`, `CacheIsUsable` |
| `BackupProofs` | `TypeOK`, `OneAtATime`, `ClaimsMatchJobs`, `RunsOnce`; facts about frequencies and strategies |
| `TurndownProofs` | `TypeOK`; for a patient user, `ServingShardKept`, `PopulatedKeyspaceKept`, `OrphansKeepRecords` |
| `ObjectProofs` | facts about Pods, Deployments, Services and claims |
| `SpecProofs` | facts about keyspaces, shards, defaults and merged results |

Each of the first six rests on the named assumption of its model only
(`ShardDrainAssumption` and so on: the types of the constants). Those that say
more: tablets and instants are integers, because the code orders them;
`None` is none of the values it stands beside; `Shards` is finite, as a spec is,
without which there need not be a UID that is still free (`FreshIsNat`).

### Invariants, and why they are needed

None of the properties below is inductive as it stands; each proof finds the
invariant that is, and has one lemma for each action or group of actions. TLC
has checked each invariant on the run's instance.

`ShardDrainProofs`. A pass may be about to write a decision that was right for
its listing and is wrong for the server. `Inv` says what the part of the
history that a pass has not seen may contain (`LogInv`): a Pod that nobody wrote
is the same in both; a Pod acknowledged since was a plain request in the
listing, so that the pass finishes nothing; a Pod finished since was the
listing's first acknowledged drain, so that the pass can only finish the same
one again. And what an open pass may still write (`PassInv`): its view agrees
with the server on every Pod outside `stale`. On top of it `PrimaryInv` has
`NoFinishedPrimary`: as long as nothing unplanned happens the primary that a
pass has read is the primary. `GrantInv` has the refinement (`KeepsContract`):
every write of a Pod moves its slot as the contract allows or leaves it
(`Moves`), because a finished Pod stays finished in all later snapshots until
it is gone.

`ShardInitProofs`. What an election read under the shard lock stays true as
long as the lock is held, and it promotes and records only then (`Locked`);
once a tablet is promoted, the lock lasts until the record is written or the
pass is over. An initialisation from scratch starts when no tablet is
initialised, unless others initialised one since the tablets were asked
(`Data`): `OnePrimaryTablet`, `NeverErased` and `PrimaryKept` hold up to the step
in which such a race is lost (`NoRaceLost`). `PrimaryKept` also needs the
assumption that MySQL is not external; `init_outofsync` shows it broken otherwise.

`ShardRolloutProofs`. `DeleteDrainedPod` decides on the cached Pod and deletes
by name. A Pod that the cache shows as drained is drained on the server or gone
(`Inv`), because a Pod of the same name is only created after the cache has
shown the old one gone; a drained Pod is never the primary's, because the drain
controller neither finishes a primary nor promotes a drained tablet. That a
tablet restarts at most once for each change needs the generations of the
VitessShard as a clock: a generation stands for one template (`Ordered`), each
after the first is due to a change (`Counted`), and a Pod that was restarted n
times is of generation n + 1 at least and is scheduled, unless for a resize alone,
only for a later one (`Fits`). Restarts for a resize alone are not counted and not
bounded. `GracefulReplacement` supposes, as the module does, that no unplanned
failover makes a drained tablet primary.

`TopoConnPoolProofs`. Between taking a connection and counting its reference a
goroutine holds `openMu` for reading, which keeps the collector out (`Locking`);
from then on the reference does, and a count is the number of goroutines that
owe a decrement (`Counting`). `Living` says where the pool keeps each connection
that is open, and that whoever has one at hand finds it open.

`BackupProofs`. A pass counts active Jobs in a cache that may be behind. The
only Job it can miss is that of the latest instant that has passed, and that
is the one the pass would create, whose name is taken (`Running`). `Claimed` is
`ClaimsMatchJobs` at each point of a pass, and says that what is to be deleted
has its claim in the cache. A Job trimmed from the history has a later instant
behind it that has passed, and only the latest is ever started (`Trimming`).

`TurndownProofs`. Every parent decides from a status that is old when it is
written and older when it is read. What saves a serving shard is that all
copies err on the same side: a shard on its way out was there and was seen when
it was removed (`Lagging`), and if it serves, or its status says so, no copy of
it says that it is idle (`Guarded`). A keyspace that was removed is seen as it is
(`Removed`), one that was added again starts from nothing (`Clean`); what the
open passes of the cluster and keyspace controllers remember still holds, also of
what they failed to read (`ClusterRemembers`, `KeyspaceRemembers`), so that only
such a pass prunes a record that is kept (`ForgetsKeyspace`, `ForgetsShard`). The
hypothesis `Patient` is the
user's discipline of section 2, the same as in the run; types are proved
without it, and so is that a fresh UID exists.

### Pure functions

`BackupProofs`, about schedules:

* `CronIsExact`: for every frequency the validation admits and every offset, the
  generated cron expression fires exactly at the minutes that are the offset
  apart from a multiple of the frequency. The valid frequencies are enumerated
  by two lemmas on the divisors of 60 and 24; hours and minutes are then
  compared separately.
* `NoShardForgotten`: as long as an accepted schedule has a strategy for the
  whole cluster, every shard is backed up by some schedule. A keyspace is only
  excluded for a peer that names it and is valid with its own exclusions alone;
  more exclusions make a schedule expand to less (`ExpandMonotone`), so that it
  has no more duplicates than it was judged by, and is accepted.

The theorems about the builders have one argument in common. Laying a map over
another twice is laying it once (`MergeTwice`); with a third map in between it
still is, if the same is done again (`MergeBothTwice`): that is why sidecars
and operator containers may share a name. From there `ObjectProofs` has

* of Pods: an update is idempotent (`UpdateIsIdempotent`), a Pod recreated for
  its spec needs no other restart (`TabletRestartsEnd`, `EtcdRestartsEnd`: the
  rollouts of `ShardRollout` end), an update in place is part of the whole one
  (`InPlaceIsPart`), labels, annotations, volumes and containers that a webhook adds
  are tolerated, and so are mounts and resources that it adds to the operator's
  own containers, but not a changed image, argument or variable
  (`InjectionsAreTolerated`); every container and init container of a tablet's Pod
  that the operator asks for, and vtbackup's, mounts volumes of its Pod or ones
  the user names (`TabletMountsHaveVolumes`); and every file that a flag names is
  mounted (`TabletFilesAreMounted`);
* the same of Deployments (`DeploymentIsIdempotent`, `ImmediateIsPart`); Services
  find the Pods that other controllers make (`ServicesFindPods`) and settle with
  the first pass (`ServiceSettles`); claims never shrink (`VolumesOnlyGrow`);

and `SpecProofs`

* the two ways of updating a keyspace or shard agree (`KeyspaceInPlaceIsPart`,
  `ShardInPlaceIsPart`), in place nothing but disk sizes changes
  (`OnlyDiskSizes`) and nothing of an existing partitioning
  (`PartitioningsFollow`), the user's annotations come and go and others stay
  (`AnnotationsFollow`), and both updates in place settle
  (`ShardInPlaceSettles`; `KeyspaceInPlaceSettles` after two);
* what a controller hands to the next is defaulted already, so that the order in
  which they look at an object does not matter (`KeyspacesAreDefaulted`,
  `ShardsAreDefaulted`), and an image that a keyspace overrides is overridden for
  it alone (`ImagesStayApart`);
* a merged result has the object queued exactly by the time one of its parts
  asked for (`MergeIsSoonest`, `RequeueAfterIsSoonest`, for positive delays), and
  order and nesting of merges do not matter (`MergeOrderIsIrrelevant`, because a
  result is determined by when it has the object queued).

Their assumptions are the types of the records they are about, and, for
`ServicesFindPods`, labels that do not contradict. These modules have no
behaviours of their own, so no run checks them.

### Only model-checked

Liveness, because fairness and ENABLED are out of the prover's reach:
`DrainCompletes`, `ShardGetsPrimary`, `RolloutCompletes`, `DeadConnsClosed`,
`OpenReturns`, `LatestRunHappens`, `HistoryIsTrimmed`, `UnwantedGoes`,
`WantedComes`. `ImplementsContract` is proved of the controller without aborts and
unplanned failures, which is also where it holds: the contract has no step for
a request that is withdrawn.

## 6. Plan

In this order:

1. Unwanted tablets and their volume claims (`vitessshard/reconcile_tablets`).
2. `ResyncPeriodic`: the channel loop the fairness above rests on.
3. `BackupStorage` and its subcontroller; the rolling restart of etcd members.
4. Theorems: which of `Turndown`'s properties hold without `Patient`, and when
   `PrimaryKept` holds with external MySQL; a flag-by-flag account of what
   vtgate's and vtctld's Deployments mount, as `TabletFilesAreMounted` is for
   tablets.

## 7. Not modelled

The names of objects and the content hashes are taken to be injective, and so are
tablet UIDs; probes, ports, scripts and the wording of flags are left out of
Pods; metrics, events and logging hold no decisions. The mirroring of backups,
the resync timers, cell aliases and the turn-down of unwanted tablets are in
the plan. The VitessShard status is abstracted to the fields read by the modelled
controllers. Leader election is an external library: every model has one
operator process at a time. The topology server and tablets are assumed to do
what the Vitess calls promise; a lock lease that ends between
`CheckShardLocked` and the call after it is outside the model (a hazard with
that note).
