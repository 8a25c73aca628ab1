--------------------------------- MODULE Pods ---------------------------------
(***************************************************************************)
(* The Pods the operator manages itself: tablets (operator/vttablet/pod.go)*)
(* and members of an etcd cluster (operator/etcd/pod.go).  UpdatePod says  *)
(* what a Pod should be, given what it is.  If it is something else it has *)
(* to be recreated, which ShardRollout schedules: there, the template of a *)
(* Pod is what UpdatePod makes of it.                                      *)
(***************************************************************************)
EXTENDS TabletParts

-----------------------------------------------------------------------------
(* Laying a desired Pod over one that exists                               *)

\* "fixed" fields are overwritten, "optional" ones only if the operator is
\* configured to set them.
UpdatePod(pod, want) ==
  [labels      |-> Merge(pod.labels, want.labels),
   annotations |-> Merge(pod.annotations, want.annotations),
   init        |-> PodContainers(PodContainers(pod.init, want.init), want.userInit),
   containers  |-> PodContainers(PodContainers(pod.containers, want.sidecars), want.containers),
   volumes     |-> Merge(pod.volumes, want.volumes),
   tolerations |-> Merge(pod.tolerations, want.tolerations),
   spread      |-> Merge(pod.spread, want.spread),
   fixed       |-> want.fixed,
   optional    |-> Merge(pod.optional, want.optional)]

Blank ==
  [labels |-> Empty, annotations |-> Empty, init |-> Empty, containers |-> Empty,
   volumes |-> Empty, tolerations |-> Empty, spread |-> Empty, fixed |-> None,
   optional |-> Empty]

\* NewPod.
NewPod(want) == UpdatePod(Blank, want)

\* UpdatePodInPlace: what changes without a restart.
UpdatePodInPlace(pod, spec) == [pod EXCEPT !.labels = Merge(@, spec.labels)]

HashKey == "planetscale.com/desired-state-hash"

-----------------------------------------------------------------------------
(* Which tablets a shard has (reconcile_tablets.go, vttabletSpecs) *)

\* UID and UIDWithPoolName, taken to be injective: each is what it hashes.
UID(cell, type, index) == <<cell, type, index>>
UIDWithPoolName(cell, type, index, name) == <<cell, type, index, name>>

TabletUid(pool, index) ==
  IF pool.external # None /\ pool.name # None
  THEN UIDWithPoolName(pool.cell, pool.type, index, pool.name)
  ELSE UID(pool.cell, pool.type, index)

TabletAlias(pool, index) == [cell |-> pool.cell, uid |-> TabletUid(pool, index)]

\* The annotations every Pod of the pool gets; the first makes the Pod's node
\* wait for a drain.
PoolAnnotations(pool, location) ==
  Merge(Merge(One("drain.planetscale.com/supported", "ensure that the tablet is not a primary"),
              pool.annotations),
        IF location = None THEN Empty ELSE location.annotations)

\* The flags of a pool's user win over those of the cluster's.
PoolExtraFlags(shard, pool) == Merge(shard.extraVitessFlags, pool.extraFlags)

\* The tablets that a shard should have, by alias.
TabletSpecs(shard) ==
  UNION {{[alias |-> TabletAlias(shard.pools[p], i), pool |-> p, index |-> i] :
            i \in 1..shard.pools[p].replicas} : p \in DOMAIN shard.pools}

-----------------------------------------------------------------------------
(* A tablet's Pod *)

RestorePath == "builtinbackup-incremental-restore-path"

WithRestorePath(flags) == Merge(One(RestorePath, "/vt/vtdataroot"), flags)

TabletFlags(spec) ==
  ServerVersion(WithRestorePath(Merge(VttabletFlags(spec), spec.overrides)), spec.version)

TabletEnv(spec) ==
  Merge(Gomaxprocs(Merge(VttabletEnvVars(spec), TabletEnvVars(spec)), spec.limits), spec.extraEnv)

VttabletContainer(spec) ==
  [rest     |-> [image |-> spec.images.vttablet, args |-> TabletFlags(spec),
                 env |-> TabletEnv(spec), lifecycle |-> spec.lifecycle],
   pull     |-> spec.pulls.vttablet,
   limits   |-> Merge(Empty, spec.limits),
   requests |-> Merge(Empty, spec.requests),
   security |-> spec.security,
   mounts   |-> Merge(Merge(VttabletVolumeMounts(spec), TabletVolumeMounts(spec)), spec.extraMounts)]

MysqldMounts(spec) == Merge(Merge(MysqldVolumeMounts(spec), TabletVolumeMounts(spec)), spec.extraMounts)

MysqldContainer(spec) ==
  [rest     |-> [image |-> spec.images.mysqld, args |-> ServerVersion(MysqlctldFlags(spec), spec.version),
                 env |-> Merge(TabletEnvVars(spec), spec.extraEnv), lifecycle |-> None],
   pull     |-> spec.pulls.mysqld,
   limits   |-> Merge(Empty, spec.mysqld.limits),
   requests |-> Merge(Empty, spec.mysqld.requests),
   security |-> spec.security,
   mounts   |-> MysqldMounts(spec)]

\* The exporter's resources are the user's, or the default ones as a whole.
ExporterContainer(spec) ==
  LET given == IF spec.exporter.limits = Empty /\ spec.exporter.requests = Empty
               THEN spec.exporterDefaults ELSE spec.exporter
  IN  [rest     |-> [image |-> spec.images.exporter,
                     args |-> Merge(One("base", "mysqld_exporter"), spec.exporter.overrides),
                     env |-> Merge(One("DATA_SOURCE_NAME", "socket"), spec.extraEnv), lifecycle |-> None],
       pull     |-> spec.pulls.exporter,
       limits   |-> Merge(Empty, given.limits),
       requests |-> Merge(Empty, given.requests),
       security |-> spec.security,
       mounts   |-> MysqldMounts(spec)]

\* With an external MySQL there is neither a mysqld nor an exporter, and there
\* is no exporter without an image.
TabletContainers(spec) ==
  LET tablet == One("vttablet", VttabletContainer(spec))
      mysqld == One("mysqld", MysqldContainer(spec))
      exporter == One("mysqld-exporter", ExporterContainer(spec))
  IN  CASE spec.mysqld = None -> tablet
        [] spec.mysqld # None /\ spec.images.exporter = None -> Merge(tablet, mysqld)
        [] OTHER -> Merge(Merge(tablet, mysqld), exporter)

\* desiredstatehash.Builder; an item that is empty is left out, which tells no
\* less.  Sidecars are not part of it.  The key of a spread constraint is its
\* labels, "how" its skew, topology key and what to do if it cannot be met.
TabletHash(spec) ==
  [labels      |-> DOMAIN spec.extraLabels,
   annotations |-> DOMAIN spec.annotations,
   storage     |-> spec.storage,
   init        |-> ContainersUpdates(Merge(TabletInitContainers(spec), spec.userInit)),
   containers  |-> ContainersUpdates(TabletContainers(spec)),
   tolerations |-> spec.tolerations,
   spread      |-> [i \in DOMAIN spec.spread |-> <<spec.spread[i].key, spec.spread[i].how>>]]

\* What UpdatePod asks of a tablet's Pod.
TabletPod(spec) ==
  [labels      |-> Merge(spec.labels, spec.extraLabels),
   annotations |-> Merge(Merge(spec.annotations, One(HashKey, TabletHash(spec))),
                         TabletAnnotations(spec)),
   init        |-> TabletInitContainers(spec),
   userInit    |-> spec.userInit,
   sidecars    |-> spec.sidecars,
   containers  |-> TabletContainers(spec),
   volumes     |-> Merge(TabletVolumes(spec), spec.extraVolumes),
   tolerations |-> ByKey(spec.tolerations),
   spread      |-> ByKey(spec.spread),
   fixed       |-> [pullSecrets |-> spec.pullSecrets,
                    gracePeriod |-> IF spec.gracePeriod = None THEN 1800 ELSE spec.gracePeriod,
                    affinity |-> IF spec.affinity = None THEN spec.defaultAffinity ELSE spec.affinity],
   optional    |-> spec.optional]

\* NewBackupPod: it is never updated, so it is not laid over anything.  It does
\* the work of vttablet and of mysqld, with the binary of its own image.
BackupMounts(spec) ==
  Merge(Merge(Merge(Merge(One("/etc/ssl/certs", "vt-root"), MysqldVolumeMounts(spec)),
                    TabletVolumeMounts(spec)),
              VttabletVolumeMounts(spec)),
        spec.extraMounts)

BackupPod(spec) ==
  LET container ==
        [rest     |-> [image |-> spec.images.mysqld,
                       args |-> ServerVersion(WithRestorePath(VtbackupFlags(spec)), spec.version),
                       env |-> Merge(Merge(VttabletEnvVars(spec), TabletEnvVars(spec)), spec.extraEnv)],
         pull     |-> spec.pulls.mysqld,
         limits   |-> Merge(Empty, spec.mysqld.limits),
         requests |-> Merge(Empty, spec.mysqld.requests),
         security |-> spec.security,
         mounts   |-> BackupMounts(spec)]
      init ==
        [rest     |-> [image |-> spec.images.vtbackup, args |-> "vtbackupInitScript"],
         pull     |-> spec.pulls.vtbackup,
         limits   |-> Empty,
         requests |-> Empty,
         security |-> spec.security,
         mounts   |-> One("/mnt/vt", "vt-root")]
  IN  [Blank EXCEPT !.labels = spec.labels,
                    !.annotations = TabletAnnotations(spec),
                    !.init = PodContainers(One("init-vt-root", init), spec.userInit),
                    !.containers = PodContainers(One("vtbackup", container), spec.sidecars),
                    !.volumes = Merge(TabletVolumes(spec), spec.extraVolumes),
                    !.fixed = [pullSecrets |-> spec.pullSecrets, affinity |-> spec.affinity,
                               tolerations |-> spec.tolerations]]

-----------------------------------------------------------------------------
(* Members of an etcd cluster *)

NumReplicas == 3
Members == 1..NumReplicas

\* The URL that etcd members know one another by, as a pair of the lock server
\* and the index of the member.
PeerURL(spec, i) == <<spec.lockserver, i>>

\* Spec.Args: the URLs of all members, which the user may give.
PeerURLs(spec) ==
  IF Len(spec.advertisePeerURLs) = NumReplicas
  THEN spec.advertisePeerURLs
  ELSE [i \in Members |-> PeerURL(spec, i)]

\* ... and the flags of the member with spec.index.
EtcdFlags(spec) ==
  Merge([f \in {"name", "initial-advertise-peer-urls", "initial-cluster"} |->
           CASE f = "name" -> spec.index
             [] f = "initial-advertise-peer-urls" -> PeerURLs(spec)[spec.index]
             [] f = "initial-cluster" -> PeerURLs(spec)],
        spec.overrides)

EtcdContainer(spec) ==
  [rest     |-> [image |-> spec.image, args |-> EtcdFlags(spec),
                 env |-> Merge(spec.env, spec.extraEnv)],
   pull     |-> spec.pull,
   limits   |-> Merge(Empty, spec.limits),
   requests |-> Merge(Empty, spec.requests),
   security |-> spec.security,
   mounts   |-> Merge(One("/var/etcd", "data"), spec.extraMounts)]

EtcdContainers(spec) == One("etcd", EtcdContainer(spec))

EtcdHash(spec) ==
  [labels      |-> DOMAIN spec.extraLabels,
   annotations |-> DOMAIN spec.annotations,
   init        |-> ContainersUpdates(spec.userInit),
   containers  |-> ContainersUpdates(EtcdContainers(spec)),
   tolerations |-> spec.tolerations]

\* What UpdatePod asks of a member's Pod.
EtcdPod(spec) ==
  [labels      |-> Merge(spec.labels, spec.extraLabels),
   annotations |-> Merge(spec.annotations, One(HashKey, EtcdHash(spec))),
   init        |-> Empty,
   userInit    |-> spec.userInit,
   sidecars    |-> spec.sidecars,
   containers  |-> EtcdContainers(spec),
   volumes     |-> Merge(One("data", spec.claim), spec.extraVolumes),
   tolerations |-> ByKey(spec.tolerations),
   spread      |-> Empty,
   fixed       |-> [hostname |-> spec.index, subdomain |-> spec.lockserver,
                    pullSecrets |-> spec.pullSecrets,
                    affinity |-> IF spec.affinity = None THEN spec.defaultAffinity ELSE spec.affinity],
   optional    |-> spec.optional]
===============================================================================
