------------------------------- MODULE Defaults -------------------------------
(***************************************************************************)
(* apis/planetscale/v2/*_defaults.go: what a controller fills in for what  *)
(* the user leaves out.  It does so in memory, each time it looks at an    *)
(* object, and what it makes of it goes into the objects below, where the  *)
(* next controller fills in again.                                         *)
(*                                                                         *)
(* A spec is a function from the fields that are set to their values; an   *)
(* empty list, map or string is not set.  Resources are counted in         *)
(* thousandths of a CPU and in mebibytes.                                  *)
(***************************************************************************)
EXTENDS Updates

CONSTANT DefaultEtcdImage  \* --default_etcd_image

Default(given, defaults) == Merge(defaults, IF given = None THEN Empty ELSE given)

Requests(cpu, memory) == [cpu |-> cpu, memory |-> memory]

-----------------------------------------------------------------------------
(* Parts *)

\* DefaultServiceOverrides.
DefaultServiceOverrides(service) == Default(service, Empty)

WithService(spec, field) == Merge(spec, One(field, DefaultServiceOverrides(
                              IF field \in DOMAIN spec THEN spec[field] ELSE None)))

\* DefaultEtcdLockserverTemplate.  Storage is filled in next to what else a claim
\* requests; CPU and memory only where nothing at all is requested.
DefaultEtcdLockserver(ls) ==
  LET given == IF ls = None THEN Empty ELSE ls
      storage == IF "claimRequests" \in DOMAIN given THEN given["claimRequests"] ELSE None
      etcd == Default(given, [image        |-> DefaultEtcdImage,
                              accessModes  |-> {"ReadWriteOnce"},
                              requests     |-> Requests(100, 256),
                              limits       |-> [memory |-> 256],
                              createPDB    |-> TRUE,
                              createClientService |-> TRUE,
                              createPeerService   |-> TRUE])
  IN  WithService(WithService(
        Merge(etcd, One("claimRequests", Default(storage, [storage |-> 1024]))),
        "clientService"), "peerService")

\* defaultGlobalLockserver, DefaultLocalLockserver: a cell has an etcd of its own
\* only if one is asked for.
DefaultGlobalLockserver(gls) ==
  IF gls.external # None THEN gls
  ELSE [external |-> None, etcd |-> DefaultEtcdLockserver(gls.etcd)]

DefaultLocalLockserver(ls) ==
  IF ls.external # None \/ ls.etcd = None THEN ls
  ELSE [external |-> None, etcd |-> DefaultEtcdLockserver(ls.etcd)]

\* DefaultVitessDashboard.
DefaultVitessDashboard(spec) ==
  WithService(Default(spec, [replicas |-> 1, requests |-> Requests(100, 128),
                             limits |-> [memory |-> 128]]), "service")

\* DefaultVtAdmin: not deployed unless there is one.
DefaultVtAdmin(spec) ==
  IF spec = None THEN None
  ELSE WithService(Default(spec, [replicas |-> 1, fetchCredentials |-> "omit",
                                  webRequests |-> Requests(100, 128), webLimits |-> [memory |-> 128],
                                  apiRequests |-> Requests(100, 128), apiLimits |-> [memory |-> 128]]),
                   "service")

\* DefaultVitessOrchestrator.
DefaultVitessOrchestrator(spec) ==
  WithService(Default(spec, [requests |-> Requests(100, 128), limits |-> [memory |-> 128]]), "service")

\* DefaultVitessGateway.
DefaultVitessGateway(spec) ==
  WithService(Default(spec, [replicas |-> 2, requests |-> Requests(500, 1024),
                             limits |-> [memory |-> 1024]]), "service")

\* DefaultTopoReconcileConfig.
DefaultTopoReconcileConfig(conf) ==
  Default(conf, [f \in {"registerCells", "registerCellsAliases", "pruneCells", "pruneKeyspaces",
                        "pruneShards", "pruneShardCells", "pruneTablets", "pruneSrvKeyspaces"} |-> TRUE])

\* DefaultUpdateStrategy.
DefaultUpdateStrategy(strategy) ==
  LET typed == Default(strategy, [type |-> "External"])
  IN  IF typed["type"] = "External" THEN Default(typed, [external |-> Empty]) ELSE typed

\* DefaultVitessShardTemplate, DefaultVitessReplicationSpec.
DefaultVitessShardTemplate(template) ==
  [replication |-> Default(template.replication, [initializeMaster |-> TRUE, initializeBackup |-> TRUE,
                                                  recoverRestartedMaster |-> TRUE]),
   rest        |-> template.rest]

\* DefaultVitessKeyspaceTemplate; templates are those of its partitionings' shards.
DefaultVitessKeyspaceTemplate(keyspace) ==
  [turndown  |-> IF keyspace.turndown = None THEN "RequireIdle" ELSE keyspace.turndown,
   templates |-> [i \in DOMAIN keyspace.templates |-> DefaultVitessShardTemplate(keyspace.templates[i])],
   vtorc     |-> keyspace.vtorc]

DefaultClusterBackup(backup) == IF backup = None THEN None ELSE Default(backup, [engine |-> "builtin"])

-----------------------------------------------------------------------------
(* Objects *)

\* DefaultVitessCluster, but for its images, which are below.
DefaultVitessCluster(vt) ==
  [lockserver     |-> DefaultGlobalLockserver(vt.lockserver),
   dashboard      |-> DefaultVitessDashboard(vt.dashboard),
   vtadmin        |-> DefaultVtAdmin(vt.vtadmin),
   keyspaces      |-> [i \in DOMAIN vt.keyspaces |-> DefaultVitessKeyspaceTemplate(vt.keyspaces[i])],
   backup         |-> DefaultClusterBackup(vt.backup),
   topology       |-> DefaultTopoReconcileConfig(vt.topology),
   strategy       |-> DefaultUpdateStrategy(vt.strategy),
   gatewayService |-> DefaultServiceOverrides(vt.gatewayService),
   tabletService  |-> DefaultServiceOverrides(vt.tabletService)]

\* DefaultVitessKeyspace.
DefaultVitessKeyspace(vtk) ==
  [template |-> [turndown |-> vtk.template.turndown, templates |-> vtk.template.templates,
                 vtorc |-> DefaultVitessOrchestrator(vtk.template.vtorc)],
   topology |-> DefaultTopoReconcileConfig(vtk.topology),
   strategy |-> DefaultUpdateStrategy(vtk.strategy)]

\* DefaultVitessShard.
DefaultVitessShard(vts) ==
  [template |-> DefaultVitessShardTemplate(vts.template), vtorc |-> vts.vtorc,
   topology |-> DefaultTopoReconcileConfig(vts.topology),
   strategy |-> DefaultUpdateStrategy(vts.strategy)]

\* DefaultVitessCell.
DefaultVitessCell(vtc) ==
  [lockserver |-> DefaultLocalLockserver(vtc.lockserver),
   gateway    |-> DefaultVitessGateway(vtc.gateway),
   topology   |-> DefaultTopoReconcileConfig(vtc.topology)]

\* What newVitessKeyspace and newVitessShard hand on, as far as it is defaulted.
KeyspaceOf(vt, i) == [template |-> vt.keyspaces[i], topology |-> vt.topology, strategy |-> vt.strategy]

ShardOf(vtk, i) == [template |-> vtk.template.templates[i], vtorc |-> vtk.template.vtorc,
                    topology |-> vtk.topology, strategy |-> vtk.strategy]

-----------------------------------------------------------------------------
(* Images                                                                  *)
(*                                                                         *)
(* MySQL's image is behind a pointer, and the operator's own default is    *)
(* shared by every cluster that names none.  "heap" is the images by their *)
(* addresses; of a spec's images, "mysqld" is an address.                  *)

\* MysqldImage: the first of the flavors that has an image; those of MariaDB, which
\* only a cluster may have, come last.
Image(image) ==
  CASE image.mysql56 # None -> image.mysql56
    [] image.mysql56 = None /\ image.mysql80 # None -> image.mysql80
    [] OTHER -> image.mariadb

\* DefaultVitessImages copies the pointer.
DefaultVitessImages(images, defaults) == Default(images, defaults)

\* DefaultVitessCellImages.
CellImages(images, cluster) == Default(images, Only(cluster, {"vtgate"}))

\* DefaultVitessKeyspaceImages for an empty destination, at a new address ...
KeyspaceDefaults(cluster, new) ==
  Merge(Only(cluster, {"vttablet", "vtorc", "vtbackup", "mysqldExporter"}), One("mysqld", new))

Copied(heap, cluster, new) == Merge(heap, One(new, heap[cluster["mysqld"]]))

\* ... and MergeVitessKeyspaceTemplateImages, which writes through the pointer.
KeyspaceImages(cluster, own, new) ==
  Merge(KeyspaceDefaults(cluster, new), Only(own, {"vttablet", "vtorc", "vtbackup", "mysqldExporter"}))

Written(heap, images, own) ==
  IF "mysqld" \notin DOMAIN own THEN heap
  ELSE Merge(heap, One(images["mysqld"], [mysql56 |-> own["mysqld"].mysql56,
                                          mysql80 |-> own["mysqld"].mysql80,
                                          mariadb |-> heap[images["mysqld"]].mariadb]))

\* The memory after newVitessKeyspace has put a keyspace's images together.
HeapAfter(heap, cluster, own, new) ==
  Written(Copied(heap, cluster, new), KeyspaceImages(cluster, own, new), own)
===============================================================================
