------------------------------- MODULE Services -------------------------------
(***************************************************************************)
(* What else the operator keeps next to the Pods: the Services that find   *)
(* them, the volume claims of their data, an etcd cluster's disruption     *)
(* budget, vtgate's autoscaler, and the address that the topology is found *)
(* at.  Each is made once and laid over with what may change later.        *)
(***************************************************************************)
EXTENDS Deployments, Pods, FiniteSets

-----------------------------------------------------------------------------
(* Services (operator/*/service.go) *)

ServicePorts ==
  [vtgate |-> {"web", "grpc", "mysql"}, vtctld |-> {"web", "grpc"}, vtadmin |-> {"web", "api"},
   vttablet |-> {"web", "grpc", "metrics"}, client |-> {"client"}, peer |-> {"peer"}]

Headless == {"vttablet", "peer"}

\* UpdateService, UpdateClientService, UpdatePeerService.
UpdateService(svc, kind, labels) ==
  [labels      |-> Merge(svc.labels, labels),
   annotations |-> svc.annotations,
   selector    |-> labels,
   ports       |-> ServicePorts[kind],
   clusterIP   |-> svc.clusterIP,
   notReady    |-> svc.notReady]

\* NewService, NewClientService, NewPeerService.  An address that is None is
\* chosen by the API server.  Members of etcd find one another before they are
\* ready.
NewService(kind, labels) ==
  UpdateService([labels |-> Empty, annotations |-> Empty, selector |-> Empty, ports |-> {},
                 clusterIP |-> IF kind \in Headless THEN "headless" ELSE None,
                 notReady |-> kind = "peer"],
                kind, labels)

\* InPlaceServiceOverrides: an address cannot change.
InPlaceServiceOverrides(svc, overrides) ==
  [labels |-> svc.labels, annotations |-> Merge(svc.annotations, overrides.annotations),
   selector |-> svc.selector, ports |-> svc.ports,
   clusterIP |-> svc.clusterIP, notReady |-> svc.notReady]

\* ServiceOverrides.
ServiceOverrides(svc, overrides) ==
  LET now == InPlaceServiceOverrides(svc, overrides)
  IN  [labels |-> now.labels, annotations |-> now.annotations, selector |-> now.selector,
       ports |-> now.ports, notReady |-> now.notReady,
       clusterIP |-> IF overrides.clusterIP = None THEN now.clusterIP ELSE overrides.clusterIP]

\* What a pass of reconcileVtgate, reconcileVttablet, reconcileVtctld,
\* reconcileVtadmin or reconcileServices makes of a Service, None if there is none.
ReconcileService(svc, kind, labels, overrides) ==
  IF svc = None THEN ServiceOverrides(NewService(kind, labels), overrides)
  ELSE InPlaceServiceOverrides(UpdateService(svc, kind, labels), overrides)

\* Labels of the Services of a cluster ...
ClusterServiceLabels(cluster, component) ==
  Merge(One("cluster", cluster.name), One("component", component))

\* ... and of one cell's vtgate are those of the Pods that they find.
CellServiceLabels(cell) ==
  [l \in {"cluster", "cell", "component"} |->
     CASE l = "cluster" -> cell.cluster [] l = "cell" -> cell.name [] l = "component" -> "vtgate"]

\* The labels of a tablet (vttabletSpecs).
TabletLabels(shard, pool, index) ==
  [l \in {"cluster", "keyspace", "shard", "component", "cell", "uid", "type", "index"} |->
     CASE l = "cluster" -> shard.cluster [] l = "keyspace" -> shard.keyspace
       [] l = "shard" -> shard.range [] l = "component" -> "vttablet"
       [] l = "cell" -> pool.cell [] l = "uid" -> TabletUid(pool, index)
       [] l = "type" -> pool.type [] l = "index" -> index]

\* A Service finds the Pods that have all labels of its selector.
Finds(svc, labels) ==
  \A l \in DOMAIN svc.selector : l \in DOMAIN labels /\ labels[l] = svc.selector[l]

\* Availability of a component that has several Deployments, from their conditions
\* in the order that they are looked at; one that has no condition yet says nothing.
Available(conditions) ==
  LET all == {conditions[i] : i \in DOMAIN conditions}
  IN  CASE "True" \in all -> "True"
        [] "True" \notin all /\ "False" \in all -> "False"
        [] OTHER -> "Unknown"

-----------------------------------------------------------------------------
(* vtgate's autoscaler (horizontal_pod_autoscaler.go) *)

\* It scales the VitessCell, which has the number of replicas of its vtgate.
Autoscaler(cell, labels) ==
  [labels |-> labels, target |-> <<"VitessCell", cell.cluster, cell.name>>,
   scale |-> cell.gateway.autoscaler]

UpdateAutoscaler(hpa, want) ==
  [labels |-> Merge(hpa.labels, want.labels), target |-> hpa.target, scale |-> want.scale]

ReconcileAutoscaler(hpa, cell, labels) ==
  IF cell.gateway.autoscaler = None THEN None
  ELSE IF hpa = None THEN Autoscaler(cell, labels)
  ELSE UpdateAutoscaler(hpa, Autoscaler(cell, labels))

-----------------------------------------------------------------------------
(* Volume claims (vttablet/pvc.go, etcd/pvc.go) *)

NewPVC(spec) == [labels |-> Merge(spec.labels, spec.extraLabels), requests |-> spec.claimRequests,
                 fixed |-> spec.claimFixed]

\* UpdatePVCInPlace: volumes only grow.  What is not requested counts as nothing.
StorageOf(requests) == IF "storage" \in DOMAIN requests THEN requests["storage"] ELSE 0

UpdatePVCInPlace(pvc, spec) ==
  LET size == StorageOf(spec.claimRequests)
  IN  [labels   |-> Merge(pvc.labels, Merge(spec.labels, spec.extraLabels)),
       requests |-> IF size > StorageOf(pvc.requests) THEN Merge(pvc.requests, One("storage", size))
                    ELSE pvc.requests,
       fixed    |-> pvc.fixed]

\* Whether a pool wants another size for the disk of a tablet of its cell and type,
\* whatever the name of the pool that the tablet was made for.
Resizes(pool, tablet) ==
  /\ pool.storage # None
  /\ <<tablet.cell, tablet.type>> = <<pool.cell, pool.type>>
  /\ tablet.claim # None
  /\ tablet.claim.capacity # pool.storage

\* ... and it is ready for the restart: the claim asks for the size, the volume has
\* grown and its file system waits, and the Pod's changes are scheduled.
ReadyForRestart(pool, tablet) ==
  /\ StorageOf(tablet.claim.requests) = pool.storage
  /\ tablet.claim.fileSystemResizePending
  /\ tablet.scheduled

\* reconcileDisk has the shard's tablets restarted one after the other if a disk
\* changes, and once every one that does is ready.
DiskCascade(shard, tablets) ==
  /\ \/ shard.strategy.type = "Immediate"
     \/ "storage" \in shard.strategy.allowed
  /\ ~shard.cascading
  /\ \E p \in DOMAIN shard.pools, t \in DOMAIN tablets : Resizes(shard.pools[p], tablets[t])
  /\ \A p \in DOMAIN shard.pools, t \in DOMAIN tablets :
       Resizes(shard.pools[p], tablets[t]) => ReadyForRestart(shard.pools[p], tablets[t])

-----------------------------------------------------------------------------
(* Members of an etcd cluster (controller/etcdlockserver) *)

LockserverLabel(ls) == One("lockserver", ls.name)

\* The labels that a member, and the Services, have beyond those that the controller
\* looks its objects up by.
EtcdLabels(ls) ==
  Merge(Merge(LockserverLabel(ls), One("component", "etcd")), Only(ls.labels, {"cluster"}))

\* memberSpecs: one member or, if no index is given, all of them.
LocalMembers(ls) == IF ls.index = None THEN Members ELSE Members \cap {ls.index}

MemberLabels(ls, i) == Merge(One("index", i), EtcdLabels(ls))

\* NewPDB, UpdatePDBInPlace: with fewer members, etcd would not answer.
QuorumSize == NumReplicas \div 2 + 1

ReconcilePDB(pdb, ls) ==
  IF pdb = None THEN [labels |-> LockserverLabel(ls), selector |-> LockserverLabel(ls),
                      available |-> QuorumSize]
  ELSE [labels |-> Merge(pdb.labels, LockserverLabel(ls)), selector |-> pdb.selector,
        available |-> pdb.available]

\* The objects after a pass.  What is switched off is not looked at again: a
\* Service or a disruption budget that exists stays.
EtcdPass(objects, ls) ==
  [client |-> IF ls.createClient
              THEN ReconcileService(objects.client, "client", EtcdLabels(ls), ls.clientOverrides)
              ELSE objects.client,
   peer   |-> IF ls.createPeer
              THEN ReconcileService(objects.peer, "peer", EtcdLabels(ls), ls.peerOverrides)
              ELSE objects.peer,
   pdb    |-> IF ls.createPDB THEN ReconcilePDB(objects.pdb, ls) ELSE objects.pdb]

\* Status.Available, given the members whose Pods are ready: of a quorum, or of the
\* one member that this controller can see.
EtcdAvailable(ls, ready) ==
  IF ls.index = None THEN QuorumSize <= Cardinality(ready) ELSE ready # {}

\* UpdateEtcdLockserver.
UpdateEtcdLockserver(ls, template, labels, zone) ==
  [labels |-> Merge(ls.labels, labels), zone |-> zone, template |-> template]

NewEtcdLockserver(template, labels, zone) ==
  UpdateEtcdLockserver([labels |-> Empty, zone |-> None, template |-> None], template, labels, zone)

\* reconcileGlobalEtcd and reconcileLocalEtcd: a cluster that exists is never
\* deleted (NotSupported), only orphaned.
ReconcileEtcd(ls, lock, labels, zone) ==
  CASE lock.etcd # None /\ ls = None -> NewEtcdLockserver(lock.etcd, labels, zone)
    [] lock.etcd # None /\ ls # None -> UpdateEtcdLockserver(ls, lock.etcd, labels, zone)
    [] OTHER -> ls

-----------------------------------------------------------------------------
(* Where a topology is found (lockserver/params.go) *)

ClientAddress(name) == <<name, "client">>

\* GlobalConnectionParams.
GlobalConnectionParams(lock, cluster) ==
  CASE lock.external # None -> lock.external
    [] lock.external = None /\ lock.etcd # None ->
         [implementation |-> "etcd2",
          address |-> IF lock.address = None THEN ClientAddress(<<cluster, "etcd">>) ELSE lock.address,
          root |-> <<cluster, "global">>]
    [] OTHER -> None

\* LocalConnectionParams; "/local/" is there in case a cell's name is "global".
LocalConnectionParams(global, lock, cluster, cell) ==
  LET root == <<cluster, "local", cell>>
      shared == GlobalConnectionParams(global, cluster)
  IN  CASE lock.external # None -> lock.external
        [] lock.external = None /\ lock.etcd # None ->
             [implementation |-> "etcd2",
              address |-> IF lock.address = None THEN ClientAddress(<<cluster, cell, "etcd">>)
                          ELSE lock.address,
              root |-> root]
        [] lock.external = None /\ lock.etcd = None /\ shared # None ->
             [implementation |-> shared.implementation, address |-> shared.address, root |-> root]
        [] OTHER -> None

\* RegisterCells, when calls fail for some of the cells; "infos" is what the topology
\* says of each cell, "cells" the lock servers of those that are wanted.  A cell of
\* another implementation than the global topology's is not registered.
RegisterCells(infos, global, cells, cluster, implementation, failing) ==
  LET params(cell) == LocalConnectionParams(global, cells[cell], cluster, cell)
      valid == {cell \in DOMAIN cells : /\ params(cell) # None
                                        /\ params(cell).implementation = implementation}
  IN  Merge(infos, [cell \in valid \ failing |->
                      [address |-> params(cell).address, root |-> params(cell).root]])

\* newVitessCell.
NewVitessCell(cluster, cell) ==
  [labels |-> Merge(One("cluster", cluster.name), One("cell", cell.name)),
   spec   |-> [template |-> cell, images |-> Only(cluster.images, {"vtgate"}),
               global |-> GlobalConnectionParams(cluster.lockserver, cluster.name),
               allCells |-> [i \in DOMAIN cluster.cells |-> cluster.cells[i].name],
               rest |-> cluster.rest]]
===============================================================================
