------------------------------ MODULE Deployments ------------------------------
(***************************************************************************)
(* The Deployments of a Vitess cluster's stateless parts: vtgate, vtctld,  *)
(* vtadmin and VTOrc.  For each, a controller makes a spec of the user's   *)
(* wishes and the cell (reconcile_vtgate.go, reconcile_vtctld.go, ...), and*)
(* UpdateDeployment (operator/*/deployment.go) lays it over the Deployment *)
(* that exists.  Kubernetes replaces the Pods when the template changes.   *)
(*                                                                         *)
(* "user" is what the user wishes of one component.  A flag that names a   *)
(* file has the path of its mount as its value; other flags are "base".    *)
(* "overrides" is one of the Overrides of the extraFlags.                  *)
(***************************************************************************)
EXTENDS Volumes, Sequences

-----------------------------------------------------------------------------
(* Laying a desired Deployment over one that exists *)

\* Labels, annotations and volumes are reset, containers are not.
UpdateTemplate(template, want) ==
  [labels      |-> want.labels,
   annotations |-> want.annotations,
   volumes     |-> want.volumes,
   init        |-> PodTemplateContainers(template.init, want.userInit),
   containers  |-> PodTemplateContainers(PodTemplateContainers(template.containers, want.sidecars),
                                         want.containers),
   fixed       |-> want.fixed,
   optional    |-> Merge(template.optional, want.optional)]

\* UpdateDeploymentImmediate: what does not have to wait for a rolling update.
UpdateDeploymentImmediate(obj, want) ==
  [selector |-> obj.selector,
   labels   |-> Merge(obj.labels, want.labels),
   options  |-> Merge(obj.options, want.immediate),
   template |-> obj.template]

UpdateDeployment(obj, want) ==
  LET now == UpdateDeploymentImmediate(obj, want)
  IN  [selector |-> now.selector,
       labels   |-> now.labels,
       options  |-> Merge(now.options, want.options),
       template |-> UpdateTemplate(now.template, want.template)]

\* NewDeployment; the selector can never change.
NewDeployment(want) ==
  UpdateDeployment([selector |-> want.labels, labels |-> Empty, options |-> Empty,
                    template |-> [labels |-> Empty, annotations |-> Empty, volumes |-> Empty,
                                  init |-> Empty, containers |-> Empty, fixed |-> None,
                                  optional |-> Empty]],
                   want)

-----------------------------------------------------------------------------
(* What the four have in common *)

Affinity(spec) ==
  IF spec.user.affinity # None THEN spec.user.affinity
  ELSE IF spec.zone # None THEN <<"zone", spec.zone>> ELSE None

MainContainer(spec, args, env, limits, requests, mounts) ==
  [rest     |-> [image |-> spec.image, args |-> args, env |-> env],
   pull     |-> spec.pull,
   limits   |-> Merge(Empty, limits),
   requests |-> Merge(Empty, requests),
   security |-> spec.security,
   mounts   |-> mounts]

\* vtgate has more to schedule its Pods by.
Template(spec, containers, volumes, more, optional) ==
  [labels      |-> Merge(spec.labels, spec.user.extraLabels),
   annotations |-> spec.annotations,
   volumes     |-> volumes,
   userInit    |-> spec.user.userInit,
   sidecars    |-> spec.user.sidecars,
   containers  |-> containers,
   fixed       |-> [pullSecrets |-> spec.pullSecrets, tolerations |-> spec.user.tolerations,
                    affinity |-> Affinity(spec), more |-> more],
   optional    |-> optional]

-----------------------------------------------------------------------------
(* vtgate *)

\* updateAuth.
AuthFlags(spec) ==
  IF spec.auth = None THEN Empty
  ELSE [f \in {"mysql_auth_server_impl", "mysql_auth_server_static_file"} |->
          IF f = "mysql_auth_server_impl" THEN "static" ELSE "vtgate-static-auth"]

\* updateTransport; without a certificate or a key, nothing is encrypted.
HasTLS(spec) == spec.tls # None /\ spec.tls.cert # None /\ spec.tls.key # None
HasClientCA(spec) == HasTLS(spec) /\ spec.tls.ca # None

CertFlags == {"mysql_server_ssl_cert", "grpc_cert"}
KeyFlags == {"mysql_server_ssl_key", "grpc_key"}
CAFlags == {"mysql_server_ssl_ca", "grpc_ca"}

TransportFlags(spec) ==
  IF ~HasTLS(spec) THEN Empty
  ELSE [f \in CertFlags \cup KeyFlags \cup (IF HasClientCA(spec) THEN CAFlags ELSE {})
              \cup {"mysql_server_require_secure_transport"} |->
          CASE f \in CertFlags -> "vtgate-tls-cert"
            [] f \in KeyFlags -> "vtgate-tls-key"
            [] f \in CAFlags -> "vtgate-tls-ca-cert"
            [] OTHER -> spec.tls.required]

\* The Secrets of both, by the directories that they are mounted in.
VtgateSecrets(spec) ==
  Merge(Merge(If(spec.auth # None, One("vtgate-static-auth", spec.auth)),
              If(HasTLS(spec), Merge(One("vtgate-tls-cert", spec.tls.cert),
                                     One("vtgate-tls-key", spec.tls.key)))),
        If(HasClientCA(spec), One("vtgate-tls-ca-cert", spec.tls.ca)))

SecretVolume(secrets, dir) == If(dir \in DOMAIN secrets, PodVolumes(secrets[dir], dir))

SecretMounts(secrets) == [d \in DOMAIN secrets |-> VolumeName(secrets[d], d)]

VtgateVolumes(spec) ==
  LET Volume(dir) == SecretVolume(VtgateSecrets(spec), dir)
  IN  Merge(Merge(Merge(Merge(Volume("vtgate-static-auth"), Volume("vtgate-tls-cert")),
                        Volume("vtgate-tls-key")),
                  Volume("vtgate-tls-ca-cert")),
            spec.user.extraVolumes)

\* baseFlags, the version, both of the above, and the user's.
VtgateFlags(spec) ==
  Merge(Merge(Merge(ServerVersion(One("base", "vtgate"), spec.version), AuthFlags(spec)),
              TransportFlags(spec)),
        spec.overrides)

\* What vtgate.UpdateDeployment asks for.
VtgateDeployment(spec) ==
  LET user == spec.user
      container == MainContainer(spec, VtgateFlags(spec),
                                 Merge(Gomaxprocs(Empty, user.limits), user.extraEnv),
                                 user.limits, user.requests,
                                 Merge(user.extraMounts, SecretMounts(VtgateSecrets(spec))))
  IN  [labels    |-> spec.labels,
       immediate |-> One("replicas", user.replicas),
       options   |-> Merge(One("revisionHistoryLimit", 0), One("strategy", user.strategy)),
       template  |-> Template(spec, One("vtgate", container),
                              VtgateVolumes(spec),
                              [spread |-> user.spread, lifecycle |-> user.lifecycle],
                              If(user.gracePeriod # None, One("gracePeriod", user.gracePeriod)))]

\* ReloadSecretNames: the Secrets by whose contents vtgate is restarted.  That
\* of the passwords is not one of them, as vtgate reads it again by itself.
ReloadSecretNames(spec) ==
  (IF spec.tls = None THEN {}
   ELSE {s.name : s \in {spec.tls.cert, spec.tls.key, spec.tls.ca} \ {None}})
    \cup {spec.user.extraVolumes[v].secret : v \in {v \in DOMAIN spec.user.extraVolumes :
                                                     spec.user.extraVolumes[v].secret # None}}

\* secrets.GetByNames: if one is missing, vtgate is left as it is.  A Secret given
\* by its volume has no name to be found by.
CanDeployVtgate(spec, stored) == ReloadSecretNames(spec) \subseteq DOMAIN stored

VtgateAnnotations(spec, stored) ==
  Merge(One("planetscale.com/secret-hash", Only(stored, ReloadSecretNames(spec))),
        spec.user.annotations)

\* The spec that reconcileVtgate makes.
VtgateSpec(cell, stored, version) ==
  [labels      |-> [l \in {"cluster", "cell", "component"} |->
                      CASE l = "cluster" -> cell.cluster [] l = "cell" -> cell.name
                        [] l = "component" -> "vtgate"],
   user        |-> cell.gateway,
   zone        |-> cell.zone,
   auth        |-> cell.gateway.auth,
   tls         |-> cell.gateway.tls,
   annotations |-> VtgateAnnotations([tls |-> cell.gateway.tls, user |-> cell.gateway], stored),
   extraFlags  |-> Merge(cell.extraVitessFlags, cell.gateway.extraFlags),
   version     |-> version,
   image       |-> cell.image,
   pull        |-> cell.pull,
   security    |-> cell.security,
   pullSecrets |-> cell.pullSecrets]

-----------------------------------------------------------------------------
(* vtctld *)

\* flags, the user's, and the version.
VtctldFlags(spec) ==
  LET engine == Merge(One("backup_engine_implementation", spec.engine),
                      If(spec.engine = "xtrabackup", One("backup_storage_compress", TRUE)))
      backup == If(spec.location # None, Merge(engine, StorageFlags(spec.location)))
  IN  ServerVersion(Merge(Merge(One("base", "vtctld"), backup), spec.overrides), spec.version)

VtctldDeployment(spec) ==
  LET user == spec.user
      stores == spec.location # None
      container == MainContainer(spec, VtctldFlags(spec),
                                 Merge(user.extraEnv, If(stores, StorageEnvVars(spec.location))),
                                 user.limits, user.requests,
                                 Merge(user.extraMounts, If(stores, StorageVolumeMounts(spec.location))))
  IN  [labels    |-> spec.labels,
       immediate |-> One("replicas", user.replicas),
       options   |-> One("revisionHistoryLimit", 0),
       template  |-> Template(spec, One("vtctld", container),
                              Merge(user.extraVolumes, If(stores, StorageVolumes(spec.location))),
                              None, Empty)]

\* The cells, in order, to deploy to: those named that exist, or all.
DeployCells(names, cells) ==
  IF names = <<>> THEN cells
  ELSE SelectSeq(names, LAMBDA name : \E i \in DOMAIN cells : cells[i] = name)

ComponentLabels(cluster, component, cell) ==
  Merge(Merge(One("cluster", cluster.name), One("component", component)), One("cell", cell))

\* The spec that vtctldSpecs makes for one of the DeployCells.
VtctldSpec(cluster, cell, version) ==
  [labels      |-> ComponentLabels(cluster, "vtctld", cell),
   user        |-> cluster.dashboard,
   zone        |-> cluster.zones[cell],
   annotations |-> cluster.dashboard.annotations,
   extraFlags  |-> Merge(cluster.extraVitessFlags, cluster.dashboard.extraFlags),
   location    |-> IF cluster.locations = <<>> THEN None ELSE Head(cluster.locations),
   engine      |-> cluster.engine,
   version     |-> version,
   image       |-> cluster.images["vtctld"],
   pull        |-> cluster.pulls["vtctld"],
   security    |-> cluster.security,
   pullSecrets |-> cluster.pullSecrets]

-----------------------------------------------------------------------------
(* vtadmin *)

WebConfigDir == "/var/www/config"
DiscoverySecretPath == "discovery-config"

\* apiFlags, the user's, and then those of updateRbac and
\* updateDiscoveryAndClusterConfig.
VtadminFlags(spec) ==
  LET rbac == IF spec.user.rbac = None THEN One("no-rbac", TRUE)
              ELSE Merge(One("rbac", TRUE), One("rbac-config", "rbac-config"))
  IN  Merge(Merge(Merge(One("base", "vtadmin"), spec.overrides), rbac),
            One("cluster-config", "cluster-config"))

VtadminSecrets(spec) ==
  Merge(If(spec.user.rbac # None, One("rbac-config", spec.user.rbac)),
        Merge(One(DiscoverySecretPath, spec.discovery), One("cluster-config", spec.clusterConfig)))

VtadminVolumes(spec) ==
  LET Volume(dir) == SecretVolume(VtadminSecrets(spec), dir)
  IN  Merge(Merge(Merge(Merge(spec.user.extraVolumes, Volume("rbac-config")),
                        Volume(DiscoverySecretPath)),
                  Volume("cluster-config")),
            PodVolumes(spec.webConfig, "config-js"))

VtadminDeployment(spec) ==
  LET user == spec.user
      api == MainContainer(spec, VtadminFlags(spec), user.extraEnv, user.apiLimits, user.apiRequests,
                           Merge(user.extraMounts, SecretMounts(VtadminSecrets(spec))))
      web == MainContainer(spec, "nginx", Merge(user.extraEnv, One("VTADMIN_WEB_PORT", "web")),
                           user.webLimits, user.webRequests,
                           Merge(user.extraMounts,
                                 One(WebConfigDir, VolumeName(spec.webConfig, "config-js"))))
  IN  [labels    |-> spec.labels,
       immediate |-> One("replicas", user.replicas),
       options   |-> One("revisionHistoryLimit", 0),
       template  |-> Template(spec, Merge(One("vtadmin-api", api), One("vtadmin-web", web)),
                              VtadminVolumes(spec), None, Empty)]

\* createDiscoverySecret, createWebConfigSecret: vtadmin finds the rest of the
\* cluster by the IP addresses of Services, which have to exist first.
CanDeployVtadmin(cluster, cell, services) ==
  {<<"vtctld", cluster.name>>, <<"vtgate", cluster.name, cell>>} \subseteq DOMAIN services

\* The one API address is for all cells, or there is one for each.
ApiAddress(addresses, index) == IF Len(addresses) > 1 THEN addresses[index] ELSE addresses[1]

SecretOf(kind, cluster, cell) == [name |-> <<kind, cluster.name, cell>>, volume |-> None]

\* createOrUpdateSecret, for the three Secrets of a cell.
WriteSecrets(stored, cluster, cell, index, services) ==
  LET discovery == [vtctld |-> services[<<"vtctld", cluster.name>>],
                    vtgate |-> services[<<"vtgate", cluster.name, cell>>]]
      clusterConfig == [cluster |-> cluster.name, discovery |-> DiscoverySecretPath]
      webConfig == [api |-> ApiAddress(cluster.vtadmin.apiAddresses, index),
                    readOnly |-> cluster.vtadmin.readOnly]
  IN  Merge(stored,
            Merge(One(SecretOf("discovery", cluster, cell).name, discovery),
                  Merge(One(SecretOf("clusterConfig", cluster, cell).name, clusterConfig),
                        One(SecretOf("webConfig", cluster, cell).name, webConfig))))

\* The spec that vtadminSpecs makes.
VtadminSpec(cluster, cell) ==
  [labels        |-> ComponentLabels(cluster, "vtadmin", cell),
   user          |-> cluster.vtadmin,
   zone          |-> cluster.zones[cell],
   annotations   |-> cluster.vtadmin.annotations,
   extraFlags    |-> cluster.vtadmin.extraFlags,
   discovery     |-> SecretOf("discovery", cluster, cell),
   clusterConfig |-> SecretOf("clusterConfig", cluster, cell),
   webConfig     |-> SecretOf("webConfig", cluster, cell),
   image         |-> cluster.images["vtadmin"],
   pull          |-> cluster.pulls["vtadmin"],
   security      |-> cluster.security,
   pullSecrets   |-> cluster.pullSecrets]

-----------------------------------------------------------------------------
(* VTOrc: one in each cell that has a replica pool of the shard *)

VtorcCells(shard) ==
  IF shard.vtorc = None THEN {}
  ELSE {shard.pools[p].cell : p \in {p \in DOMAIN shard.pools : shard.pools[p].type = "replica"}}

\* The spec that vtorcSpecs makes for one of the VtorcCells.
VtorcSpec(shard, cell) ==
  [labels      |-> Merge(ComponentLabels([name |-> shard.cluster], "vtorc", cell),
                         Merge(One("keyspace", shard.keyspace), One("shard", shard.keyRange))),
   user        |-> shard.vtorc,
   zone        |-> shard.zones[cell],
   annotations |-> shard.vtorc.annotations,
   extraFlags  |-> Merge(shard.extraVitessFlags, shard.vtorc.extraFlags),
   image       |-> shard.images["vtorc"],
   pull        |-> shard.pulls["vtorc"],
   security    |-> shard.security,
   pullSecrets |-> shard.pullSecrets]

VtorcFlags(spec) == Merge(One("base", "vtorc"), spec.overrides)

\* The number of replicas is left to its default.
VtorcDeployment(spec) ==
  LET user == spec.user
      container == MainContainer(spec, VtorcFlags(spec), user.extraEnv, user.limits, user.requests,
                                 user.extraMounts)
  IN  [labels    |-> spec.labels,
       immediate |-> Empty,
       options   |-> One("revisionHistoryLimit", 0),
       template  |-> Template(spec, One("vtorc", container), user.extraVolumes, None, Empty)]

-----------------------------------------------------------------------------
(* How many vtgates a cell has (reconcile_cells.go).  An autoscaler changes   *)
(* the number in the VitessCell, which the cluster's controller then leaves. *)

UpdateVitessCellInPlace(vtc, new) ==
  IF vtc.autoscaler = None THEN [vtc EXCEPT !.replicas = new.replicas] ELSE vtc

UpdateVitessCell(vtc, new) ==
  IF new.autoscaler # None THEN [new EXCEPT !.replicas = vtc.replicas] ELSE new
===============================================================================
