------------------------------ MODULE TabletParts ------------------------------
(***************************************************************************)
(* The parts of a tablet's Pod that the files of operator/vttablet         *)
(* contribute, each for the feature it is about (lazy_values.go): volumes, *)
(* mounts, flags, variables, annotations and init containers.  What one    *)
(* file mounts, another may have to provide.                               *)
(*                                                                         *)
(* Of the flags, those are kept that name a file or that more than one file*)
(* or the user may set; the others are "base".                             *)
(***************************************************************************)
EXTENDS Volumes, Sequences

CredentialsDir == "external-datastore-credentials"
CACertDir == "external-datastore-ca-cert"
InitScriptDir == "db-init-script"

HasBackups(spec) == spec.location # None /\ spec.mysqld # None
HasCACert(spec) == spec.external # None /\ spec.external.ca # None
HasOverrides(spec) == spec.mysqld # None /\ spec.mysqld.overrides # None

-----------------------------------------------------------------------------
(* Volumes and mounts *)

\* tabletVolumes, in the order in which the files add to them.
TabletVolumes(spec) ==
  LET backups == If(HasBackups(spec), StorageVolumes(spec.location))
      credentials == If(spec.external # None, PodVolumes(spec.external.credentials, CredentialsDir))
      caCert == If(HasCACert(spec), PodVolumes(spec.external.ca, CACertDir))
      root == One("vt-root", "emptyDir")
      overrides == If(HasOverrides(spec), One("pod-config", "downwardAPI"))
      claim == If(spec.pvc # None, One("persistent-volume-claim", spec.pvc))
      script == PodVolumes(spec.initScript, InitScriptDir)
  IN  Merge(Merge(Merge(Merge(Merge(Merge(backups, credentials), caCert), root), overrides), claim), script)

\* tabletVolumeMounts: vttablet and mysqld.
TabletVolumeMounts(spec) ==
  LET credentials == If(spec.external # None, ContainerVolumeMount(spec.external.credentials, CredentialsDir))
      caCert == If(HasCACert(spec), ContainerVolumeMount(spec.external.ca, CACertDir))
      root == [p \in {"/vt/config", "/vt/socket"} |-> "vt-root"]
      overrides == If(HasOverrides(spec), One("/pod-config", "pod-config"))
      data == One("/vt/vtdataroot", IF spec.pvc = None THEN "vt-root" ELSE "persistent-volume-claim")
      script == ContainerVolumeMount(spec.initScript, InitScriptDir)
  IN  Merge(Merge(Merge(Merge(Merge(credentials, caCert), root), overrides), data), script)

VttabletVolumeMounts(spec) == If(HasBackups(spec), StorageVolumeMounts(spec.location))

MysqldVolumeMounts(spec) == One("/vt/bin", "vt-root")

-----------------------------------------------------------------------------
(* Flags *)

\* datastoreFlags.
DatastoreFlags(spec) ==
  IF spec.external = None
  THEN One("enable_replication_reporter", TRUE)
  ELSE Merge([f \in {"restore_from_backup", "enable_replication_reporter", "db-credentials-file"} |->
                IF f = "db-credentials-file" THEN CredentialsDir ELSE FALSE],
             If(HasCACert(spec), One("db_ssl_ca", CACertDir)))

\* vttablet, with xtrabackup, gets the CPUs of both containers to restore.
AtLeastOne(n) == IF n < 1 THEN 1 ELSE n

BackupFlags(spec) ==
  LET flags == Merge(One("restore_from_backup", TRUE), One("backup_engine_implementation", spec.engine))
      engine == CASE spec.engine = "xtrabackup" ->
                       One("xbstream_restore_flags", AtLeastOne(spec.mysqldCPU + spec.vttabletCPU))
                  [] spec.engine = "mysqlshell" ->  \* the first mount; there must be one
                       One("mysql-shell-backup-location",
                           CHOOSE p \in DOMAIN StorageVolumeMounts(spec.location) : TRUE)
                  [] OTHER -> Empty
  IN  If(HasBackups(spec), Merge(Merge(flags, engine), StorageFlags(spec.location)))

\* vttabletFlags.
VttabletFlags(spec) ==
  Merge(Merge(BackupFlags(spec), DatastoreFlags(spec)), One("base", "vttablet"))

\* mysqlctldFlags.
MysqlctldFlags(spec) == Merge(One("base", "mysqlctld"), One("init_db_sql_file", InitScriptDir))

\* vtbackupFlags: the user's come after the engine's and before the storage's,
\* and those of this package after both.
VtbackupFlags(spec) ==
  LET engine == If(spec.engine = "xtrabackup",
                   One("xbstream_restore_flags", AtLeastOne(spec.mysqldCPU)))
      flags == Merge(One("backup_engine_implementation", spec.engine), engine)
      backup == If(HasBackups(spec),
                   Merge(Merge(flags, spec.vtbackupOverrides), StorageFlags(spec.location)))
  IN  Merge(backup, Merge(One("base", "vtbackup"), One("init_db_sql_file", InitScriptDir)))

-----------------------------------------------------------------------------
(* Annotations, variables and init containers *)

OverridesKey == "planetscale.com/mysqld-config-overrides"

\* tabletAnnotations.
TabletAnnotations(spec) ==
  Merge(spec.annotations, If(HasOverrides(spec), One(OverridesKey, spec.mysqld.overrides)))

\* extraMyCnf: the user's overrides come after the operator's own files.
ExtraMyCnf(spec) ==
  <<"rbr.cnf", "log-error.cnf", "socket.cnf">>
    \o (IF HasOverrides(spec) THEN <<"mysqld-config-overrides", "vtbackup.cnf">> ELSE <<>>)

\* tabletEnvVars.
TabletEnvVars(spec) ==
  [v \in {"base", "EXTRA_MY_CNF", "POD_IP"} |-> IF v = "EXTRA_MY_CNF" THEN ExtraMyCnf(spec) ELSE <<v>>]

VttabletEnvVars(spec) == If(HasBackups(spec), StorageEnvVars(spec.location))

\* tabletInitContainers: one fills the root volume, one moves the socket of a
\* MySQL server that an old version of the operator has deployed.  UpdatePod
\* lays the tablet's resources over the small ones that they have by default.
InitContainer(spec, args, mounts) ==
  [rest     |-> [image |-> spec.images.vttablet, args |-> args],
   pull     |-> spec.pulls.vttablet,
   limits   |-> Merge(Empty, spec.limits),
   requests |-> Merge(spec.initDefaults, spec.requests),
   security |-> spec.security,
   mounts   |-> mounts]

TabletInitContainers(spec) ==
  Merge(One("init-vt-root", InitContainer(spec, "vtRootInitScript", One("/mnt/vt", "vt-root"))),
        If(spec.pvc # None,
           One("init-mysql-socket",
               InitContainer(spec, "mysqlSocketInitScript",
                             One("/vt/vtdataroot", "persistent-volume-claim")))))
===============================================================================
