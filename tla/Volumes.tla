-------------------------------- MODULE Volumes --------------------------------
(***************************************************************************)
(* operator/secrets and operator/vitessbackup: the volumes through which   *)
(* Pods get at Secrets and backups, the mounts of these volumes, and the   *)
(* flags and variables that tell programs of the files in them.            *)
(*                                                                         *)
(* Volumes are a function from names, mounts one from paths to the names of*)
(* volumes.  The path of a Secret is the directory it is mounted in, and a *)
(* flag that names a file has the path of its mount as its value.          *)
(***************************************************************************)
EXTENDS Updates

-----------------------------------------------------------------------------
(* secrets.Mount: a Secret, by name, or a volume that is already there *)

VolumeName(secret, dir) == IF secret.volume # None THEN secret.volume ELSE dir

PodVolumes(secret, dir) ==
  IF secret.name = None THEN Empty ELSE One(VolumeName(secret, dir), secret.name)

ContainerVolumeMount(secret, dir) == One(dir, VolumeName(secret, dir))

-----------------------------------------------------------------------------
(* vitessbackup: where backups are stored *)

Clouds == {"gcs", "s3", "azblob", "ceph"}  \* ... and "file", a volume

AuthDir ==
  [kind \in Clouds |-> CASE kind = "gcs" -> "gcs-backup-auth"
                         [] kind = "s3" -> "s3-backup-auth"
                         [] kind = "azblob" -> "azblob-backup-auth"
                         [] kind = "ceph" -> "ceph-backup-auth"]

\* Google and Amazon may authenticate the Pod by other means.
HasSecret(location) == location.kind \in Clouds /\ location.secret # None

StorageVolumes(location) ==
  CASE HasSecret(location) -> PodVolumes(location.secret, AuthDir[location.kind])
    [] location.kind = "file" -> One("vitess-backups", location.volume)
    [] OTHER -> Empty

StorageVolumeMounts(location) ==
  CASE HasSecret(location) -> ContainerVolumeMount(location.secret, AuthDir[location.kind])
    [] location.kind = "file" -> One("/vt/backups", "vitess-backups")
    [] OTHER -> Empty

\* Files that flags name.
StorageFlags(location) ==
  Merge(One("backup_storage_implementation", location.kind),
        CASE location.kind = "azblob" -> One("azblob_backup_account_key_file", AuthDir["azblob"])
          [] location.kind = "ceph" -> One("ceph_backup_storage_config", AuthDir["ceph"])
          [] location.kind = "file" -> One("file_backup_storage_root", "/vt/backups")
          [] OTHER -> Empty)

StorageEnvVars(location) ==
  CASE location.kind = "gcs" /\ HasSecret(location) ->
         One("GOOGLE_APPLICATION_CREDENTIALS", AuthDir["gcs"])
    [] location.kind = "s3" /\ HasSecret(location) ->
         One("AWS_SHARED_CREDENTIALS_FILE", AuthDir["s3"])
    [] location.kind = "ceph" -> One("CEPH_CREDENTIALS_FILE", AuthDir["ceph"])
    [] OTHER -> Empty
===============================================================================
