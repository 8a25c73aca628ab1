-------------------------------- MODULE Updates --------------------------------
(***************************************************************************)
(* operator/update and operator/contenthash: how a desired object is laid  *)
(* over the object that exists.  Admission webhooks and the API server add *)
(* to what the operator created, so whatever the operator did not ask for  *)
(* is left alone, and a hash of the names it asked for tells it what it    *)
(* has asked for before and no longer does.                                *)
(*                                                                         *)
(* A list whose items are matched by a name (labels, environment, volumes, *)
(* volume mounts by their path, tolerations by all but their seconds, ...) *)
(* is a function from names to items; the order of items is left out.  The *)
(* lists that come from the user are maps as well, where Kubernetes accepts*)
(* no name twice; tolerations and spread constraints are lists (ByKey).    *)
(* Two objects are compared after defaulting (reconciler/object.go), so a  *)
(* field stands for its value with the API's defaults filled in.           *)
(***************************************************************************)
EXTENDS Integers

CONSTANT None  \* a field that is not set

Empty == [k \in {} |-> None]

One(key, item) == [k \in {key} |-> item]

If(condition, map) == IF condition THEN map ELSE Empty

\* Labels, Annotations, StringMap, ResourceList, Volumes, VolumeMounts, Env,
\* Tolerations, TopologySpreadConstraints, LocalObjectReferences, Flags.Merge.
Merge(dst, src) ==
  [k \in DOMAIN dst \cup DOMAIN src |-> IF k \in DOMAIN src THEN src[k] ELSE dst[k]]

\* The map that a list of items with a key becomes when it is laid over one: of
\* two items with the same key, the later one wins.
ByKey(list) ==
  [k \in {list[i].key : i \in DOMAIN list} |->
     list[CHOOSE i \in DOMAIN list :
            list[i].key = k /\ \A j \in DOMAIN list : list[j].key = k => j <= i]]

Only(map, keys) == [k \in DOMAIN map \cap keys |-> map[k]]

-----------------------------------------------------------------------------
(* Containers                                                              *)
(*                                                                         *)
(* Of a container, "rest" is everything that is always overwritten: image, *)
(* command, arguments, environment, ports, probes, lifecycle.              *)

\* What a security context keeps if the operator does not set it.
KeptSecurity ==
  {"procMount", "allowPrivilegeEscalation", "capabilities", "readOnlyRootFilesystem", "runAsGroup"}

\* SecurityContext; a context is a record that says whether there is one, and
\* its fields.
MergeSecurity(dst, src) ==
  IF ~dst.given \/ ~src.given THEN src
  ELSE [given |-> TRUE, fields |-> Merge(Only(dst.fields, KeptSecurity), src.fields)]

\* PodContainer, with ResourceRequirements.
PodContainer(dst, src) ==
  [rest     |-> src.rest,
   pull     |-> IF src.pull = None THEN dst.pull ELSE src.pull,
   limits   |-> Merge(dst.limits, src.limits),
   requests |-> Merge(dst.requests, src.requests),
   security |-> MergeSecurity(dst.security, src.security),
   mounts   |-> Merge(dst.mounts, src.mounts)]

\* PodTemplateContainer: nobody adds to a Pod template's pull policy or mounts.
PodTemplateContainer(dst, src) ==
  [rest     |-> src.rest,
   pull     |-> src.pull,
   limits   |-> Merge(dst.limits, src.limits),
   requests |-> Merge(dst.requests, src.requests),
   security |-> MergeSecurity(dst.security, src.security),
   mounts   |-> src.mounts]

\* PodContainers.
PodContainers(dst, src) ==
  [n \in DOMAIN dst \cup DOMAIN src |->
     IF n \in DOMAIN dst \cap DOMAIN src THEN PodContainer(dst[n], src[n])
     ELSE IF n \in DOMAIN src THEN src[n] ELSE dst[n]]

\* PodTemplateContainers.
PodTemplateContainers(dst, src) ==
  [n \in DOMAIN dst \cup DOMAIN src |->
     IF n \in DOMAIN dst \cap DOMAIN src THEN PodTemplateContainer(dst[n], src[n])
     ELSE IF n \in DOMAIN src THEN src[n] ELSE dst[n]]

-----------------------------------------------------------------------------
(* Content hashes, taken to be injective: each is its content *)

\* ContainerUpdates.
ContainerUpdates(c) ==
  [mounts |-> DOMAIN c.mounts, limits |-> DOMAIN c.limits, requests |-> DOMAIN c.requests]

\* ContainersUpdates.
ContainersUpdates(containers) == [n \in DOMAIN containers |-> ContainerUpdates(containers[n])]

-----------------------------------------------------------------------------
(* Flags and environment *)

\* The flags that remain of a user's extraFlags when leading dashes are cut
\* off; a key is a record of its dashes and its name.  Of keys that differ in
\* their dashes only, the one that Go's map iteration comes to last wins.
Overrides(extraFlags) ==
  {f \in [{k.name : k \in DOMAIN extraFlags} -> {extraFlags[k] : k \in DOMAIN extraFlags}] :
     \A n \in DOMAIN f : \E k \in DOMAIN extraFlags : k.name = n /\ f[n] = extraFlags[k]}

\* UpdateMySQLServerVersion; None is the version of an image without a tag
\* that says it.
ServerVersion(flags, version) ==
  IF version = None THEN flags ELSE Merge(flags, One("mysql_server_version", version))

\* GOMAXPROCS: the CPU limit, in whole CPUs.
Gomaxprocs(env, limits) ==
  IF "cpu" \in DOMAIN limits THEN Merge(env, One("GOMAXPROCS", limits["cpu"])) ELSE env
===============================================================================
