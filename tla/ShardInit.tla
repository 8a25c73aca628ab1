------------------------------ MODULE ShardInit ------------------------------
(***************************************************************************)
(* How a shard gets its first primary                                      *)
(* (pkg/controller/vitessshardreplication/init_shard_primary.go,           *)
(* init_restored_shard.go, tablet_externally_reparent.go), from the status *)
(* the VitessShard controller publishes (vitessshard/reconcile_topo.go,    *)
(* reconcile_backup_job.go), while tablets start and restore and others    *)
(* (VTOrc, which is always deployed, or an administrator) may reparent     *)
(* under the same shard lock.                                              *)
(*                                                                         *)
(* db is the set of tablets that were initialised: their keyspace database *)
(* exists or replication is configured on them.                            *)
(***************************************************************************)
EXTENDS Integers, FiniteSets

CONSTANTS
  Tablets,
  Eligible,   \* tablets of the replica type (or of the externalmaster pool)
  Modes,      \* "scratch": no backups; "restored": backups; "external": external MySQL
  None,
  MaxOther,   \* bound: reparents by others
  MaxTrouble  \* bound: tablets that stop, vtbackup Pods evicted, locks lost

ASSUME ShardInitAssumption ==
  /\ Eligible \subseteq Tablets /\ None \notin Tablets /\ None # "operator"
  /\ Modes \subseteq {"scratch", "restored", "external"}
  /\ MaxOther \in Nat /\ MaxTrouble \in Nat

VARIABLES
  mode,        \* how the shard of this behaviour is configured; never changes
  running,     \* tablets whose Pod is Running
  rec,         \* tablet -> type in its topology record ("none": no record)
  db,          \* initialised tablets
  backup,      \* is there a complete backup in storage?
  job,         \* the vtbackup Pod: "none", "running", "succeeded", "evicted"
  prim,        \* PrimaryAlias of the shard record
  lock,        \* holder of the shard lock: None or "operator"
  status,      \* the VitessShard status the replication controller reads
  otherLeft, troubleLeft,
  race,        \* history: did others reparent while the tablets were checked ("open"),
               \* and did InitShardPrimary go on all the same ("lost")?
  pc,          \* where initReplication is
  todo,        \* tablets readyForShardInit has still to answer for
  recs,        \* the tablet records as the election read them
  cand         \* the tablet about to be promoted

tabletVars == <<running, rec, db>>
backupVars == <<backup, job>>
given      == <<mode, otherLeft, troubleLeft, race>>
pass       == <<pc, todo, recs, cand>>
vars == <<tabletVars, backupVars, prim, lock, status, given, pass>>

Types == {"none", "restore", "replica", "rdonly", "primary"}
NoRecs == [t \in Tablets |-> "none"]

\* A tablet's type when it is neither restoring nor primary.
InitTabletType(t) == IF t \in Eligible THEN "replica" ELSE "rdonly"

NewStatus == [master |-> "Unknown", types |-> NoRecs, running |-> {}, backup |-> "Unknown"]

Init ==
  /\ mode \in Modes
  /\ running = {} /\ rec = NoRecs /\ db = {}
  /\ backup \in (IF mode = "restored" THEN BOOLEAN ELSE {FALSE})
  /\ job = "none" /\ prim = None /\ lock = None
  /\ status = NewStatus
  /\ otherLeft = MaxOther /\ troubleLeft = MaxTrouble /\ race = "none"
  /\ pc = "idle" /\ todo = {} /\ recs = NoRecs /\ cand = None

Trouble == troubleLeft > 0 /\ troubleLeft' = troubleLeft - 1 /\ UNCHANGED <<mode, otherLeft, race>>

-----------------------------------------------------------------------------
(* Tablets, the vtbackup Pod and other users of the shard lock *)

\* The tablet registers its initial type first, even if it will restore.
TabletStarts(t) ==
  /\ t \notin running
  /\ running' = running \cup {t}
  /\ rec' = [rec EXCEPT ![t] = IF @ = "primary" THEN @ ELSE InitTabletType(t)]
  /\ UNCHANGED <<db, backupVars, prim, lock, status, given, pass>>

TabletStops(t) ==
  /\ Trouble
  /\ t \in running
  /\ running' = running \ {t}
  /\ UNCHANGED <<rec, db, backupVars, prim, lock, status, pass>>

\* With backups, an empty tablet restores; without a backup it waits for one.
RestoreBegins(t) ==
  /\ mode = "restored"
  /\ t \in running \ db /\ rec[t] = InitTabletType(t)
  /\ rec' = [rec EXCEPT ![t] = "restore"]
  /\ UNCHANGED <<running, db, backupVars, prim, lock, status, given, pass>>

RestoreDone(t) ==
  /\ t \in running /\ rec[t] = "restore" /\ backup
  /\ rec' = [rec EXCEPT ![t] = InitTabletType(t)]
  /\ db' = db \cup {t}
  /\ UNCHANGED <<running, backupVars, prim, lock, status, given, pass>>

BackupDone ==
  /\ job = "running"
  /\ job' = "succeeded" /\ backup' = TRUE
  /\ UNCHANGED <<tabletVars, prim, lock, status, given, pass>>

BackupEvicted ==
  /\ Trouble
  /\ job = "running"
  /\ job' = "evicted"
  /\ UNCHANGED <<tabletVars, backup, prim, lock, status, pass>>

Promoted(t) == [u \in Tablets |-> CASE u = t -> "primary"
                                    [] u # t /\ rec[u] = "primary" -> InitTabletType(u)
                                    [] OTHER -> rec[u]]

(***************************************************************************)
(* VTOrc or an administrator makes t primary, holding the shard lock.      *)
(* Without backups any running replica will do, and is initialised by it,  *)
(* with those that follow it; with backups they take a restored one.       *)
(***************************************************************************)
OtherReparent(t) ==
  /\ otherLeft > 0 /\ otherLeft' = otherLeft - 1 /\ UNCHANGED <<mode, troubleLeft>>
  /\ lock = None
  /\ t \in running /\ rec[t] = "replica"
  /\ mode = "restored" => t \in db
  /\ rec' = Promoted(t) /\ prim' = t
  /\ db' \in IF mode = "scratch" THEN {db \cup {t}, db \cup running} ELSE {db}
  /\ race' = IF pc = "check" /\ race = "none" THEN "open" ELSE race
  /\ UNCHANGED <<running, backupVars, lock, status, pass>>

\* The lease of the operator's lock runs out: it was partitioned from the
\* topology server, or the process that held it is gone.
LockExpires ==
  /\ lock = "operator"
  /\ \/ pc = "idle" /\ UNCHANGED given
     \/ pc \in {"locked", "ask", "fix", "promote"} /\ Trouble
  /\ lock' = None
  /\ UNCHANGED <<tabletVars, backupVars, prim, status, pass>>

-----------------------------------------------------------------------------
(* The VitessShard controller: topology and initial backup in the status *)

\* reconcileBackupJob: is an initial backup still wanted?
WantsInitialBackup(master, known) == mode = "restored" /\ ~known /\ master # "True"

\* HasInitialBackup: a finished vtbackup Pod counts as long as it is wanted.
HasInitialBackup(master, known) ==
  IF mode = "restored" /\ (~WantsInitialBackup(master, known) \/ job = "succeeded")
  THEN "True" ELSE "Unknown"

\* An evicted Pod is replaced, an unwanted one removed unless it runs.
BackupPod(master, known) ==
  IF WantsInitialBackup(master, known)
  THEN IF job \in {"none", "evicted"} THEN "running" ELSE job
  ELSE IF job = "running" THEN "running" ELSE "none"

(***************************************************************************)
(* One pass of the VitessShard controller.  Either read of the topology    *)
(* may fail and leave its fields unset, and the list of complete backups   *)
(* (VitessBackup objects) may lag behind the storage.                      *)
(***************************************************************************)
ReconcileShard ==
  /\ \E master \in {"Unknown", IF prim = None THEN "False" ELSE "True"},
        types \in {NoRecs, rec}, known \in {FALSE, backup} :
       /\ status' = [master |-> master, types |-> types, running |-> running,
                     backup |-> HasInitialBackup(master, known)]
       /\ job' = BackupPod(master, known)
  /\ UNCHANGED <<tabletVars, backup, prim, lock, given, pass>>

-----------------------------------------------------------------------------
(* initReplication *)

\* Mutation: the candidate survives the pass.
EndPassKeepsCand ==
  /\ pc' = "idle" /\ todo' = {} /\ recs' = NoRecs /\ UNCHANGED cand
  /\ lock' = IF lock = "operator" THEN None ELSE lock

EndPass ==
  /\ pc' = "idle" /\ todo' = {} /\ recs' = NoRecs /\ cand' = None
  /\ lock' = IF lock = "operator" THEN None ELSE lock

\* An RPC or topology call fails or times out: return, releasing the lock.
PassFails ==
  /\ pc # "idle"
  /\ EndPass
  /\ UNCHANGED <<tabletVars, backupVars, prim, status, given>>

\* The operator dies: its lock stays until the lease expires.
Crash ==
  /\ pc # "idle"
  /\ pc' = "idle" /\ todo' = {} /\ recs' = NoRecs /\ cand' = None
  /\ UNCHANGED <<tabletVars, backupVars, prim, lock, status, given>>

-----------------------------------------------------------------------------
(* initShardPrimary *)

\* The code compares with "master"; the topology's type is "primary".
ReadyForPrimary ==
  /\ status.master = "False"
  /\ \A t \in Tablets : /\ t \in status.running
                        /\ status.types[t] \notin {"none", "restore"}

InitShardPrimaryStarts ==
  /\ mode = "scratch" /\ pc = "idle" /\ ReadyForPrimary
  /\ pc' = "check" /\ todo' = Tablets
  /\ race' = IF race = "open" THEN "none" ELSE race
  /\ UNCHANGED <<tabletVars, backupVars, prim, lock, status, mode, otherLeft, troubleLeft,
                 recs, cand>>

\* Mutation: an existing database does not matter.
ReadyForShardInitAny(t) ==
  /\ pc = "check" /\ t \in todo
  /\ t \in running /\ rec[t] # "none"
  /\ todo' = todo \ {t}
  /\ UNCHANGED <<tabletVars, backupVars, prim, lock, status, given, pc, recs, cand>>

\* One goroutine's answer: registered, not replicating, no database.
ReadyForShardInit(t) ==
  /\ pc = "check" /\ t \in todo
  /\ t \in running \ db /\ rec[t] # "none"
  /\ todo' = todo \ {t}
  /\ UNCHANGED <<tabletVars, backupVars, prim, lock, status, given, pc, recs, cand>>

(***************************************************************************)
(* Vitess's InitShardPrimary with force, under the shard lock, which       *)
(* nobody held since the tablets were asked: resets the replication of     *)
(* every tablet and initialises the candidate, then, as a second step, the *)
(* record and the replicas.                                                *)
(***************************************************************************)
InitShardPrimary(t) ==
  /\ pc = "check" /\ todo = {}
  /\ status.types[t] = "replica"
  /\ lock = None /\ lock' = "operator"
  /\ t \in running
  /\ rec' = [rec EXCEPT ![t] = "primary"] /\ db' = {t}
  /\ pc' = "record" /\ cand' = t
  /\ race' = IF race = "open" THEN "lost" ELSE race
  /\ UNCHANGED <<running, backupVars, prim, status, mode, otherLeft, troubleLeft, todo, recs>>

-----------------------------------------------------------------------------
(* initRestoredShard *)

\* Whom the status shows as done restoring (again the code says "master").
FoundCandidatePrimary == \E t \in status.running : status.types[t] = "replica"

ElectionStarts ==
  /\ mode = "restored" /\ pc = "idle"
  /\ status.master = "False" /\ status.backup = "True" /\ FoundCandidatePrimary
  /\ lock = None /\ lock' = "operator"
  /\ pc' = "locked"
  /\ UNCHANGED <<tabletVars, backupVars, prim, status, given, todo, recs, cand>>

Claiming == {t \in Tablets : rec[t] = "primary"}

\* Mutation: nobody asks whether a tablet was promoted before.
ElectionReadsRecordOnly ==
  /\ pc = "locked" /\ prim = None
  /\ recs' = rec /\ pc' = "ask"
  /\ UNCHANGED <<tabletVars, backupVars, prim, lock, status, given, todo, cand>>

\* Mutation: a tablet that claims to be primary stops the election for good.
ElectionReadsGivesUp ==
  /\ pc = "locked"
  /\ IF prim # None \/ Claiming # {}
     THEN EndPass
     ELSE recs' = rec /\ pc' = "ask" /\ UNCHANGED <<todo, lock, cand>>
  /\ UNCHANGED <<tabletVars, backupVars, prim, status, given>>

(***************************************************************************)
(* Read the shard record and the tablet records: give up if the shard has  *)
(* a primary or several tablets claim to be; otherwise repair the record   *)
(* for the one that does, or ask the tablets.                              *)
(***************************************************************************)
ElectionReads ==
  /\ pc = "locked"
  /\ IF prim # None \/ Cardinality(Claiming) > 1
     THEN EndPass
     ELSE /\ recs' = rec
          /\ \/ /\ Claiming = {}
                /\ pc' = "ask" /\ UNCHANGED cand
             \/ /\ cand' \in Claiming
                /\ pc' = "fix"
          /\ UNCHANGED <<todo, lock>>
  /\ UNCHANGED <<tabletVars, backupVars, prim, status, given>>

\* Mutation: a tablet that is still empty will do.
ElectionAsksAny(t) ==
  /\ pc = "ask"
  /\ recs[t] = "replica" /\ t \in running
  /\ cand' = t /\ pc' = "promote"
  /\ UNCHANGED <<tabletVars, backupVars, prim, lock, status, given, todo, recs>>

\* Of the replicas that answer and have the database, the one farthest ahead.
ElectionAsks(t) ==
  /\ pc = "ask"
  /\ recs[t] = "replica" /\ t \in running \cap db
  /\ cand' = t /\ pc' = "promote"
  /\ UNCHANGED <<tabletVars, backupVars, prim, lock, status, given, todo, recs>>

\* CheckShardLocked, then PromoteReplica: only the candidate changes its type.
Promote ==
  /\ pc = "promote" /\ cand \in running
  /\ IF lock = "operator"
     THEN /\ rec' = [rec EXCEPT ![cand] = "primary"]
          /\ pc' = "record" /\ UNCHANGED <<todo, recs, cand, lock>>
     ELSE EndPass /\ UNCHANGED rec
  /\ UNCHANGED <<running, db, backupVars, prim, status, given>>

\* The call times out in the operator and still takes effect on the tablet.
PromoteTimesOut ==
  /\ pc = "promote" /\ lock = "operator" /\ cand \in running
  /\ rec' = [rec EXCEPT ![cand] = "primary"]
  /\ EndPass
  /\ UNCHANGED <<running, db, backupVars, prim, status, given>>

\* Mutation: the lock is not checked again.
FixRecordUnlocked ==
  /\ pc = "fix"
  /\ prim' = cand
  /\ EndPass
  /\ UNCHANGED <<tabletVars, backupVars, status, given>>

\* CheckShardLocked, then UpdateShardFields for the tablet found promoted.
FixRecord ==
  /\ pc = "fix"
  /\ prim' = IF lock = "operator" THEN cand ELSE prim
  /\ EndPass
  /\ UNCHANGED <<tabletVars, backupVars, status, given>>

\* UpdateShardFields after a promotion; then replicas are pointed at it.
UpdateRecord ==
  /\ pc = "record"
  /\ prim' = cand /\ rec' = Promoted(cand)
  /\ db' = IF mode = "scratch" THEN db \cup running ELSE db
  /\ EndPass
  /\ UNCHANGED <<running, backupVars, status, given>>

-----------------------------------------------------------------------------
(* tabletExternallyReparent *)

\* Mutation: waits for a tablet that already serves as primary.
ExternallyReparentPrimary(t) ==
  /\ mode = "external" /\ pc = "idle" /\ lock = None
  /\ status.master # "True"
  /\ t \in status.running /\ status.types[t] = "primary"
  /\ prim' = t
  /\ UNCHANGED <<tabletVars, backupVars, lock, status, given, pass>>

(***************************************************************************)
(* The code asks for the shard record under the VitessShard's object name, *)
(* which is no shard of the keyspace: the read fails and nobody bails out. *)
(***************************************************************************)
ExternallyReparent(t) ==
  /\ mode = "external" /\ pc = "idle" /\ lock = None
  /\ status.master # "True"
  /\ t \in Eligible \cap status.running
  /\ t \in running
  /\ rec' = Promoted(t) /\ prim' = t
  /\ UNCHANGED <<running, db, backupVars, lock, status, given, pass>>

-----------------------------------------------------------------------------

TabletStep(t) ==
  \/ TabletStarts(t) \/ TabletStops(t) \/ RestoreBegins(t) \/ RestoreDone(t)
  \/ OtherReparent(t)

ElectionStep ==
  \/ ElectionStarts \/ ElectionReads \/ FixRecord
  \/ Promote \/ PromoteTimesOut \/ UpdateRecord
  \/ \E t \in Tablets : ElectionAsks(t)

ScratchStep ==
  \/ InitShardPrimaryStarts
  \/ \E t \in Tablets : ReadyForShardInit(t) \/ InitShardPrimary(t)

Next ==
  \/ \E t \in Tablets : TabletStep(t) \/ ExternallyReparent(t)
  \/ BackupDone \/ BackupEvicted \/ LockExpires
  \/ ReconcileShard \/ ElectionStep \/ ScratchStep \/ PassFails \/ Crash

Spec == Init /\ [][Next]_vars

(***************************************************************************)
(* Pods are started and restores and backups end, leases expire, a pass    *)
(* ends by its deadline at the latest, the periodic resync runs both       *)
(* controllers again and again, and a topology read or RPC that is retried *)
(* does not fail every time (SF).  One condition on two steps asks less    *)
(* than one on each; it is enough where, in the end, only one of them can  *)
(* happen: by mode, or because a tablet that was promoted stays so.        *)
(***************************************************************************)
EverythingRead ==
  /\ ReconcileShard
  /\ status'.types = rec /\ status'.master # "Unknown"
  /\ status'.backup = HasInitialBackup(status'.master, backup)
  /\ job' = BackupPod(status'.master, backup)

Fairness ==
  /\ \A t \in Tablets : WF_vars(TabletStarts(t)) /\ WF_vars(RestoreBegins(t) \/ RestoreDone(t))
  /\ WF_vars(BackupDone) /\ WF_vars(LockExpires) /\ WF_vars(EverythingRead)
  /\ WF_vars(PassFails)
  /\ SF_vars(ElectionStarts \/ \E t \in Tablets : ExternallyReparent(t))
  /\ SF_vars(ElectionReads) /\ SF_vars(\E t \in Tablets : ElectionAsks(t))
  /\ SF_vars(FixRecord \/ Promote) /\ SF_vars(UpdateRecord)

FairSpec == Spec /\ Fairness

-----------------------------------------------------------------------------
(* Properties *)

\* Types; while an election holds a candidate it is a real tablet.
TypeOK ==
  /\ mode \in Modes
  /\ running \subseteq Tablets /\ db \subseteq Tablets
  /\ rec \in [Tablets -> Types] /\ recs \in [Tablets -> Types]
  /\ backup \in BOOLEAN /\ job \in {"none", "running", "succeeded", "evicted"}
  /\ prim \in Tablets \cup {None} /\ lock \in {None, "operator"}
  /\ status \in [master : {"Unknown", "True", "False"}, types : [Tablets -> Types],
                 running : SUBSET Tablets, backup : {"Unknown", "True"}]
  /\ otherLeft \in Nat /\ troubleLeft \in Nat /\ race \in {"none", "open", "lost"}
  /\ pc \in {"idle", "check", "locked", "ask", "fix", "promote", "record"}
  /\ todo \subseteq Tablets
  /\ IF pc \in {"fix", "promote", "record"} THEN cand \in Tablets ELSE cand = None

(***************************************************************************)
(* The tablets are not asked under the shard lock, and InitShardPrimary is *)
(* forced: if somebody else reparents between the two, its data and its    *)
(* primary are lost.  That is excluded here; a reparent before the check   *)
(* or after it, in a pass that goes no further, is not.                    *)
(***************************************************************************)
NoRaceLost == race # "lost"

(***************************************************************************)
(* electInitialShardPrimary: "That shouldn't happen" is said of two        *)
(* tablets that claim to be primary.  It does not, although a crash, a     *)
(* time-out or a lost lock may come between promoting a tablet and         *)
(* recording it, and the next election starts from a stale status.         *)
(***************************************************************************)
OnePrimaryTablet == NoRaceLost => Cardinality(Claiming) <= 1

\* The shard record never names a tablet that was not promoted or has been
\* demoted since, not even while an initialisation is forced over others' reparent.
RecordNamesPrimary == prim # None => rec[prim] = "primary"

\* With backups, no tablet is made primary before its restore is done: the
\* initial primary never starts from an empty database.
PrimaryHasData == mode = "restored" => Claiming \subseteq db

(***************************************************************************)
(* "We must not do InitShardPrimary again, because that would reset        *)
(* replication positions (erase GTID history)": no step takes the data of  *)
(* an initialised tablet away, whether the operator initialised it, in a   *)
(* pass that failed half way and is tried again, or VTOrc before the       *)
(* tablets were asked.                                                     *)
(***************************************************************************)
NeverErased == [][NoRaceLost' => db \subseteq db']_vars

\* The shard gets a primary in the end, as long as somebody can become one.
ShardGetsPrimary == <>(prim # None)

(***************************************************************************)
(* "Check actual shard record in case we are out of sync and bail if shard *)
(* record says we have a primary already" (tablet_externally_reparent):    *)
(* initialisation never replaces a primary the shard already has, also one *)
(* VTOrc made that the status does not show yet; only somebody else's      *)
(* reparent does.                                                          *)
(***************************************************************************)
PrimaryKept ==
  [][NoRaceLost' /\ prim # None /\ otherLeft' = otherLeft => prim' = prim]_vars

(***************************************************************************)
(* "or type "primary", meaning we already promoted a primary, but failed   *)
(* to update the shard record" (init_restored_shard): while no pass is     *)
(* under way and the record names nobody, a running tablet the status      *)
(* shows as primary is enough to start the election.                       *)
(***************************************************************************)
PromotedIsCandidate ==
  pc = "idle" /\ prim = None
    => \A t \in status.running :
         status.types[t] \in {"replica", "primary"} => FoundCandidatePrimary
=============================================================================
