---------------------------- MODULE ShardInitProofs ----------------------------
(***************************************************************************)
(* Proofs about ShardInit, for any number of tablets, reparents by others, *)
(* stopped tablets and lost locks.                                         *)
(*                                                                         *)
(* Why a shard gets one primary only: what an election read under the      *)
(* shard lock stays true as long as the lock is held, and both elections   *)
(* act on it only then (Locked).  Why its data is safe: the initialisation *)
(* from scratch starts when no tablet is initialised, unless somebody else *)
(* initialised one since it was asked (Data).                              *)
(***************************************************************************)
EXTENDS ShardInit, FiniteSetTheorems, TLAPS

\* OnePrimaryTablet without counting.
AtMostOne ==
  NoRaceLost => \A t, u \in Tablets : rec[t] = "primary" /\ rec[u] = "primary" => t = u

\* Which pass a shard of each mode can be in.
Moded ==
  /\ pc = "check" => mode = "scratch"
  /\ pc \in {"locked", "ask", "fix", "promote"} => mode = "restored"
  /\ pc = "record" => mode # "external"
  /\ mode # "restored" => \A t \in Tablets : rec[t] # "restore"

\* Only a shard without backups is ever initialised by InitShardPrimary.
Raced == race # "none" => mode = "scratch"

\* Who is initialised: every primary, the candidate about to be promoted, and,
\* unless others reparented since, none of the tablets that said they are not.
Data ==
  /\ NoRaceLost /\ mode # "external" => Claiming \subseteq db
  /\ pc = "promote" => cand \in db
  /\ race = "none" /\ pc = "check" => db \subseteq todo

\* What a pass knows while it holds the shard lock.  Once a tablet is promoted
\* the lock lasts until the record is written or the pass is over.
Locked ==
  /\ pc \in {"ask", "promote"} /\ lock = "operator" => prim = None /\ Claiming = {}
  /\ pc = "fix" /\ lock = "operator" => prim = None /\ rec[cand] = "primary"
  /\ pc = "record" => lock = "operator" /\ rec[cand] = "primary"
  /\ NoRaceLost /\ pc = "record" => prim = None

Inv == TypeOK /\ AtMostOne /\ RecordNamesPrimary /\ Moded /\ Raced /\ Data /\ Locked

-----------------------------------------------------------------------------
(* Types *)

\* The status the VitessShard controller publishes is one the elections expect.
LEMMA StatusTypes ==
  ASSUME TypeOK, ReconcileShard
  PROVE  TypeOK'
<1>1. PICK master \in {"Unknown", IF prim = None THEN "False" ELSE "True"},
           types \in {NoRecs, rec}, known \in {FALSE, backup} :
        /\ status' = [master |-> master, types |-> types, running |-> running,
                      backup |-> HasInitialBackup(master, known)]
        /\ job' = BackupPod(master, known)
  BY DEF ReconcileShard
<1>2. UNCHANGED <<tabletVars, backup, prim, lock, given, pass>>
  BY DEF ReconcileShard
<1>3. job' \in {"none", "running", "succeeded", "evicted"}
  BY <1>1 DEF BackupPod, TypeOK
<1>4. HasInitialBackup(master, known) \in {"Unknown", "True"}
  BY DEF HasInitialBackup
<1>5. types \in [Tablets -> Types]
  BY DEF TypeOK, NoRecs, Types
<1>6. status' \in [master : {"Unknown", "True", "False"}, types : [Tablets -> Types],
                   running : SUBSET Tablets, backup : {"Unknown", "True"}]
  <2> HIDE DEF Types
  <2>1. master \in {"Unknown", "True", "False"} /\ running \in SUBSET Tablets
    BY DEF TypeOK
  <2> QED BY <1>1, <1>4, <1>5, <2>1
<1> QED BY <1>2, <1>3, <1>6 DEF TypeOK, tabletVars, given, pass

\* The records after t was made primary.
LEMMA PromotedRecords ==
  ASSUME TypeOK, NEW t \in Tablets, rec' = Promoted(t)
  PROVE  /\ rec' \in [Tablets -> Types]
         /\ \A u \in Tablets : rec'[u] = "primary" <=> u = t
         /\ \A u \in Tablets : rec'[u] = "restore" => rec[u] = "restore"
<1>1. \A u \in Tablets : \/ u = t /\ rec'[u] = "primary"
                         \/ u # t /\ rec[u] = "primary" /\ rec'[u] = InitTabletType(u)
                         \/ u # t /\ rec[u] # "primary" /\ rec'[u] = rec[u]
  BY DEF Promoted
<1>2. rec' = [u \in Tablets |-> rec'[u]]
  BY DEF Promoted
<1>3. \A u \in Tablets : InitTabletType(u) \in {"replica", "rdonly"} /\ rec[u] \in Types
  BY DEF InitTabletType, TypeOK
<1>4. \A u \in Tablets : rec'[u] \in Types
  BY <1>1, <1>3 DEF Types
<1> QED BY <1>1, <1>2, <1>3, <1>4

\* A tablet's own steps change its type, but never to or from primary.
LEMMA TabletTypes ==
  ASSUME TypeOK, Moded, NEW t \in Tablets,
         TabletStarts(t) \/ TabletStops(t) \/ RestoreBegins(t) \/ RestoreDone(t)
  PROVE  /\ TypeOK'
         /\ UNCHANGED <<mode, race, prim, lock, pass>>
         /\ \A u \in Tablets : rec'[u] = "primary" <=> rec[u] = "primary"
         /\ mode # "restored" => \A u \in Tablets : rec'[u] # "restore"
         /\ db' = db \/ (mode = "restored" /\ db \subseteq db')
<1>0. InitTabletType(t) \in {"replica", "rdonly"} /\ rec \in [Tablets -> Types]
  BY DEF InitTabletType, TypeOK
<1>1. /\ running' \subseteq Tablets /\ db' \subseteq Tablets
      /\ UNCHANGED <<mode, race, prim, lock, pass, backup, job, status, otherLeft>>
      /\ troubleLeft' \in Nat
  BY DEF TabletStarts, TabletStops, RestoreBegins, RestoreDone, TypeOK, Trouble, tabletVars,
     backupVars, given
<1>2. db' = db \/ (mode = "restored" /\ db \subseteq db')
  BY DEF TabletStarts, TabletStops, RestoreBegins, RestoreDone, Moded
<1>3. \/ rec' = rec
      \/ rec' = [rec EXCEPT ![t] = InitTabletType(t)] /\ rec[t] # "primary"
      \/ rec' = [rec EXCEPT ![t] = "restore"] /\ rec[t] # "primary" /\ mode = "restored"
  <2>1. CASE TabletStarts(t)
    <3>1. rec' = [rec EXCEPT ![t] = IF rec[t] = "primary" THEN rec[t] ELSE InitTabletType(t)]
      BY <2>1 DEF TabletStarts
    <3> QED BY <1>0, <3>1
  <2>2. CASE TabletStops(t)
    BY <2>2 DEF TabletStops
  <2>3. CASE RestoreBegins(t)
    BY <1>0, <2>3 DEF RestoreBegins
  <2>4. CASE RestoreDone(t)
    BY <2>4 DEF RestoreDone
  <2> QED BY <2>1, <2>2, <2>3, <2>4
<1>4. /\ rec' \in [Tablets -> Types]
      /\ \A u \in Tablets : rec'[u] = "primary" <=> rec[u] = "primary"
      /\ mode # "restored" => \A u \in Tablets : rec'[u] # "restore"
  BY <1>0, <1>3 DEF Types, Moded
<1> QED BY <1>1, <1>2, <1>4 DEF TypeOK, pass

\* Returning from a pass leaves nothing of it behind.
LEMMA EndedPass ==
  ASSUME EndPass, lock \in {None, "operator"}
  PROVE  /\ pc' = "idle" /\ todo' = {} /\ cand' = None
         /\ recs' \in [Tablets -> Types] /\ lock' \in {None, "operator"}
BY DEF EndPass, NoRecs, Types

-----------------------------------------------------------------------------
(* The invariant *)

\* A new shard satisfies it.
LEMMA InitInv == Init => Inv
<1> SUFFICES ASSUME Init PROVE Inv
  OBVIOUS
<1> USE ShardInitAssumption DEF Init, NoRecs, NewStatus, Types
<1>1. TypeOK
  BY DEF TypeOK
<1>2. AtMostOne /\ RecordNamesPrimary /\ Moded /\ Locked
  BY DEF AtMostOne, RecordNamesPrimary, Moded, Locked
<1>3. Raced /\ Data
  BY DEF Raced, Data, Claiming
<1> QED BY <1>1, <1>2, <1>3 DEF Inv

\* What happens to tablets, backups and the status while nobody is promoted
\* and no pass moves.
LEMMA Quiet ==
  ASSUME Inv, TypeOK', UNCHANGED <<mode, race, prim, lock, pass>>,
         \A u \in Tablets : rec'[u] = "primary" <=> rec[u] = "primary",
         mode # "restored" => \A u \in Tablets : rec'[u] # "restore",
         db' = db \/ (mode = "restored" /\ db \subseteq db')
  PROVE  Inv'
<1> USE ShardInitAssumption DEF Inv, pass, NoRaceLost
<1>1. AtMostOne' /\ Moded'
  BY DEF AtMostOne, Moded
<1>2. RecordNamesPrimary' /\ Locked'
  <2>1. prim \in Tablets \cup {None} /\ Claiming' = Claiming
    BY DEF TypeOK, Claiming
  <2>2. pc \in {"fix", "record"} => cand \in Tablets
    BY DEF TypeOK
  <2> QED BY <2>1, <2>2 DEF RecordNamesPrimary, Locked
<1>3. Raced' /\ Data'
  BY DEF Raced, Data, Claiming, Moded
<1> QED BY <1>1, <1>2, <1>3

\* A pass that is over, whoever holds the lock then, if nothing was changed.
LEMMA Over ==
  ASSUME Inv, TypeOK', pc' = "idle", UNCHANGED <<mode, race, rec, db, prim>>
  PROVE  Inv'
BY DEF Inv, AtMostOne, RecordNamesPrimary, Moded, Raced, Data, Claiming, Locked, NoRaceLost

\* Somebody else's reparent needs the lock, so no pass relies on there being
\* no primary; one that asks the tablets does not either, once it is "open".
LEMMA OtherReparentKeeps ==
  ASSUME Inv, NEW t \in Tablets, OtherReparent(t) \/ ExternallyReparent(t)
  PROVE  Inv'
<1> USE ShardInitAssumption
<1>0. /\ TypeOK /\ rec' = Promoted(t) /\ prim' = t /\ lock = None
      /\ UNCHANGED <<mode, troubleLeft, running, backup, job, status, lock, pass>>
      /\ otherLeft' \in Nat
  BY DEF Inv, TypeOK, OtherReparent, ExternallyReparent, backupVars, given
<1>1. /\ race' \in {"none", "open", "lost"} /\ (NoRaceLost' <=> NoRaceLost)
      /\ race' # "none" => mode = "scratch"
      /\ race' = "none" /\ pc = "check" => race = "none" /\ db' = db
      /\ db' \subseteq Tablets /\ db \subseteq db'
      /\ mode # "external" => t \in db'
      /\ mode # "scratch" => db' = db
  <2>1. CASE OtherReparent(t)
    BY <2>1 DEF Inv, TypeOK, Moded, Raced, OtherReparent, given, NoRaceLost
  <2>2. CASE ExternallyReparent(t)
    BY <2>2 DEF Inv, TypeOK, Moded, Raced, ExternallyReparent, given, NoRaceLost
  <2> QED BY <2>1, <2>2
<1>2. /\ rec' \in [Tablets -> Types]
      /\ \A u \in Tablets : rec'[u] = "primary" <=> u = t
      /\ \A u \in Tablets : rec'[u] = "restore" => rec[u] = "restore"
  BY <1>0, PromotedRecords
<1>3. TypeOK'
  BY <1>0, <1>1, <1>2 DEF TypeOK, pass
<1> USE DEF Inv, pass, NoRaceLost
<1>4. AtMostOne' /\ Moded' /\ Raced'
  BY <1>0, <1>1, <1>2 DEF AtMostOne, Moded, Raced
<1>5. RecordNamesPrimary' /\ Locked'
  BY <1>0, <1>1, <1>2 DEF RecordNamesPrimary, Locked
<1>6. Data'
  BY <1>0, <1>1, <1>2 DEF Data, Claiming
<1> QED BY <1>3, <1>4, <1>5, <1>6

-----------------------------------------------------------------------------
(* Its steps outside the elections *)

LEMMA TabletKeeps ==
  ASSUME Inv, NEW t \in Tablets,
         TabletStarts(t) \/ TabletStops(t) \/ RestoreBegins(t) \/ RestoreDone(t)
  PROVE  Inv'
<1>1. TypeOK /\ Moded
  BY DEF Inv
<1> QED BY <1>1, TabletTypes, Quiet

\* The backup Pod, the status and the lease.
LEMMA ShardKeeps ==
  ASSUME Inv, BackupDone \/ BackupEvicted \/ ReconcileShard
  PROVE  Inv'
<1>1. TypeOK'
  <2>1. CASE BackupDone
    BY <2>1 DEF BackupDone, Inv, TypeOK, tabletVars, given, pass
  <2>2. CASE BackupEvicted
    BY <2>2 DEF BackupEvicted, Trouble, Inv, TypeOK, tabletVars, pass
  <2>3. CASE ReconcileShard
    BY <2>3, StatusTypes DEF Inv
  <2> QED BY <2>1, <2>2, <2>3
<1>2. UNCHANGED <<mode, race, prim, lock, pass, rec, db>>
  BY DEF BackupDone, BackupEvicted, ReconcileShard, Trouble, tabletVars, given
<1>3. mode # "restored" => \A u \in Tablets : rec'[u] # "restore"
  BY <1>2 DEF Inv, Moded
<1> QED BY <1>1, <1>2, <1>3, Quiet

\* A pass that lost its lock knows nothing any more.
LEMMA LockExpiresKeeps ==
  ASSUME Inv, LockExpires
  PROVE  Inv'
<1> USE ShardInitAssumption
<1>1. UNCHANGED <<mode, race, prim, pass, rec, db>> /\ lock' = None /\ pc # "record"
  BY DEF LockExpires, Trouble, tabletVars, given
<1>2. TypeOK'
  BY <1>1 DEF LockExpires, Trouble, Inv, TypeOK, tabletVars, backupVars, given, pass
<1>3. Locked'
  BY <1>1 DEF Locked, NoRaceLost, pass
<1>4. AtMostOne' /\ RecordNamesPrimary' /\ Moded' /\ Raced' /\ Data'
  BY <1>1 DEF Inv, AtMostOne, RecordNamesPrimary, Moded, Raced, Data, Claiming, NoRaceLost, pass
<1> QED BY <1>2, <1>3, <1>4 DEF Inv

\* A pass that fails, or an operator that dies, leaves a promoted tablet at
\* most, never one recorded but not promoted.
LEMMA EndKeeps ==
  ASSUME Inv, PassFails \/ Crash
  PROVE  Inv'
<1> USE ShardInitAssumption
<1>1. /\ pc' = "idle" /\ todo' = {} /\ cand' = None /\ lock' \in {None, "operator"}
      /\ recs' \in [Tablets -> Types]
      /\ UNCHANGED <<tabletVars, backupVars, prim, status, given>>
  <2>1. CASE PassFails
    BY <2>1, EndedPass DEF PassFails, Inv, TypeOK
  <2>2. CASE Crash
    BY <2>2 DEF Crash, NoRecs, Types, Inv, TypeOK
  <2> QED BY <2>1, <2>2
<1>2. TypeOK'
  BY <1>1 DEF Inv, TypeOK, tabletVars, backupVars, given
<1> QED BY <1>1, <1>2, Over DEF tabletVars, given

-----------------------------------------------------------------------------
(* Its steps in the elections *)

\* From scratch: the tablets are asked one by one whether they are empty.
LEMMA ScratchKeeps ==
  ASSUME Inv, InitShardPrimaryStarts \/ \E t \in Tablets : ReadyForShardInit(t)
  PROVE  Inv'
<1>1. /\ pc' = "check"
      /\ UNCHANGED <<tabletVars, backupVars, prim, lock, status, mode, otherLeft, troubleLeft,
                     recs, cand>>
      /\ race' \in {"none", "open", "lost"} /\ (NoRaceLost' <=> NoRaceLost)
      /\ todo' \subseteq Tablets /\ mode = "scratch" /\ cand = None
      /\ race' = "none" => db \subseteq todo'
  BY DEF InitShardPrimaryStarts, ReadyForShardInit, Inv, TypeOK, Data, Moded, tabletVars, given,
     NoRaceLost
<1> USE <1>1 DEF Inv, tabletVars, backupVars, NoRaceLost
<1>2. TypeOK'
  BY DEF TypeOK
<1>3. AtMostOne' /\ RecordNamesPrimary' /\ Raced'
  BY DEF AtMostOne, RecordNamesPrimary, Raced
<1>4. Moded' /\ Data' /\ Locked'
  BY DEF Moded, Data, Claiming, Locked
<1> QED BY <1>2, <1>3, <1>4

\* An initialisation begins only in a shard without data and without primary,
\* unless others reparented while the tablets were asked.
LEMMA NothingToErase ==
  ASSUME Inv, NEW t \in Tablets, InitShardPrimary(t), NoRaceLost'
  PROVE  NoRaceLost /\ db = {} /\ Claiming = {} /\ prim = None
<1>1. race = "none" /\ mode = "scratch" /\ db = {} /\ Claiming = {}
  BY DEF InitShardPrimary, Inv, TypeOK, Moded, Data, NoRaceLost
<1>2. prim = None
  BY <1>1 DEF Inv, RecordNamesPrimary, Claiming, TypeOK, NoRaceLost
<1> QED BY <1>1, <1>2 DEF NoRaceLost

LEMMA InitShardPrimaryKeeps ==
  ASSUME Inv, NEW t \in Tablets, InitShardPrimary(t)
  PROVE  Inv'
<1> USE ShardInitAssumption
<1>1. /\ rec' = [rec EXCEPT ![t] = "primary"] /\ db' = {t} /\ cand' = t
      /\ pc' = "record" /\ lock' = "operator" /\ race' \in {"none", "open", "lost"}
      /\ UNCHANGED <<running, backupVars, prim, status, mode, otherLeft, troubleLeft, todo, recs>>
  BY DEF InitShardPrimary, Inv, TypeOK
<1>2. mode = "scratch" /\ TypeOK
  BY DEF InitShardPrimary, Inv, Moded
<1>3. /\ rec' \in [Tablets -> Types] /\ rec'[t] = "primary"
      /\ \A u \in Tablets \ {t} : rec'[u] = rec[u]
  BY <1>1, <1>2 DEF TypeOK, Types
<1>4. TypeOK'
  BY <1>1, <1>2, <1>3 DEF TypeOK, backupVars
<1>5. Moded' /\ Raced'
  BY <1>1, <1>2, <1>3 DEF Inv, Moded, Raced
<1>6. AtMostOne' /\ RecordNamesPrimary' /\ Data' /\ Locked'
  <2>1. CASE NoRaceLost'
    BY <1>1, <1>2, <1>3, <2>1, NothingToErase
    DEF AtMostOne, RecordNamesPrimary, Data, Claiming, Locked
  <2>2. CASE ~NoRaceLost'
    <3>1. prim \in Tablets \cup {None} /\ (prim # None => rec'[prim] = "primary")
      BY <1>1, <1>2, <1>3 DEF Inv, RecordNamesPrimary, TypeOK
    <3> QED BY <1>1, <1>3, <2>2, <3>1
            DEF AtMostOne, RecordNamesPrimary, Data, Locked, NoRaceLost
  <2> QED BY <2>1, <2>2
<1> QED BY <1>4, <1>5, <1>6 DEF Inv

\* The election of a restored shard takes the lock.
LEMMA ElectionStartsKeeps ==
  ASSUME Inv, ElectionStarts
  PROVE  Inv'
<1>1. /\ mode = "restored" /\ pc = "idle" /\ lock' = "operator" /\ pc' = "locked"
      /\ UNCHANGED <<tabletVars, backupVars, prim, status, given, todo, recs, cand>>
  BY DEF ElectionStarts
<1> USE <1>1 DEF Inv, tabletVars, backupVars, given, NoRaceLost
<1>2. TypeOK'
  BY DEF TypeOK
<1>3. AtMostOne' /\ RecordNamesPrimary' /\ Moded' /\ Raced' /\ Data' /\ Locked'
  BY DEF AtMostOne, RecordNamesPrimary, Moded, Raced, Data, Claiming, Locked
<1> QED BY <1>2, <1>3

\* The records are read: who claims to be primary is the only one, and the
\* shard record names nobody.
LEMMA ElectionReadsKeeps ==
  ASSUME Inv, ElectionReads
  PROVE  Inv'
<1> USE ShardInitAssumption
<1>0. /\ pc = "locked" /\ mode = "restored"
      /\ UNCHANGED <<running, rec, db, backupVars, prim, status, given>>
  BY DEF ElectionReads, Inv, Moded, tabletVars
<1>1. CASE EndPass
  <2>1. TypeOK'
    BY <1>0, <1>1, EndedPass DEF Inv, TypeOK, backupVars, given
  <2> QED BY <1>0, <1>1, <2>1, EndedPass, Over DEF Inv, TypeOK, given
<1>2. CASE /\ prim = None /\ recs' = rec /\ UNCHANGED <<todo, lock>>
           /\ \/ Claiming = {} /\ pc' = "ask" /\ UNCHANGED cand
              \/ cand' \in Claiming /\ pc' = "fix"
  <2> USE <1>0, <1>2 DEF Inv, backupVars, given, NoRaceLost
  <2>1. cand' \in Claiming \/ cand' = cand
    OBVIOUS
  <2>2. TypeOK'
    BY <2>1 DEF TypeOK, Claiming
  <2>3. AtMostOne' /\ RecordNamesPrimary' /\ Moded' /\ Raced' /\ Data'
    BY DEF AtMostOne, RecordNamesPrimary, Moded, Raced, Data, Claiming
  <2>4. Locked'
    BY DEF Locked, Claiming
  <2> QED BY <2>2, <2>3, <2>4
<1> QED BY <1>1, <1>2 DEF ElectionReads

\* The candidate is a replica that has the data.
LEMMA ElectionAsksKeeps ==
  ASSUME Inv, NEW t \in Tablets, ElectionAsks(t)
  PROVE  Inv'
<1>1. /\ pc = "ask" /\ t \in db /\ cand' = t /\ pc' = "promote"
      /\ UNCHANGED <<tabletVars, backupVars, prim, lock, status, given, todo, recs>>
  BY DEF ElectionAsks
<1> USE <1>1 DEF Inv, tabletVars, backupVars, given, NoRaceLost
<1>2. TypeOK'
  BY DEF TypeOK
<1>3. AtMostOne' /\ RecordNamesPrimary' /\ Moded' /\ Raced' /\ Data' /\ Locked'
  BY DEF AtMostOne, RecordNamesPrimary, Moded, Raced, Data, Claiming, Locked
<1> QED BY <1>2, <1>3

\* The candidate is promoted under the lock, so nobody else was meanwhile;
\* whether the operator hears of it or not.
LEMMA PromoteKeeps ==
  ASSUME Inv, Promote \/ PromoteTimesOut
  PROVE  Inv'
<1> USE ShardInitAssumption
<1>0. /\ pc = "promote" /\ cand \in Tablets /\ mode = "restored" /\ cand \in db
      /\ UNCHANGED <<running, db, backupVars, prim, status, given>>
  BY DEF Promote, PromoteTimesOut, Inv, TypeOK, Moded, Raced, Data
<1>1. CASE EndPass /\ UNCHANGED rec
  <2>1. TypeOK'
    BY <1>0, <1>1, EndedPass DEF Inv, TypeOK, backupVars, given
  <2> QED BY <1>0, <1>1, <2>1, EndedPass, Over DEF Inv, TypeOK, given
<1>2. CASE /\ lock = "operator" /\ rec' = [rec EXCEPT ![cand] = "primary"]
           /\ \/ pc' = "record" /\ UNCHANGED <<todo, recs, cand, lock>>
              \/ EndPass
  <2>1. Claiming = {} /\ prim = None
    BY <1>0, <1>2 DEF Inv, Locked
  <2>2. /\ rec' \in [Tablets -> Types]
        /\ \A u \in Tablets : rec'[u] = "primary" <=> u = cand
        /\ \A u \in Tablets : rec'[u] = "restore" => rec[u] = "restore"
    BY <1>0, <1>2, <2>1 DEF Inv, TypeOK, Types, Claiming
  <2>3. /\ recs' \in [Tablets -> Types] /\ todo' \subseteq Tablets /\ lock' \in {None, "operator"}
        /\ \/ pc' = "record" /\ cand' = cand /\ lock' = "operator"
           \/ pc' = "idle" /\ cand' = None
    BY <1>2, EndedPass DEF Inv, TypeOK
  <2>4. TypeOK'
    BY <1>0, <2>2, <2>3 DEF Inv, TypeOK, backupVars, given
  <2>5. AtMostOne' /\ RecordNamesPrimary' /\ Moded' /\ Raced' /\ Data' /\ Locked'
    BY <1>0, <2>1, <2>2, <2>3 DEF Inv, AtMostOne, RecordNamesPrimary, Moded, Raced, Data, Claiming,
       Locked, NoRaceLost, given
  <2> QED BY <2>4, <2>5 DEF Inv
<1> QED BY <1>1, <1>2 DEF Promote, PromoteTimesOut

\* Both ways to write the shard record name the tablet that was promoted.
LEMMA FixRecordKeeps ==
  ASSUME Inv, FixRecord
  PROVE  Inv'
<1> USE ShardInitAssumption
<1>0. /\ EndPass /\ UNCHANGED <<running, rec, db, backupVars, status, given>>
      /\ \/ prim' = prim
         \/ prim' = cand /\ cand \in Tablets /\ rec[cand] = "primary"
  BY DEF FixRecord, tabletVars, Inv, TypeOK, Locked
<1>1. /\ pc' = "idle" /\ todo' = {} /\ cand' = None
      /\ recs' \in [Tablets -> Types] /\ lock' \in {None, "operator"}
  BY <1>0, EndedPass DEF Inv, TypeOK
<1> USE <1>0, <1>1 DEF Inv, backupVars, given, NoRaceLost
<1>2. TypeOK'
  BY DEF TypeOK
<1>3. AtMostOne' /\ RecordNamesPrimary' /\ Raced'
  BY DEF AtMostOne, RecordNamesPrimary, Raced
<1>4. Moded' /\ Data' /\ Locked'
  BY DEF Moded, Data, Claiming, Locked
<1> QED BY <1>2, <1>3, <1>4

LEMMA UpdateRecordKeeps ==
  ASSUME Inv, UpdateRecord
  PROVE  Inv'
<1> USE ShardInitAssumption
<1>0. /\ EndPass /\ UNCHANGED <<running, backupVars, status, given>>
      /\ TypeOK /\ cand \in Tablets /\ prim' = cand /\ rec' = Promoted(cand)
      /\ db \subseteq db' /\ db' \subseteq Tablets /\ mode # "external"
      /\ rec[cand] = "primary"
  BY DEF UpdateRecord, Inv, TypeOK, Moded, Locked
<1>1. /\ pc' = "idle" /\ todo' = {} /\ cand' = None
      /\ recs' \in [Tablets -> Types] /\ lock' \in {None, "operator"}
  BY <1>0, EndedPass DEF TypeOK
<1>2. /\ rec' \in [Tablets -> Types]
      /\ \A u \in Tablets : rec'[u] = "primary" <=> u = cand
      /\ \A u \in Tablets : rec'[u] = "restore" => rec[u] = "restore"
  BY <1>0, PromotedRecords
<1>3. TypeOK'
  BY <1>0, <1>1, <1>2 DEF TypeOK, backupVars, given
<1> USE <1>0, <1>1, <1>2 DEF Inv, given, NoRaceLost
<1>4. AtMostOne' /\ RecordNamesPrimary' /\ Raced'
  BY DEF AtMostOne, RecordNamesPrimary, Raced
<1>5. Moded' /\ Data' /\ Locked'
  BY DEF Moded, Data, Claiming, Locked
<1> QED BY <1>3, <1>4, <1>5

-----------------------------------------------------------------------------
(* The theorems *)

LEMMA InvStep ==
  ASSUME Inv, [Next]_vars
  PROVE  Inv'
<1>1. CASE \E t \in Tablets : TabletStep(t) \/ ExternallyReparent(t)
  BY <1>1, TabletKeeps, OtherReparentKeeps DEF TabletStep
<1>2. CASE ElectionStep
  BY <1>2, ElectionStartsKeeps, ElectionReadsKeeps, ElectionAsksKeeps, PromoteKeeps,
     FixRecordKeeps, UpdateRecordKeeps DEF ElectionStep
<1>3. CASE ScratchStep
  BY <1>3, ScratchKeeps, InitShardPrimaryKeeps DEF ScratchStep
<1>4. CASE BackupDone \/ BackupEvicted \/ LockExpires \/ ReconcileShard \/ PassFails \/ Crash
  BY <1>4, ShardKeeps, LockExpiresKeeps, EndKeeps
<1>5. CASE UNCHANGED vars
  <2>1. TypeOK'
    BY <1>5 DEF Inv, TypeOK, vars, tabletVars, backupVars, given, pass
  <2> QED BY <1>5, <2>1, Quiet DEF vars, tabletVars, given, Inv, Moded
<1> QED BY <1>1, <1>2, <1>3, <1>4, <1>5 DEF Next

LEMMA Invariant == Spec => []Inv
<1>1. Init => Inv
  BY InitInv
<1>2. Inv /\ [Next]_vars => Inv'
  BY InvStep
<1> QED BY <1>1, <1>2, PTL DEF Spec

\* Everything has its type; an election that holds a candidate holds a tablet.
THEOREM InitTypes == Spec => []TypeOK
<1>1. Inv => TypeOK
  BY DEF Inv
<1> QED BY <1>1, Invariant, PTL

(***************************************************************************)
(* At most one tablet claims to be primary, although a crash, a time-out   *)
(* or a lost lock may come between promoting a tablet and recording it;    *)
(* unless InitShardPrimary was forced over a reparent by others since the  *)
(* tablets were asked.                                                     *)
(***************************************************************************)
THEOREM NeverTwoPrimaries == Spec => []OnePrimaryTablet
<1>1. Inv => OnePrimaryTablet
  <2> SUFFICES ASSUME Inv, NoRaceLost PROVE Cardinality(Claiming) <= 1
    BY DEF OnePrimaryTablet
  <2>1. CASE Claiming = {}
    BY <2>1, FS_EmptySet
  <2>2. CASE Claiming # {}
    <3>1. PICK t \in Claiming : TRUE
      BY <2>2
    <3>2. Claiming = {t}
      BY <3>1 DEF Inv, AtMostOne, Claiming
    <3>3. Cardinality({t}) = 1
      BY FS_Singleton
    <3> QED BY <3>2, <3>3
  <2> QED BY <2>1, <2>2
<1> QED BY <1>1, Invariant, PTL

\* The shard record never names a tablet that is not primary, whatever step of an
\* election is lost and whoever reparents in between.
THEOREM RecordIsTrue == Spec => []RecordNamesPrimary
<1>1. Inv => RecordNamesPrimary
  BY DEF Inv
<1> QED BY <1>1, Invariant, PTL

\* With backups, the primary is a tablet whose restore is done.
THEOREM PrimaryWasRestored == Spec => []PrimaryHasData
<1>1. Inv => PrimaryHasData
  BY DEF Inv, Raced, Data, PrimaryHasData, NoRaceLost
<1> QED BY <1>1, Invariant, PTL

(***************************************************************************)
(* No step takes an initialised tablet's data away: neither that of an     *)
(* initialisation of its own that failed half way, nor that of a tablet    *)
(* others initialised before the tablets were asked.  What others          *)
(* initialise after that and before InitShardPrimary is not safe           *)
(* (NoRaceLost).                                                           *)
(***************************************************************************)
THEOREM NothingErased == Spec => NeverErased
<1>1. ASSUME Inv, Next, NoRaceLost' PROVE db \subseteq db'
  <2>1. CASE \E t \in Tablets : InitShardPrimary(t)
    BY <1>1, <2>1, NothingToErase
  <2>2. CASE UpdateRecord
    BY <2>2 DEF UpdateRecord
  <2>3. CASE \E t \in Tablets : RestoreDone(t)
    BY <2>3 DEF RestoreDone
  <2>4. CASE \E t \in Tablets : OtherReparent(t)
    BY <2>4 DEF OtherReparent
  <2>5. CASE UNCHANGED db
    BY <2>5
  <2>6. \/ \E t \in Tablets : InitShardPrimary(t)
        \/ UpdateRecord
        \/ \E t \in Tablets : RestoreDone(t)
        \/ \E t \in Tablets : OtherReparent(t)
        \/ UNCHANGED db
    BY <1>1 DEF Next, TabletStep, ElectionStep, ScratchStep, TabletStarts, TabletStops, RestoreBegins,
       ExternallyReparent, BackupDone, BackupEvicted, LockExpires, ReconcileShard,
       ElectionStarts, ElectionReads, FixRecord, Promote, PromoteTimesOut, ElectionAsks,
       InitShardPrimaryStarts, ReadyForShardInit, PassFails, Crash, tabletVars
  <2> QED BY <2>1, <2>2, <2>3, <2>4, <2>5, <2>6
<1> DEFINE Kept == NoRaceLost' => db \subseteq db'
<1>2. Inv /\ [Next]_vars => [Kept]_vars
  BY <1>1
<1> QED BY <1>2, Invariant, PTL DEF Spec, NeverErased

(***************************************************************************)
(* Where MySQL is not external, no initialisation replaces a primary that  *)
(* the shard record names, except one that others made between the check   *)
(* of the tablets and InitShardPrimary; otherwise only somebody else's     *)
(* reparent replaces it.                                                   *)
(***************************************************************************)
THEOREM PrimaryStays ==
  ASSUME "external" \notin Modes
  PROVE  Spec => PrimaryKept
<1> DEFINE Kept == NoRaceLost' /\ prim # None /\ otherLeft' = otherLeft => prim' = prim
<1>1. ASSUME Inv, Next PROVE Kept
  <2>1. CASE \E t \in Tablets : OtherReparent(t)
    BY <2>1, <1>1 DEF OtherReparent, Inv, TypeOK
  <2>2. CASE \E t \in Tablets : ExternallyReparent(t)
    BY <2>2, <1>1 DEF ExternallyReparent, Inv, TypeOK
  <2>3. CASE FixRecord \/ UpdateRecord
    <3>1. race' = race
      BY <2>3 DEF FixRecord, UpdateRecord, given
    <3> QED BY <2>3, <3>1, <1>1 DEF FixRecord, UpdateRecord, Inv, Locked, NoRaceLost
  <2>4. CASE UNCHANGED prim
    BY <2>4
  <2>5. \/ \E t \in Tablets : OtherReparent(t)
        \/ \E t \in Tablets : ExternallyReparent(t)
        \/ FixRecord \/ UpdateRecord
        \/ UNCHANGED prim
    BY <1>1 DEF Next, TabletStep, ElectionStep, ScratchStep, TabletStarts, TabletStops, RestoreBegins,
       RestoreDone, BackupDone, BackupEvicted, LockExpires, ReconcileShard,
       ElectionStarts, ElectionReads, Promote, PromoteTimesOut, ElectionAsks,
       InitShardPrimaryStarts, ReadyForShardInit, InitShardPrimary, PassFails, Crash
  <2> QED BY <2>1, <2>2, <2>3, <2>4, <2>5
<1>2. Inv /\ [Next]_vars => [Kept]_vars
  BY <1>1
<1> QED BY <1>2, Invariant, PTL DEF Spec, PrimaryKept
=============================================================================
