----------------------------- MODULE BackupProofs ------------------------------
(***************************************************************************)
(* Proofs about the backup schedules: the cron expressions they run by     *)
(* (BackupFrequency), the shards they stand for (BackupStrategies), and    *)
(* the controller's passes for one shard (BackupSchedule), for any         *)
(* schedule of instants, any limits, and any number of failures.           *)
(*                                                                         *)
(* Why a pass that works from a stale listing starts no second backup: the *)
(* only Job the cache can miss is that of the latest instant that has      *)
(* passed, and that is the Job the pass would create (Running).            *)
(***************************************************************************)
EXTENDS BackupSchedule, BackupStrategies, FiniteSetTheorems, FunctionTheorems, SequenceTheorems, TLAPS

-----------------------------------------------------------------------------
(* Frequencies: the generated expression is exact                            *)

\* The frequencies that cron can represent below an hour, and the steps in hours.
LEMMA Divisors60 ==
  \A n \in 1..59 : 60 % n = 0 => n \in {1, 2, 3, 4, 5, 6, 10, 12, 15, 20, 30}
  BY SMTT(60)

LEMMA Divisors24 ==
  \A n \in 1..23 : 24 % n = 0 => n \in {1, 2, 3, 4, 6, 8, 12}
  BY SMTT(60)

\* cronFromInterval: for every valid frequency and offset the expression fires at
\* the minutes of the day that are the offset apart from a multiple of the
\* frequency, and at no other.  As a valid frequency divides the day, backups
\* are one frequency apart across midnight, too.
THEOREM CronIsExact ==
  ASSUME NEW total, ValidFrequency(total), NEW offset \in 0..(total - 1),
         NEW time \in 0..1439
  PROVE  Fires(CronFromInterval(total, offset), time) <=> time % total = offset
<1> DEFINE mm == time % 60
           hh == time \div 60
<1>1. time = 60 * hh + mm /\ mm \in 0..59 /\ hh \in 0..23
  BY SMT
<1>2. CASE total < 60
  <2>1. total \in {1, 2, 3, 4, 5, 6, 10, 12, 15, 20, 30}
    BY <1>2, Divisors60, SMT DEF ValidFrequency
  <2>2. offset % total = offset /\ offset <= 59
    BY <2>1, SMT
  <2>3. Fires(CronFromInterval(total, offset), time) <=> offset <= mm /\ (mm - offset) % total = 0
    BY <1>2, <2>2, <1>1, SMT DEF Fires, CronFromInterval
  <2>4. offset <= mm /\ (mm - offset) % total = 0 <=> time % total = offset
    BY <2>1, <1>1, SMT
  <2> QED BY <2>3, <2>4
<1>3. CASE total = 1440
  <2> DEFINE om == offset % 60
             oh == offset \div 60
  <2>1. CronFromInterval(total, offset)
          = [minute |-> om, minutes |-> 60, hour |-> oh, hours |-> 24]
    BY <1>3 DEF CronFromInterval
  <2>2. offset = 60 * oh + om /\ om \in 0..59 /\ oh \in 0..23
    BY <1>3, SMT
  <2>3. time % total = time
    BY <1>3, SMT
  <2>4. Fires(CronFromInterval(total, offset), time) <=>
          om <= mm /\ (mm - om) % 60 = 0 /\ oh <= hh /\ (hh - oh) % 24 = 0
    BY <2>1 DEF Fires
  <2> HIDE DEF mm, hh, om, oh
  <2> QED BY <1>1, <2>2, <2>3, <2>4, SMT
<1>4. CASE 60 <= total /\ total < 1440
  <2> DEFINE step == total \div 60
             om == offset % 60
             oh == offset \div 60
  <2>1. step \in 1..23 /\ 24 % step = 0 /\ total = 60 * step
    BY <1>4, SMT DEF ValidFrequency
  <2>2. step \in {1, 2, 3, 4, 6, 8, 12}
    BY <2>1, Divisors24
  <2>3. offset = 60 * oh + om /\ om \in 0..59 /\ oh \in 0..(step - 1) /\ oh % step = oh
    BY <2>1, <2>2, SMT
  <2>4. CronFromInterval(total, offset)
          = [minute |-> om, minutes |-> 60, hour |-> oh % step, hours |-> step]
    BY <1>4, <2>1, SMT DEF CronFromInterval
  <2>5. CronFromInterval(total, offset)
          = [minute |-> om, minutes |-> 60, hour |-> oh, hours |-> step]
    BY <2>3, <2>4
  <2>6. Fires(CronFromInterval(total, offset), time) <=>
          om <= mm /\ (mm - om) % 60 = 0 /\ oh <= hh /\ (hh - oh) % step = 0
    BY <2>5 DEF Fires
  <2> HIDE DEF mm, hh, om, oh, step
  <2>7. om <= mm /\ (mm - om) % 60 = 0 <=> mm = om
    BY <1>1, <2>3, SMT
  <2>8. (60 * hh + mm) % (60 * step) = 60 * (hh % step) + mm
    <3>1. CASE step = 1
      BY <3>1, <1>1, <2>3, SMTT(30)
    <3>2. CASE step = 2
      BY <3>2, <1>1, <2>3, SMTT(30)
    <3>3. CASE step = 3
      BY <3>3, <1>1, <2>3, SMTT(30)
    <3>4. CASE step = 4
      BY <3>4, <1>1, <2>3, SMTT(30)
    <3>6. CASE step = 6
      BY <3>6, <1>1, <2>3, SMTT(30)
    <3>8. CASE step = 8
      BY <3>8, <1>1, <2>3, SMTT(30)
    <3>12. CASE step = 12
      BY <3>12, <1>1, <2>3, SMTT(30)
    <3> QED BY <2>2, <3>1, <3>2, <3>3, <3>4, <3>6, <3>8, <3>12
  <2>9. oh <= hh /\ (hh - oh) % step = 0 <=> hh % step = oh
    <3>1. CASE step = 1
      BY <3>1, <1>1, <2>3, SMTT(30)
    <3>2. CASE step = 2
      BY <3>2, <1>1, <2>3, SMTT(30)
    <3>3. CASE step = 3
      BY <3>3, <1>1, <2>3, SMTT(30)
    <3>4. CASE step = 4
      BY <3>4, <1>1, <2>3, SMTT(30)
    <3>6. CASE step = 6
      BY <3>6, <1>1, <2>3, SMTT(30)
    <3>8. CASE step = 8
      BY <3>8, <1>1, <2>3, SMTT(30)
    <3>12. CASE step = 12
      BY <3>12, <1>1, <2>3, SMTT(30)
    <3> QED BY <2>2, <3>1, <3>2, <3>3, <3>4, <3>6, <3>8, <3>12
  <2>10. hh % step \in 0..(step - 1)
    BY <1>1, <2>1
  <2>11. time % total = offset <=> mm = om /\ hh % step = oh
    BY <1>1, <2>1, <2>3, <2>8, <2>10
  <2> QED BY <2>6, <2>7, <2>9, <2>11
<1> QED BY <1>2, <1>3, <1>4, SMT DEF ValidFrequency

-----------------------------------------------------------------------------
(* Strategies: nothing is forgotten                                          *)

\* Fewer shards are expanded to when more keyspaces are excluded.
LEMMA ExpandMonotone ==
  ASSUME NEW s, NEW few, NEW many, few \subseteq many, ValidStrategy(s)
  PROVE  Expand(s, many) \subseteq Expand(s, few)
<1>1. s.scope \in {"Shard", "Keyspace", "Cluster"}
  BY DEF ValidStrategy
<1> QED BY <1>1 DEF Expand

\* So a schedule whose overrides its peers respect is not rejected.
LEMMA RespectedIsAccepted ==
  ASSUME NEW specs, NEW p \in DOMAIN specs, RespectedByPeers(specs[p])
  PROVE  Accepted(specs, p)
<1>1. Overrides(specs[p]) \subseteq Excluded(specs, p)
  BY DEF Excluded
<1>2. ASSUME NEW i \in DOMAIN specs[p].strategy
      PROVE  Expand(specs[p].strategy[i], Excluded(specs, p))
               \subseteq Expand(specs[p].strategy[i], Overrides(specs[p]))
  BY <1>1, ExpandMonotone DEF RespectedByPeers, Valid
<1>3. ~Duplicates(specs[p], Excluded(specs, p))
  BY <1>2 DEF RespectedByPeers, Duplicates
<1> QED BY <1>3 DEF RespectedByPeers, Accepted

\* A schedule backs up every shard of the keyspaces it overrides.
LEMMA OverriddenIsBackedUp ==
  ASSUME NEW specs, NEW p \in DOMAIN specs, Accepted(specs, p),
         NEW x \in Shards, x[1] \in Overrides(specs[p])
  PROVE  x \in BackedUp(specs, p)
<1>1. PICK i \in DOMAIN specs[p].strategy :
        specs[p].strategy[i].scope = "Keyspace" /\ specs[p].strategy[i].keyspace = x[1]
  BY DEF Overrides
<1>2. x \in Expand(specs[p].strategy[i], Excluded(specs, p))
  BY <1>1 DEF Expand
<1> QED BY <1>2 DEF BackedUp

\* While one schedule of a cluster is accepted and has a strategy for the whole
\* cluster, every shard of the cluster is backed up by some schedule, whatever
\* the others say: getExcludedKeyspaces only leaves a keyspace to another
\* schedule that takes it.  It judges that schedule without its peers'
\* overrides, which errs on the safe side.
THEOREM NoShardForgotten ==
  ASSUME NEW specs, NEW n \in DOMAIN specs, Accepted(specs, n),
         NEW i \in DOMAIN specs[n].strategy, specs[n].strategy[i].scope = "Cluster"
  PROVE  \A x \in Shards : \E p \in DOMAIN specs : x \in BackedUp(specs, p)
<1> TAKE x \in Shards
<1>1. CASE x[1] \notin Excluded(specs, n)
  <2>1. x \in Expand(specs[n].strategy[i], Excluded(specs, n))
    BY <1>1 DEF Expand
  <2> QED BY <2>1 DEF BackedUp
<1>2. CASE x[1] \in Overrides(specs[n])
  BY <1>2, OverriddenIsBackedUp
<1>3. CASE x[1] \in Excluded(specs, n) /\ x[1] \notin Overrides(specs[n])
  <2>1. PICK p \in DOMAIN specs : RespectedByPeers(specs[p]) /\ x[1] \in Overrides(specs[p])
    BY <1>3 DEF Excluded
  <2>2. x \in BackedUp(specs, p)
    BY <2>1, RespectedIsAccepted, OverriddenIsBackedUp
  <2> QED BY <2>2
<1> QED BY <1>1, <1>2, <1>3

-----------------------------------------------------------------------------
(* The passes for one shard: the invariant *)

\* The latest instant that has passed: the only one a Job is created for.
IsLatest(t) == t \in Times /\ t <= now /\ \A u \in Times : u <= now => u <= t

Existing == {t \in Times : Exists(jobs[t])}

\* Jobs are of instants that have passed, and a run is started when all
\* deletions are done.
Past ==
  /\ \A t \in Times : jobs[t] # "none" \/ seen.jobs[t] # "none" => t <= now
  /\ due # 0 => IsLatest(due)
  /\ pc = "createClaim" => spec.method = "vtbackup"
  /\ pc # "job" /\ pc # "claim" => todo = <<>>

\* What the cache and the pass do not know of active Jobs is about the latest
\* instant, so that the Job's name keeps the pass from starting another.
Running ==
  /\ \A t \in Times : jobs[t] = "active" /\ seen.jobs[t] # "active" => IsLatest(t)
  /\ pc # "idle" /\ ~busy => \A t \in Times : jobs[t] = "active" => IsLatest(t)
  /\ spec.policy = "Forbid" =>
       /\ due # 0 => ~busy
       /\ \A t, u \in Times : jobs[t] = "active" /\ jobs[u] = "active" => t = u

\* The claims there are at every point of a pass, as long as nothing failed;
\* what is to be deleted has its claim in the cache if it has one at all.
Claimed ==
  trouble = 0 =>
    IF spec.method = "vtbackup"
    THEN /\ pc \notin {"claim", "createJob"} => claims = Existing
         /\ pc = "claim" => claims \ {Head(todo).time} = Existing
         /\ pc = "createJob" => claims = Existing \cup {due}
         /\ \A t \in Times : Exists(seen.jobs[t]) => t \in seen.claims
         /\ \A i \in DOMAIN todo : todo[i].time \in claims => todo[i].time \in seen.claims
    ELSE claims = {}

\* Unless a limit is 0, the newest Job of a kind is kept.
Trimming ==
  0 \notin spec.failedLimit \cup spec.completeLimit =>
    /\ \A t \in Times : jobs[t] = "trimmed" => \E u \in Times : t < u /\ u <= now
    /\ \A i \in DOMAIN todo :
         todo[i].why = "trimmed" => \E u \in Times : todo[i].time < u /\ u <= now

Inv == TypeOK /\ Past /\ Running /\ Claimed /\ Trimming

-----------------------------------------------------------------------------
(* Finite sets of numbers: the largest, and all of them in order *)

\* Numbering the elements of a finite set from the smallest to the largest.
LEMMA Numbering ==
  ASSUME NEW S, S \subseteq Nat, IsFiniteSet(S)
  PROVE  /\ Cardinality(S) \in Nat
         /\ \E f \in Bijection(S, 1..Cardinality(S)) : \A t, u \in S : t < u => f[t] < f[u]
<1> DEFINE n == Cardinality(S)
           below(t) == {u \in S : u <= t}
           f == [t \in S |-> Cardinality(below(t))]
<1>1. n \in Nat
  BY FS_CardinalityType
<1>2. \A t \in S : /\ IsFiniteSet(below(t)) /\ Cardinality(below(t)) \in Nat
                   /\ Cardinality(below(t)) <= n /\ t \in below(t)
  <2> SUFFICES ASSUME NEW t \in S
               PROVE  /\ IsFiniteSet(below(t)) /\ Cardinality(below(t)) \in Nat
                      /\ Cardinality(below(t)) <= n /\ t \in below(t)
    OBVIOUS
  <2>1. below(t) \in SUBSET S /\ t \in below(t)
    OBVIOUS
  <2>2. IsFiniteSet(below(t)) /\ Cardinality(below(t)) <= n
    BY <2>1, FS_Subset
  <2> QED BY <2>1, <2>2, FS_CardinalityType
<1>3. \A t \in S : Cardinality(below(t)) # 0
  BY <1>2, FS_EmptySet
<1>4. f \in [S -> 1..n]
  BY <1>1, <1>2, <1>3
<1>5. \A t, u \in S : t < u => f[t] < f[u]
  <2> SUFFICES ASSUME NEW t \in S, NEW u \in S, t < u
               PROVE  Cardinality(below(t)) < Cardinality(below(u))
    OBVIOUS
  <2>1. below(t) \in SUBSET below(u) /\ u \in below(u) /\ u \notin below(t)
    <3>1. \A v \in S : v \in Nat
      OBVIOUS
    <3>2. \A v \in S : v <= t => v <= u
      BY <3>1
    <3>3. u <= u /\ ~(u <= t)
      BY <3>1
    <3> QED BY <3>2, <3>3
  <2>2. /\ Cardinality(below(t)) <= Cardinality(below(u))
        /\ Cardinality(below(u)) = Cardinality(below(t)) => below(u) = below(t)
    BY <1>2, <2>1, FS_Subset
  <2> QED BY <1>2, <2>1, <2>2
<1> HIDE DEF f, n, below
<1>6. f \in Injection(S, 1..n)
  <2>1. \A t, u \in S : f[t] = f[u] => t = u
    <3> SUFFICES ASSUME NEW t \in S, NEW u \in S, f[t] = f[u], t # u PROVE FALSE
      OBVIOUS
    <3>1. t < u \/ u < t
      OBVIOUS
    <3>2. f[t] \in Nat /\ f[u] \in Nat
      BY <1>4
    <3> QED BY <1>5, <3>1, <3>2
  <2> QED BY <1>4, <2>1 DEF Injection, IsInjective
<1>7. IsFiniteSet(1..n) /\ Cardinality(1..n) = n
  BY <1>1, FS_Interval
<1>8. f \in Surjection(S, 1..n)
  BY <1>6, <1>7, FS_Injection DEF n
<1> QED BY <1>1, <1>5, <1>6, <1>8 DEF n, Bijection

\* The elements of a finite set, oldest first.
LEMMA OldestFirst ==
  ASSUME NEW S, S \subseteq Nat, IsFiniteSet(S)
  PROVE  \E s \in [1..Cardinality(S) -> S] : \A i, j \in DOMAIN s : i < j => s[i] < s[j]
<1> DEFINE n == Cardinality(S)
<1>1. n \in Nat
  BY Numbering
<1>2. PICK f \in Bijection(S, 1..n) : \A t, u \in S : t < u => f[t] < f[u]
  BY Numbering
<1>3. /\ f \in [S -> 1..n]
      /\ \A i \in 1..n : \E t \in S : f[t] = i
  BY <1>2 DEF Bijection, Injection, Surjection
<1> DEFINE s == [i \in 1..n |-> CHOOSE t \in S : f[t] = i]
<1>4. \A i \in 1..n : s[i] \in S /\ f[s[i]] = i
  BY <1>3
<1>5. s \in [1..n -> S] /\ DOMAIN s = 1..n
  BY <1>4
<1> HIDE DEF s, n
<1>6. ASSUME NEW i \in 1..n, NEW j \in 1..n, i < j PROVE s[i] < s[j]
  <2>1. s[i] \in Nat /\ s[j] \in Nat
    <3>1. s[i] \in S /\ s[j] \in S
      BY <1>4
    <3> QED BY <3>1
  <2>2. /\ s[i] \in S /\ s[j] \in S /\ f[s[i]] = i /\ f[s[j]] = j
        /\ ~(j < i) /\ i # j
    BY <1>1, <1>4, <1>6
  <2>3. ~(s[j] < s[i]) /\ s[j] # s[i]
    BY <1>2, <2>2
  <2> QED BY <2>1, <2>3
<1> QED BY <1>5, <1>6 DEF n

\* A finite set of numbers that is not empty has a largest element.
LEMMA Largest ==
  ASSUME NEW S, S \subseteq Nat, IsFiniteSet(S), S # {}
  PROVE  \E t \in S : \A u \in S : u <= t
<1> DEFINE n == Cardinality(S)
<1>1. n \in Nat /\ n # 0
  BY Numbering, FS_EmptySet
<1>2. PICK f \in Bijection(S, 1..n) : \A t, u \in S : t < u => f[t] < f[u]
  BY Numbering
<1>3. /\ f \in [S -> 1..n]
      /\ \A i \in 1..n : \E t \in S : f[t] = i
  BY <1>2 DEF Bijection, Injection, Surjection
<1> HIDE DEF n
<1>4. PICK t \in S : f[t] = n
  BY <1>1, <1>3
<1>5. ASSUME NEW u \in S PROVE u <= t
  <2>1. f[u] \in 1..n
    BY <1>3
  <2>2. ~(t < u)
    BY <1>1, <1>2, <1>4, <2>1
  <2> QED BY <2>2
<1> QED BY <1>5

-----------------------------------------------------------------------------
(* The lists a pass works from *)

Deletion == [time : Times, why : {"trimmed", "expired"}]

LEMMA TimesType == Times \subseteq Nat /\ 0 \notin Times /\ IsFiniteSet(Times)
BY BackupScheduleAssumption

\* What Deletions makes of a set of Jobs.
LEMMA DeletionsOf ==
  ASSUME NEW S \in SUBSET Times, NEW R, NEW why,
         \A t \in S : [time |-> t, why |-> why] \in R
  PROVE  Deletions(S, why) \in Seq(R)
<1> DEFINE n == Cardinality(S)
           s == CHOOSE o \in [1..n -> S] : \A i, j \in DOMAIN o : i < j => o[i] < o[j]
           d == [i \in DOMAIN s |-> [time |-> s[i], why |-> why]]
<1>1. S \subseteq Nat /\ IsFiniteSet(S)
  BY TimesType, FS_Subset
<1>2. n \in Nat
  BY <1>1, Numbering
<1>3. s \in [1..n -> S]
  BY <1>1, OldestFirst
<1>4. Deletions(S, why) = d
  BY DEF Deletions
<1> HIDE DEF s, n
<1>5. d \in [1..n -> R]
  BY <1>3
<1> HIDE DEF d
<1>6. d \in Seq(R)
  BY <1>2, <1>5, SeqDef
<1> QED BY <1>4, <1>6

\* Taking the first Job off the list.
LEMMA TodoTail ==
  ASSUME todo \in Seq(Deletion), todo # <<>>
  PROVE  /\ Head(todo) \in Deletion /\ 1 \in DOMAIN todo /\ Head(todo) = todo[1]
         /\ Tail(todo) \in Seq(Deletion)
         /\ \A i \in DOMAIN Tail(todo) : i + 1 \in DOMAIN todo /\ Tail(todo)[i] = todo[i + 1]
BY HeadTailProperties, LenProperties

\* The Jobs a pass will delete are in its listing, and a Job it trims is older
\* than another one there, if the limits keep any.
LEMMA ReconcileTodo ==
  ASSUME TypeOK, Past, Reconcile
  PROVE  /\ todo' \in Seq(Deletion)
         /\ \A i \in DOMAIN todo' :
              /\ Exists(seen.jobs[todo'[i].time])
              /\ 0 \notin spec.failedLimit \cup spec.completeLimit /\ todo'[i].why = "trimmed" =>
                   \E u \in Times : todo'[i].time < u /\ u <= now
<1> DEFINE list == seen.jobs
           Newer(t) == \E u \in Times : t < u /\ u <= now
           Keeps == 0 \notin spec.failedLimit \cup spec.completeLimit
           R == {r \in Deletion : /\ Exists(list[r.time])
                                  /\ Keeps /\ r.why = "trimmed" => Newer(r.time)}
<1>1. \A t \in Times : list[t] # "none" => t <= now
  BY DEF Past
<1>2. spec.failedLimit \subseteq Nat /\ spec.completeLimit \subseteq Nat
  BY BackupScheduleAssumption DEF TypeOK
<1>3. ASSUME NEW phase \in {"failed", "complete"}, NEW limit \in SUBSET Nat,
             limit \subseteq spec.failedLimit \cup spec.completeLimit
      PROVE  Deletions(Excess(Kind(list, phase), limit), "trimmed") \in Seq(R)
  <2> DEFINE K == Kind(list, phase)
  <2>1. K \subseteq Times /\ \A t \in K : Exists(list[t]) /\ t <= now
    BY <1>1, <1>3 DEF Kind, Exists
  <2>2. ASSUME NEW t \in Excess(K, limit), Keeps PROVE Newer(t)
    <3>1. PICK n \in limit : Cardinality({u \in K : u > t}) >= n
      BY DEF Excess
    <3>2. n \in Nat /\ n # 0
      BY <1>3, <2>2
    <3>3. Cardinality({u \in K : u > t}) # 0
      <4> HIDE DEF K
      <4>1. IsFiniteSet({u \in K : u > t})
        <5>1. {u \in K : u > t} \in SUBSET Times
          BY <2>1
        <5> QED BY <5>1, TimesType, FS_Subset
      <4>2. Cardinality({u \in K : u > t}) \in Nat
        BY <4>1, FS_CardinalityType
      <4> QED BY <3>1, <3>2, <4>2
    <3>4. {u \in K : u > t} # {}
      BY <3>3, FS_EmptySet
    <3> QED BY <2>1, <3>4, TimesType
  <2>3. Excess(K, limit) \subseteq K
    BY DEF Excess
  <2>4. \A t \in Excess(K, limit) : [time |-> t, why |-> "trimmed"] \in R
    <3> HIDE DEF K
    <3> QED BY <2>1, <2>2, <2>3 DEF Deletion
  <2> HIDE DEF R
  <2> QED BY <2>1, <2>3, <2>4, DeletionsOf
<1>4. Deletions(Expired(Kind(list, "active")), "expired") \in Seq(R)
  <2> DEFINE K == Expired(Kind(list, "active"))
  <2>1. K \subseteq Times /\ \A t \in K : [time |-> t, why |-> "expired"] \in R
    BY DEF Expired, Kind, Exists, Deletion
  <2> HIDE DEF R, K
  <2>2. Deletions(K, "expired") \in Seq(R)
    BY <2>1, DeletionsOf
  <2> QED BY <2>2 DEF K
<1>5. todo' \in Seq(R)
  <2> HIDE DEF R
  <2>1. Deletions(Excess(Kind(list, "failed"), spec.failedLimit), "trimmed") \in Seq(R)
    BY <1>2, <1>3
  <2>2. Deletions(Excess(Kind(list, "complete"), spec.completeLimit), "trimmed") \in Seq(R)
    BY <1>2, <1>3
  <2> QED BY <1>4, <2>1, <2>2, ConcatProperties DEF Reconcile
<1>6. todo' \in Seq(Deletion)
  <2>1. R \subseteq Deletion
    OBVIOUS
  <2> HIDE DEF R
  <2> QED BY <1>5, <2>1, SeqMonotonic
<1>7. \A i \in DOMAIN todo' : todo'[i] \in R
  <2> HIDE DEF R
  <2> QED BY <1>5, LenProperties
<1> QED BY <1>6, <1>7

\* The latest run a listing shows is one of the instants, or none.
LEMMA MostRecentType ==
  ASSUME NEW list
  PROVE  MostRecent(list) \in Times \cup {0}
<1> DEFINE E == {t \in Times : Exists(list[t])}
           Is(t) == /\ t # 0 => Exists(list[t])
                    /\ \A u \in Times : Exists(list[u]) => u <= t
<1>1. \E t \in Times \cup {0} : Is(t)
  <2>1. CASE E = {}
    <3>1. Is(0)
      BY <2>1
    <3> QED BY <3>1
  <2>2. CASE E # {}
    <3>1. E \subseteq Nat /\ IsFiniteSet(E)
      BY TimesType, FS_Subset
    <3>2. \E t \in E : \A u \in E : u <= t
      <4> HIDE DEF E
      <4> QED BY <2>2, <3>1, Largest
    <3> QED BY <3>2
  <2> QED BY <2>1, <2>2
<1> QED BY <1>1 DEF MostRecent

\* A pass starts the latest instant that has passed, or nothing.
LEMMA DueIsLatest ==
  ASSUME TypeOK, NEW t \in Missed, \A u \in Missed : u <= t
  PROVE  IsLatest(t)
<1>1. t \in Times /\ t <= now /\ recent < t /\ \A d \in spec.deadline : now - d < t
  BY DEF Missed
<1>2. ASSUME NEW u \in Times, u <= now PROVE u <= t
  <2>1. t \in Nat /\ u \in Nat /\ recent \in Nat /\ now \in Nat /\ spec.deadline \subseteq Nat
    BY <1>1, TimesType, BackupScheduleAssumption DEF TypeOK
  <2>2. CASE t < u
    <3>1. u \in Missed
      BY <1>1, <1>2, <2>1, <2>2 DEF Missed
    <3> QED BY <3>1
  <2> QED BY <2>1, <2>2
<1> QED BY <1>1, <1>2 DEF IsLatest

-----------------------------------------------------------------------------
(* The invariant at the beginning, and over steps that touch little *)

\* No Jobs, no claims, no pass.
LEMMA InitInv == Init => Inv
<1> SUFFICES ASSUME Init PROVE Inv
  OBVIOUS
<1> USE BackupScheduleAssumption DEF Init
<1>1. TypeOK
  <2>1. todo \in Seq([time : Times, why : {"trimmed", "expired"}])
    BY EmptySeq
  <2>2. jobs \in [Times -> Phases]
    BY DEF Phases
  <2>3. seen \in [jobs : [Times -> Phases], claims : SUBSET Times]
    BY <2>2
  <2>4. claims \in SUBSET Times /\ pc = "idle" /\ due = 0
    OBVIOUS
  <2>5. /\ suspended \in BOOLEAN /\ suspends \in 0..MaxSuspends /\ now \in 0..MaxTime
        /\ bootstrapped \in BOOLEAN /\ recent \in Times \cup {0} /\ busy \in BOOLEAN
        /\ last \in Times \cup {0} /\ trouble \in 0..MaxTrouble
    <3>1. MaxSuspends \in Nat /\ MaxTime \in Nat /\ MaxTrouble \in Nat
      OBVIOUS
    <3>2. suspends = 0 /\ now = 0 /\ trouble = 0
      OBVIOUS
    <3>3. suspends \in 0..MaxSuspends /\ now \in 0..MaxTime /\ trouble \in 0..MaxTrouble
      <4> USE ONLY <3>1, <3>2
      <4> QED OBVIOUS
    <3>4. suspended = FALSE /\ bootstrapped = FALSE /\ busy = FALSE /\ recent = 0 /\ last = 0
      OBVIOUS
    <3> QED BY <3>3, <3>4
  <2>6. spec \in Specs
    OBVIOUS
  <2> USE ONLY <2>1, <2>2, <2>3, <2>4, <2>5, <2>6
  <2> QED BY DEF TypeOK
<1>2. Past /\ Running
  BY DEF Past, Running, IsLatest
<1>3. Claimed
  <2>1. todo = <<>> /\ Existing = {} /\ claims = {} /\ pc = "idle"
    BY DEF Existing, Exists
  <2>2. \A t \in Times : ~Exists(seen.jobs[t])
    BY DEF Exists
  <2> USE ONLY <2>1, <2>2
  <2> QED BY DEF Claimed
<1>4. Trimming
  BY DEF Trimming
<1> QED BY <1>1, <1>2, <1>3, <1>4 DEF Inv

\* The user, the shard's first backup, and the end of the world.
LEMMA UnrelatedKeeps ==
  ASSUME Inv, TypeOK', UNCHANGED <<spec, now, jobs, claims, seen, pass, trouble>>
  PROVE  Inv'
<1> USE DEF Inv, pass
<1>1. Past' /\ Running'
  BY DEF Past, Running, IsLatest
<1>2. Claimed'
  BY DEF Claimed, Existing
<1>3. Trimming'
  BY DEF Trimming
<1> QED BY <1>1, <1>2, <1>3

\* A pass that is over leaves the Jobs to the next, and the claims as they are
\* between the runs of a pass, unless something failed.
LEMMA PassEnds ==
  ASSUME Inv, EndPass, UNCHANGED <<spec, user, now, bootstrapped, jobs, claims, seen>>,
         last' \in Times \cup {0}, trouble' \in 0..MaxTrouble,
         \/ trouble' = trouble /\ pc \notin {"claim", "createJob"}
         \/ trouble' = trouble /\ pc = "createJob" /\ Exists(jobs[due])
         \/ trouble' = trouble + 1
  PROVE  Inv'
<1> USE BackupScheduleAssumption DEF Inv, EndPass, user
<1>1. TypeOK'
  <2>1. todo' \in Seq(Deletion)
    BY EmptySeq
  <2> QED BY <2>1 DEF TypeOK, Deletion
<1>2. Past' /\ Running'
  BY DEF Past, Running, IsLatest
<1>3. Claimed'
  <2>1. CASE trouble' = trouble + 1
    <3>1. trouble' # 0
      BY <2>1 DEF TypeOK
    <3> QED BY <3>1 DEF Claimed
  <2>2. CASE trouble' = trouble /\ pc \notin {"claim", "createJob"}
    BY <2>2 DEF Claimed, Existing
  <2>3. CASE trouble' = trouble /\ pc = "createJob" /\ Exists(jobs[due])
    <3>1. due \in Times
      BY <2>3 DEF TypeOK
    <3>2. Existing \cup {due} = Existing
      BY <2>3, <3>1 DEF Existing
    <3> QED BY <2>3, <3>2 DEF Claimed, Existing
  <2> QED BY <2>1, <2>2, <2>3
<1>4. Trimming'
  BY DEF Trimming
<1> QED BY <1>1, <1>2, <1>3, <1>4

\* All the ways a pass comes to its end.
LEMMA EndsKeep ==
  ASSUME Inv,
         \/ NoRun \/ UpdateStatus \/ PassBreaks \/ CreateClaimFails \/ CreateJobFails
         \/ CreateClaim /\ EndPass /\ UNCHANGED claims
         \/ CreateJob /\ EndPass /\ UNCHANGED jobs /\ Exists(jobs[due])
  PROVE  Inv'
<1> USE BackupScheduleAssumption
<1>1. EndPass /\ UNCHANGED <<spec, user, now, bootstrapped, jobs, claims, seen>>
  BY DEF NoRun, UpdateStatus, PassBreaks, CreateClaimFails, CreateJobFails, CreateClaim, CreateJob
<1>2. last' \in Times \cup {0}
  BY DEF NoRun, UpdateStatus, PassBreaks, CreateClaimFails, CreateJobFails, CreateClaim, CreateJob,
     Inv, TypeOK
<1>3. trouble' \in 0..MaxTrouble
  BY DEF NoRun, UpdateStatus, PassBreaks, CreateClaimFails, CreateJobFails, CreateClaim, CreateJob,
     Inv, TypeOK, Fail
<1>4. \/ trouble' = trouble /\ pc \notin {"claim", "createJob"}
      \/ trouble' = trouble /\ pc = "createJob" /\ Exists(jobs[due])
      \/ trouble' = trouble + 1
  BY DEF NoRun, UpdateStatus, PassBreaks, CreateClaimFails, CreateJobFails, CreateClaim, CreateJob,
     Fail
<1> QED BY <1>1, <1>2, <1>3, <1>4, PassEnds

-----------------------------------------------------------------------------
(* The steps of a pass *)

\* A listing of the cache: what it misses is the latest run at most.
LEMMA ReconcileKeeps ==
  ASSUME Inv, Reconcile
  PROVE  Inv'
<1> USE BackupScheduleAssumption DEF Inv
<1>1. /\ pc = "idle" /\ pc' = "job" /\ recent' = MostRecent(seen.jobs) /\ busy' = Busy(seen.jobs)
      /\ UNCHANGED <<spec, user, now, bootstrapped, jobs, claims, seen, due, last, trouble>>
  BY DEF Reconcile
<1>2. /\ todo' \in Seq(Deletion)
      /\ \A i \in DOMAIN todo' :
           /\ Exists(seen.jobs[todo'[i].time])
           /\ 0 \notin spec.failedLimit \cup spec.completeLimit /\ todo'[i].why = "trimmed" =>
                \E u \in Times : todo'[i].time < u /\ u <= now
  BY ReconcileTodo
<1>3. \A i \in DOMAIN todo' : todo'[i] \in Deletion
  BY <1>2, LenProperties
<1>4. due = 0
  BY <1>1 DEF TypeOK
<1>5. TypeOK'
  <2>1. recent' \in Times \cup {0} /\ busy' \in BOOLEAN
    BY <1>1, MostRecentType DEF Busy
  <2> QED BY <1>1, <1>2, <2>1 DEF TypeOK, Deletion, user
<1>6. Past'
  BY <1>1, <1>4 DEF Past, IsLatest
<1>7. Running'
  <2>1. ~busy' => \A t \in Times : seen.jobs[t] # "active"
    BY <1>1 DEF Busy, Kind
  <2> QED BY <1>1, <1>4, <2>1 DEF Running, IsLatest
<1>8. Claimed'
  <2>1. \A i \in DOMAIN todo' : todo'[i].time \in Times
    BY <1>3 DEF Deletion
  <2> QED BY <1>1, <1>2, <2>1 DEF Claimed, Existing
<1>9. Trimming'
  BY <1>1, <1>2 DEF Trimming
<1> QED BY <1>5, <1>6, <1>7, <1>8, <1>9

\* A Job on the list is deleted, or that fails.
LEMMA DeleteJobKeeps ==
  ASSUME Inv, DeleteJob \/ DeleteJobFails
  PROVE  Inv'
<1> USE BackupScheduleAssumption DEF Inv
<1> DEFINE x == Head(todo).time
           why == Head(todo).why
<1>1. /\ pc = "job" /\ todo # <<>> /\ pc' = "claim"
      /\ UNCHANGED <<spec, user, now, bootstrapped, claims, seen, todo, recent, busy, due, last>>
      /\ \/ trouble' = trouble
         \/ trouble' = trouble + 1 /\ trouble < MaxTrouble /\ jobs' = jobs
      /\ \/ jobs' = jobs /\ (trouble' = trouble => ~Exists(jobs[x]))
         \/ Exists(jobs[x]) /\ jobs' = [jobs EXCEPT ![x] = why]
  BY DEF DeleteJob, DeleteJobFails, Fail, TypeOK
<1>2. /\ Head(todo) \in Deletion /\ 1 \in DOMAIN todo /\ Head(todo) = todo[1]
      /\ x \in Times /\ why \in {"trimmed", "expired"} /\ due = 0
  <2>1. todo \in Seq(Deletion)
    BY DEF TypeOK, Deletion
  <2> QED BY <1>1, <2>1, TodoTail DEF Deletion, TypeOK
<1>3. /\ jobs' \in [Times -> Phases]
      /\ \A t \in Times \ {x} : jobs'[t] = jobs[t]
      /\ \/ jobs'[x] = jobs[x] /\ (trouble' = trouble => ~Exists(jobs[x]))
         \/ Exists(jobs[x]) /\ jobs'[x] = why
  <2>1. jobs \in [Times -> Phases] /\ why \in Phases
    BY <1>2 DEF TypeOK, Phases
  <2> HIDE DEF x, why, Inv
  <2>2. CASE jobs' = jobs /\ (trouble' = trouble => ~Exists(jobs[x]))
    BY <2>1, <2>2
  <2>3. CASE Exists(jobs[x]) /\ jobs' = [jobs EXCEPT ![x] = why]
    BY <1>2, <2>1, <2>3
  <2> QED BY <1>1, <2>2, <2>3
<1>4. \A t \in Times : \/ jobs'[t] = jobs[t]
                       \/ t = x /\ jobs'[t] = why /\ Exists(jobs[x])
  BY <1>3
<1> HIDE DEF x, why
<1>5. TypeOK'
  BY <1>1, <1>2, <1>3 DEF TypeOK, user
<1>6. Past'
  BY <1>1, <1>2, <1>4 DEF Past, Exists, IsLatest
<1>7. Running'
  BY <1>1, <1>2, <1>4 DEF Running, IsLatest
<1>8. Claimed'
  <2>1. CASE trouble' = trouble
    <3>1. Existing' = Existing \ {x}
      BY <1>2, <1>3, <2>1 DEF Existing, Exists
    <3>2. trouble = 0 /\ spec.method = "vtbackup" => claims = Existing
      BY <1>1 DEF Claimed
    <3>3. trouble = 0 /\ spec.method = "vtbackup" =>
            claims' \ {Head(todo').time} = Existing'
      BY <1>1, <3>1, <3>2 DEF x
    <3> QED BY <1>1, <2>1, <3>3 DEF Claimed
  <2>2. CASE trouble' = trouble + 1
    BY <2>2 DEF Claimed, TypeOK
  <2> QED BY <1>1, <2>1, <2>2
<1>9. Trimming'
  <2>1. 0 \notin spec.failedLimit \cup spec.completeLimit /\ why = "trimmed" =>
          \E u \in Times : x < u /\ u <= now
    BY <1>2 DEF Trimming, x, why
  <2> QED BY <1>1, <1>4, <2>1 DEF Trimming
<1> QED BY <1>5, <1>6, <1>7, <1>8, <1>9

\* Its claim is deleted, unless the cache does not show it; then there is none.
LEMMA DeleteClaimKeeps ==
  ASSUME Inv, DeleteClaim \/ DeleteClaimFails
  PROVE  Inv'
<1> USE BackupScheduleAssumption DEF Inv
<1> DEFINE x == Head(todo).time
<1>1. /\ pc = "claim" /\ todo # <<>> /\ pc' = "job" /\ todo' = Tail(todo)
      /\ UNCHANGED <<spec, user, now, bootstrapped, jobs, seen, recent, busy, due, last>>
      /\ \/ /\ trouble' = trouble
            /\ claims' = IF spec.method = "vtbackup" /\ x \in seen.claims THEN claims \ {x} ELSE claims
         \/ trouble' = trouble + 1 /\ trouble < MaxTrouble /\ claims' = claims
  BY DEF DeleteClaim, DeleteClaimFails, Fail, TypeOK
<1>2. /\ Head(todo) \in Deletion /\ 1 \in DOMAIN todo /\ Head(todo) = todo[1]
      /\ Tail(todo) \in Seq(Deletion)
      /\ \A i \in DOMAIN Tail(todo) : i + 1 \in DOMAIN todo /\ Tail(todo)[i] = todo[i + 1]
  <2>1. todo \in Seq(Deletion)
    BY DEF TypeOK, Deletion
  <2> QED BY <1>1, <2>1, TodoTail
<1>3. due = 0
  BY <1>1 DEF TypeOK
<1>4. \A i \in DOMAIN todo' : \E j \in DOMAIN todo : todo'[i] = todo[j]
  BY <1>1, <1>2
<1>5. TypeOK'
  <2>1. claims' \in SUBSET Times /\ trouble' \in 0..MaxTrouble
    <3>1. claims \in SUBSET Times /\ trouble \in 0..MaxTrouble
      BY DEF TypeOK
    <3>2. claims' = claims \/ claims' = claims \ {x}
      BY <1>1
    <3>3. trouble' = trouble \/ (trouble' = trouble + 1 /\ trouble < MaxTrouble)
      BY <1>1
    <3>4. MaxTrouble \in Nat
      OBVIOUS
    <3> HIDE DEF x
    <3> USE ONLY <3>1, <3>2, <3>3, <3>4
    <3>5. claims' \in SUBSET Times
      OBVIOUS
    <3>6. trouble' \in 0..MaxTrouble
      OBVIOUS
    <3> QED BY <3>5, <3>6
  <2>2. todo' \in Seq([time : Times, why : {"trimmed", "expired"}])
    BY <1>1, <1>2 DEF Deletion
  <2> QED BY <1>1, <2>1, <2>2 DEF TypeOK, user
<1>6. Past' /\ Running'
  BY <1>1, <1>3 DEF Past, Running, IsLatest
<1>7. Claimed'
  <2>1. CASE trouble' = trouble
    <3>1. trouble = 0 /\ spec.method = "vtbackup" =>
            /\ claims \ {x} = Existing
            /\ x \in claims => x \in seen.claims
      BY <1>1, <1>2 DEF Claimed
    <3>2. trouble = 0 /\ spec.method = "vtbackup" => claims' = Existing'
      BY <1>1, <2>1, <3>1 DEF Existing
    <3>3. claims' \subseteq claims
      BY <1>1
    <3> HIDE DEF x
    <3> QED BY <1>1, <1>4, <2>1, <3>2, <3>3 DEF Claimed
  <2>2. CASE trouble' = trouble + 1
    BY <2>2 DEF Claimed, TypeOK
  <2> QED BY <1>1, <2>1, <2>2
<1>8. Trimming'
  BY <1>1, <1>4 DEF Trimming
<1> QED BY <1>5, <1>6, <1>7, <1>8

\* The latest run that was missed is about to be started.
LEMMA StartRunKeeps ==
  ASSUME Inv, StartRun
  PROVE  Inv'
<1> USE BackupScheduleAssumption DEF Inv
<1>1. /\ pc = "job" /\ todo = <<>> /\ ~Forbidden
      /\ due' \in Missed /\ \A u \in Missed : u <= due'
      /\ pc' = IF spec.method = "vtbackup" THEN "createClaim" ELSE "createJob"
      /\ UNCHANGED <<spec, user, now, bootstrapped, jobs, claims, seen, todo, recent, busy, last, trouble>>
  BY DEF StartRun
<1>2. IsLatest(due')
  BY <1>1, DueIsLatest
<1>3. due' \in Times /\ due' # 0
  BY <1>2, TimesType DEF IsLatest
<1>4. TypeOK'
  BY <1>1, <1>3 DEF TypeOK, user
<1>5. Past'
  BY <1>1, <1>2 DEF Past, IsLatest
<1>6. Running'
  BY <1>1 DEF Running, IsLatest, Forbidden
<1>7. Claimed'
  BY <1>1 DEF Claimed, Existing
<1>8. Trimming'
  BY <1>1 DEF Trimming
<1> QED BY <1>4, <1>5, <1>6, <1>7, <1>8

\* The claim for the run; it is there before its Job is.
LEMMA CreateClaimKeeps ==
  ASSUME Inv, CreateClaim, ~(EndPass /\ UNCHANGED claims)
  PROVE  Inv'
<1> USE BackupScheduleAssumption DEF Inv
<1>1. /\ pc = "createClaim" /\ claims' = claims \cup {due} /\ pc' = "createJob"
      /\ UNCHANGED <<spec, user, now, bootstrapped, jobs, seen, todo, recent, busy, due, last, trouble>>
      /\ due \notin seen.claims
  BY DEF CreateClaim
<1>2. due \in Times /\ spec.method = "vtbackup"
  BY <1>1 DEF TypeOK, Past
<1>3. TypeOK'
  BY <1>1, <1>2 DEF TypeOK, user
<1>4. Past' /\ Running'
  BY <1>1 DEF Past, Running, IsLatest
<1>5. Claimed'
  <2>1. todo' = <<>>
    BY <1>1 DEF Past
  <2>2. trouble = 0 => /\ claims = Existing
                       /\ \A t \in Times : Exists(seen.jobs[t]) => t \in seen.claims
    BY <1>1, <1>2 DEF Claimed
  <2>3. Existing' = Existing
    BY <1>1 DEF Existing
  <2>4. DOMAIN todo' = {}
    BY <2>1
  <2> HIDE DEF Inv
  <2> QED BY <1>1, <1>2, <2>2, <2>3, <2>4 DEF Claimed
<1>6. Trimming'
  BY <1>1 DEF Trimming
<1> QED BY <1>3, <1>4, <1>5, <1>6

\* The Job of the latest run, which no earlier pass has created.
LEMMA CreateJobKeeps ==
  ASSUME Inv, CreateJob, ~(EndPass /\ UNCHANGED jobs)
  PROVE  Inv'
<1> USE BackupScheduleAssumption DEF Inv
<1>1. /\ pc = "createJob" /\ ~Exists(jobs[due]) /\ jobs' = [jobs EXCEPT ![due] = "active"]
      /\ pc' = "status"
      /\ UNCHANGED <<spec, user, now, bootstrapped, claims, seen, todo, recent, busy, due, last, trouble>>
  BY DEF CreateJob
<1>2. due \in Times /\ due # 0 /\ IsLatest(due) /\ todo = <<>>
  BY <1>1 DEF TypeOK, Past
<1>3. /\ jobs' \in [Times -> Phases] /\ jobs'[due] = "active"
      /\ \A t \in Times \ {due} : jobs'[t] = jobs[t]
  <2>1. jobs \in [Times -> Phases] /\ "active" \in Phases
    BY DEF TypeOK, Phases
  <2> HIDE DEF Inv
  <2> QED BY <1>1, <1>2, <2>1
<1>4. TypeOK'
  BY <1>1, <1>3 DEF TypeOK, user
<1>5. Past'
  BY <1>1, <1>2, <1>3 DEF Past, IsLatest
<1>6. Running'
  <2>1. \A t \in Times : t # due /\ jobs'[t] = "active" /\ seen'.jobs[t] # "active" => IsLatest(t)
    BY <1>1, <1>3 DEF Running
  <2>2. ~busy => \A t \in Times : jobs'[t] = "active" => IsLatest(t)
    BY <1>1, <1>2, <1>3 DEF Running
  <2>3. ASSUME NEW t \in Times, spec.policy = "Forbid", jobs'[t] = "active" PROVE t = due
    <3>1. ~busy
      BY <1>2, <2>3 DEF Running
    <3>2. IsLatest(t)
      BY <2>2, <2>3, <3>1
    <3>3. t <= due /\ due <= t /\ t \in Nat /\ due \in Nat
      BY <1>2, <3>2, TimesType DEF IsLatest
    <3> QED BY <3>3
  <2>4. \A t : IsLatest(t)' <=> IsLatest(t)
    BY <1>1 DEF IsLatest
  <2>5. spec.policy = "Forbid" => ~busy
    BY <1>2 DEF Running
  <2> HIDE DEF Inv
  <2> QED BY <1>1, <1>2, <2>1, <2>2, <2>3, <2>4, <2>5 DEF Running
<1>7. Claimed'
  <2>1. trouble = 0 =>
          IF spec.method = "vtbackup"
          THEN /\ claims = Existing \cup {due}
               /\ \A t \in Times : Exists(seen.jobs[t]) => t \in seen.claims
          ELSE claims = {}
    BY <1>1 DEF Claimed
  <2>2. Existing' = Existing \cup {due}
    BY <1>2, <1>3 DEF Existing, Exists
  <2>3. DOMAIN todo' = {}
    BY <1>1, <1>2
  <2> HIDE DEF Inv
  <2> QED BY <1>1, <2>1, <2>2, <2>3 DEF Claimed
<1>8. Trimming'
  <2>1. DOMAIN todo' = {}
    BY <1>1, <1>2
  <2> QED BY <1>1, <1>3, <2>1 DEF Trimming
<1> QED BY <1>4, <1>5, <1>6, <1>7, <1>8

-----------------------------------------------------------------------------
(* The world *)

\* The clock advances over an idle controller whose caches are fresh.
LEMMA TickKeeps ==
  ASSUME Inv, Tick
  PROVE  Inv'
<1> USE BackupScheduleAssumption DEF Inv
<1>1. /\ pc = "idle" /\ seen.jobs = jobs /\ now' = now + 1 /\ now < MaxTime
      /\ UNCHANGED <<spec, user, bootstrapped, jobs, claims, seen, last, trouble>>
      /\ UNCHANGED <<pc, todo, recent, busy, due>>
  BY DEF Tick, pass
<1>2. due = 0 /\ now \in Nat /\ todo = <<>> /\ now' \in 0..MaxTime
  BY <1>1 DEF TypeOK, Past
<1>3. TypeOK'
  BY <1>1, <1>2 DEF TypeOK, user
<1>4. Past'
  <2>1. \A t \in Times : t <= now => t <= now'
    BY <1>1, <1>2, TimesType
  <2> QED BY <1>1, <1>2, <2>1 DEF Past
<1>5. Running'
  BY <1>1, <1>2 DEF Running
<1>6. Claimed'
  BY <1>1 DEF Claimed, Existing
<1>7. Trimming'
  <2>1. \A u \in Times : u <= now => u <= now'
    BY <1>1, <1>2, TimesType
  <2>2. DOMAIN todo' = {}
    BY <1>1, <1>2
  <2> QED BY <1>1, <2>1, <2>2 DEF Trimming
<1> QED BY <1>3, <1>4, <1>5, <1>6, <1>7

\* The caches catch up: every Job they show has its claim there too.
LEMMA DeliverKeeps ==
  ASSUME Inv, Deliver
  PROVE  Inv'
<1> USE DEF Inv
<1>1. /\ seen' = [jobs |-> jobs, claims |-> claims]
      /\ UNCHANGED <<spec, user, now, bootstrapped, jobs, claims, last, trouble>>
      /\ UNCHANGED <<pc, todo, recent, busy, due>>
  BY DEF Deliver, pass
<1>2. seen'.jobs = jobs' /\ seen'.claims = claims'
  BY <1>1
<1>3. TypeOK'
  <2>1. seen' \in [jobs : [Times -> Phases], claims : SUBSET Times]
    BY <1>1 DEF TypeOK
  <2> QED BY <1>1, <2>1 DEF TypeOK, user
<1>4. Past'
  BY <1>1, <1>2 DEF Past, IsLatest
<1>5. Running'
  BY <1>1, <1>2 DEF Running, IsLatest
<1>6. Claimed'
  <2>1. trouble = 0 /\ spec.method = "vtbackup" => \A t \in Times : Exists(jobs[t]) => t \in claims
    BY DEF Claimed, Existing
  <2>2. Existing' = Existing
    BY <1>1 DEF Existing
  <2>3. \A i \in DOMAIN todo' : todo'[i].time \in claims' => todo'[i].time \in seen'.claims
    BY <1>2
  <2>4. trouble = 0 =>
          IF spec.method = "vtbackup"
          THEN /\ pc \notin {"claim", "createJob"} => claims = Existing
               /\ pc = "claim" => claims \ {Head(todo).time} = Existing
               /\ pc = "createJob" => claims = Existing \cup {due}
          ELSE claims = {}
    BY DEF Claimed
  <2> HIDE DEF Inv
  <2> QED BY <1>1, <1>2, <2>1, <2>2, <2>3, <2>4 DEF Claimed
<1>7. Trimming'
  BY <1>1 DEF Trimming
<1> QED BY <1>3, <1>4, <1>5, <1>6, <1>7

\* A backup ends.
LEMMA JobEndsKeeps ==
  ASSUME Inv, NEW x \in Times, JobEnds(x)
  PROVE  Inv'
<1> USE DEF Inv
<1>1. PICK outcome \in {"complete", "failed"} : jobs' = [jobs EXCEPT ![x] = outcome]
  BY DEF JobEnds
<1>2. /\ jobs[x] = "active" /\ seen.jobs = jobs
      /\ UNCHANGED <<spec, user, now, bootstrapped, claims, seen, last, trouble>>
      /\ UNCHANGED <<pc, todo, recent, busy, due>>
  BY DEF JobEnds, pass
<1>3. /\ jobs' \in [Times -> Phases] /\ jobs'[x] = outcome
      /\ \A t \in Times \ {x} : jobs'[t] = jobs[t]
  <2>1. jobs \in [Times -> Phases] /\ outcome \in Phases
    BY DEF TypeOK, Phases
  <2> HIDE DEF Inv
  <2> QED BY <1>1, <2>1
<1>4. TypeOK'
  BY <1>2, <1>3 DEF TypeOK, user
<1>5. Past'
  BY <1>2, <1>3 DEF Past, IsLatest
<1>6. \A t \in Times : jobs'[t] = "active" => jobs[t] = "active"
  BY <1>2, <1>3
<1>7. Running'
  BY <1>2, <1>6 DEF Running, IsLatest
<1>8. Claimed'
  <2>1. Existing' = Existing
    BY <1>2, <1>3 DEF Existing, Exists
  <2> QED BY <1>2, <2>1 DEF Claimed
<1>9. Trimming'
  BY <1>2, <1>3 DEF Trimming
<1> QED BY <1>4, <1>5, <1>7, <1>8, <1>9

\* A first backup, and a user who suspends and resumes.
LEMMA SwitchesKeep ==
  ASSUME Inv, Bootstrap \/ Suspend \/ Resume
  PROVE  Inv'
<1>1. UNCHANGED <<spec, now, jobs, claims, seen, pass, last, trouble>>
  BY DEF Bootstrap, Suspend, Resume
<1>2. bootstrapped' \in BOOLEAN /\ suspended' \in BOOLEAN /\ suspends' \in 0..MaxSuspends
  <2>1. /\ bootstrapped \in BOOLEAN /\ suspended \in BOOLEAN /\ suspends \in 0..MaxSuspends
        /\ MaxSuspends \in Nat
    BY BackupScheduleAssumption DEF Inv, TypeOK
  <2>2. CASE Bootstrap
    BY <2>1, <2>2 DEF Bootstrap, user
  <2>3. CASE Suspend
    <3>1. suspends' = suspends + 1 /\ suspends < MaxSuspends
      BY <2>3 DEF Suspend
    <3>2. suspends' \in 0..MaxSuspends
      BY <2>1, <3>1
    <3> QED BY <2>1, <2>3, <3>2 DEF Suspend
  <2>4. CASE Resume
    BY <2>1, <2>4 DEF Resume
  <2> QED BY <2>2, <2>3, <2>4
<1>3. TypeOK'
  BY <1>1, <1>2 DEF Inv, TypeOK, pass
<1> QED BY <1>1, <1>3, UnrelatedKeeps

LEMMA InvStep == Inv /\ [Next]_vars => Inv'
<1> SUFFICES ASSUME Inv, [Next]_vars PROVE Inv'
  OBVIOUS
<1>1. CASE Work
  <2>1. CASE CreateClaim
    BY <2>1, EndsKeep, CreateClaimKeeps
  <2>2. CASE CreateJob
    <3>1. EndPass /\ UNCHANGED jobs => Exists(jobs[due])
      <4>1. CASE Exists(jobs[due])
        BY <4>1
      <4>2. CASE ~Exists(jobs[due])
        BY <2>2, <4>2 DEF CreateJob, EndPass
      <4> QED BY <4>1, <4>2
    <3> QED BY <2>2, <3>1, EndsKeep, CreateJobKeeps
  <2>3. CASE NoRun \/ UpdateStatus
    BY <2>3, EndsKeep
  <2> QED BY <1>1, <2>1, <2>2, <2>3, ReconcileKeeps, DeleteJobKeeps, DeleteClaimKeeps,
             StartRunKeeps DEF Work
<1>2. CASE Trouble
  BY <1>2, DeleteJobKeeps, DeleteClaimKeeps, EndsKeep DEF Trouble
<1>3. CASE World
  BY <1>3, TickKeeps, DeliverKeeps, JobEndsKeeps, SwitchesKeep DEF World
<1>4. CASE Suspend \/ Resume
  BY <1>4, SwitchesKeep
<1>5. CASE UNCHANGED vars
  <2>1. TypeOK'
    BY <1>5 DEF vars, user, pass, Inv, TypeOK
  <2> QED BY <1>5, <2>1, UnrelatedKeeps DEF vars
<1> QED BY <1>1, <1>2, <1>3, <1>4, <1>5 DEF Next

LEMMA Invariant == Spec => []Inv
BY InitInv, InvStep, PTL DEF Spec

-----------------------------------------------------------------------------
(* What follows from it *)

\* What a pass remembers fits where it is: nothing is deleted from an empty
\* list, and the zero time of getNextSchedule is never started.
THEOREM BackupTypes == Spec => []TypeOK
<1>1. Inv => TypeOK
  BY DEF Inv
<1> QED BY <1>1, Invariant, PTL

\* Under the policy Forbid one backup of the shard runs at a time, however far
\* behind the caches are that the controller counts active Jobs in.
THEOREM BackupsRunOneAtATime == Spec => []OneAtATime
<1>1. Inv => OneAtATime
  <2> SUFFICES ASSUME Inv, spec.policy = "Forbid" PROVE Cardinality(Kind(jobs, "active")) <= 1
    BY DEF OneAtATime
  <2>1. CASE Kind(jobs, "active") = {}
    BY <2>1, FS_EmptySet
  <2>2. CASE Kind(jobs, "active") # {}
    <3>1. PICK t \in Kind(jobs, "active") : TRUE
      BY <2>2
    <3>2. Kind(jobs, "active") = {t}
      BY <3>1 DEF Inv, Running, Kind
    <3>3. Cardinality({t}) = 1
      BY FS_Singleton
    <3> QED BY <3>2, <3>3
  <2> QED BY <2>1, <2>2
<1> QED BY <1>1, Invariant, PTL

\* Between passes every vtbackup Job has its volume claim and every claim its
\* Job, as long as no call of the API server has failed.
THEOREM ClaimsGoWithJobs == Spec => []ClaimsMatchJobs
<1>1. Inv => ClaimsMatchJobs
  BY DEF Inv, Claimed, ClaimsMatchJobs, Existing
<1> QED BY <1>1, Invariant, PTL

\* A run whose Job cleanupJobsWithLimit has trimmed is not started again unless
\* a limit is 0: by then a later instant has passed, and only the latest is.
THEOREM TrimmedRunsStayDone == Spec => RunsOnce
<1> DEFINE Once == \A t \in Times : jobs[t] = "trimmed" /\ jobs'[t] = "active" =>
                     0 \in spec.failedLimit \cup spec.completeLimit
<1>1. ASSUME Inv, Next, NEW t \in Times, jobs[t] = "trimmed", jobs'[t] = "active"
      PROVE  0 \in spec.failedLimit \cup spec.completeLimit
  <2>1. jobs' # jobs
    BY <1>1
  <2>2. CreateJob \/ DeleteJob \/ \E u \in Times : JobEnds(u)
    BY <1>1, <2>1 DEF Next, Work, Trouble, World, Reconcile, DeleteClaim, NoRun, StartRun, CreateClaim,
       UpdateStatus, DeleteJobFails, DeleteClaimFails, CreateClaimFails, CreateJobFails,
       PassBreaks, Tick, Deliver, Bootstrap, Suspend, Resume
  <2>3. jobs \in [Times -> Phases]
    BY <1>1 DEF Inv, TypeOK
  <2>4. CASE DeleteJob
    <3>1. Head(todo) \in Deletion
      <4>1. todo \in Seq(Deletion) /\ todo # <<>>
        BY <1>1, <2>4 DEF Inv, TypeOK, Deletion, DeleteJob
      <4> QED BY <4>1, TodoTail
    <3>2. Head(todo).why # "active"
      BY <3>1 DEF Deletion
    <3> QED BY <1>1, <2>3, <2>4, <3>2 DEF DeleteJob
  <2>5. CASE \E u \in Times : JobEnds(u)
    BY <1>1, <2>3, <2>5 DEF JobEnds
  <2>6. CASE CreateJob
    <3>1. t = due
      BY <1>1, <2>1, <2>3, <2>6 DEF CreateJob
    <3>2. IsLatest(t)
      BY <1>1, <3>1, TimesType DEF Inv, Past
    <3>3. 0 \notin spec.failedLimit \cup spec.completeLimit => \E u \in Times : t < u /\ u <= now
      BY <1>1 DEF Inv, Trimming
    <3>4. ASSUME NEW u \in Times, t < u, u <= now PROVE FALSE
      <4>1. u <= t /\ u \in Nat /\ t \in Nat
        BY <3>2, <3>4, TimesType DEF IsLatest
      <4> QED BY <3>4, <4>1
    <3> QED BY <3>3, <3>4
  <2> QED BY <2>2, <2>4, <2>5, <2>6
<1>2. Inv /\ [Next]_vars => [Once]_vars
  BY <1>1
<1> QED BY <1>2, Invariant, PTL DEF Spec, RunsOnce
===============================================================================
