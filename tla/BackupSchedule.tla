---------------------------- MODULE BackupSchedule ----------------------------
(***************************************************************************)
(* The VitessBackupSchedule controller for one shard of one schedule       *)
(* (vitessbackupschedule/vitessbackupschedule_controller.go) against the   *)
(* clock, the Job controller and the API server.                           *)
(*                                                                         *)
(* Time advances in ticks that stand for what passes between two resyncs.  *)
(* Passes and watch events take seconds and a cron schedule has minutes:   *)
(* the clock is taken not to advance within a pass nor before the caches   *)
(* have caught up.  Any number of ticks may go by without a pass (an       *)
(* outage of the operator), and any number of passes may run in a tick.    *)
(***************************************************************************)
EXTENDS Integers, FiniteSets, Sequences

CONSTANTS
  Times,        \* the instants of the cron schedule after the schedule's creation at 0
  MaxTime,      \* bound: the clock stops here
  Specs,        \* specs of the VitessBackupSchedule to consider
  MaxSuspends,  \* bound: how often the user suspends the schedule
  MaxTrouble    \* bound: failed API calls and restarts of the operator

ASSUME BackupScheduleAssumption ==
  /\ Times \subseteq Nat \ {0} /\ IsFiniteSet(Times)
  /\ MaxTime \in Nat
  /\ \A s \in Specs :
       /\ s.method \in {"vtbackup", "vtctldclient"}
       /\ s.policy \in {"Allow", "Forbid"}
       /\ \A l \in {s.failedLimit, s.completeLimit, s.deadline} :
            l \subseteq Nat /\ Cardinality(l) <= 1
       /\ s.timeout \in Nat /\ s.allowedMissed \in Nat
  /\ MaxSuspends \in Nat /\ MaxTrouble \in Nat

VARIABLES
  spec,       \* the spec of the VitessBackupSchedule; never changes but for
  suspended,  \* its field suspend
  suspends,   \* how often it was set
  now,        \* the clock
  bootstrapped, \* whether the shard has completed backups, or a primary, its
                \* initial backup and only ready tablets
  jobs,       \* the Jobs on the API server, one per scheduled time
  claims,     \* the scheduled times whose volume claim exists
  seen,       \* Jobs and claims as the informer caches show them
  pc,         \* where the pass is
  todo,       \* Jobs the pass has still to delete
  recent,     \* the latest scheduled time among the Jobs it listed
  busy,       \* whether it listed an active Job
  due,        \* the run it is about to start
  last,       \* LastScheduledTimes in the status
  trouble     \* failures so far

pass == <<pc, todo, recent, busy, due>>
user == <<suspended, suspends>>
vars == <<spec, user, now, bootstrapped, jobs, claims, seen, pass, last, trouble>>

-----------------------------------------------------------------------------
(* Objects *)

\* A history limit or a starting deadline is optional: {} or {n}.

\* A Job is named after its scheduled time.  "none" was never created;
\* "trimmed" and "expired" were deleted, for the history limit or the time-out.
Phases == {"none", "active", "complete", "failed", "trimmed", "expired"}
Exists(phase) == phase \in {"active", "complete", "failed"}

Kind(list, phase) == {t \in Times : list[t] = phase}

-----------------------------------------------------------------------------
(* Decisions *)

\* Mutation: the newest Jobs of a kind are deleted instead of the oldest.
ExcessNewest(kind, limit) ==
  {t \in kind : \E n \in limit : Cardinality({u \in kind : u < t}) >= n}

\* Mutation: one Job too many is kept.
ExcessOffByOne(kind, limit) ==
  {t \in kind : \E n \in limit : Cardinality({u \in kind : u > t}) > n}

\* cleanupJobsWithLimit: all but the newest limit Jobs of a kind, oldest
\* first.  Jobs start in the order of their scheduled times, as a Job is only
\* ever created for the latest instant that has passed.
Excess(kind, limit) ==
  {t \in kind : \E n \in limit : Cardinality({u \in kind : u > t}) >= n}

\* getJobsList: what a listing says of earlier runs.
MostRecent(list) ==
  CHOOSE t \in Times \cup {0} :
    /\ t # 0 => Exists(list[t])
    /\ \A u \in Times : Exists(list[u]) => u <= t

\* removeTimeoutJobs: the time-out counts from the scheduled time.
Expired(kind) == {t \in kind : t + spec.timeout < now}

\* Mutation: a timed-out Job does not count as active, even if not deleted.
BusyUnlessExpired(list) == Kind(list, "active") \ Expired(Kind(list, "active")) # {}

\* Mutation: finished Jobs count as active.
BusyWithAny(list) == \E t \in Times : Exists(list[t])

Busy(list) == Kind(list, "active") # {}

Deletions(S, why) ==
  LET oldestFirst == CHOOSE s \in [1..Cardinality(S) -> S] :
                       \A i, j \in DOMAIN s : i < j => s[i] < s[j]
  IN  [i \in DOMAIN oldestFirst |-> [time |-> oldestFirst[i], why |-> why]]

\* getNextSchedule: instants after the latest Job's, or the creation, and
\* within the starting deadline.
Missed ==
  {t \in Times : recent < t /\ t <= now /\ \A d \in spec.deadline : now - d < t}

TooManyMissed == Cardinality(Missed) > spec.allowedMissed

Forbidden == spec.policy = "Forbid" /\ busy

AwaitsBootstrap == spec.method = "vtbackup" /\ ~bootstrapped

-----------------------------------------------------------------------------
Init ==
  /\ spec \in Specs
  /\ suspended = FALSE /\ suspends = 0
  /\ now = 0
  /\ bootstrapped = FALSE
  /\ jobs = [t \in Times |-> "none"] /\ claims = {}
  /\ seen = [jobs |-> jobs, claims |-> claims]
  /\ pc = "idle" /\ todo = <<>> /\ recent = 0 /\ busy = FALSE /\ due = 0
  /\ last = 0 /\ trouble = 0

-----------------------------------------------------------------------------
(* The pass *)

EndPass ==
  pc' = "idle" /\ todo' = <<>> /\ recent' = 0 /\ busy' = FALSE /\ due' = 0

Fail == trouble < MaxTrouble /\ trouble' = trouble + 1

\* Reconcile: what is to be deleted, and the latest run, all from one listing
\* of the cache.  A suspended schedule is left alone.
Reconcile ==
  LET list == seen.jobs
  IN  /\ pc = "idle" /\ ~suspended
      /\ pc' = "job"
      /\ todo' = Deletions(Excess(Kind(list, "failed"), spec.failedLimit), "trimmed")
                 \o Deletions(Excess(Kind(list, "complete"), spec.completeLimit), "trimmed")
                 \o Deletions(Expired(Kind(list, "active")), "expired")
      /\ recent' = MostRecent(list)
      /\ busy' = Busy(list)
      /\ UNCHANGED <<spec, user, now, bootstrapped, jobs, claims, seen, due, last, trouble>>

\* The deletion loops: first the Job, by name ...
DeleteJob ==
  /\ pc = "job" /\ todo # <<>>
  /\ jobs' = IF Exists(jobs[Head(todo).time])
             THEN [jobs EXCEPT ![Head(todo).time] = Head(todo).why]
             ELSE jobs
  /\ pc' = "claim"
  /\ UNCHANGED <<spec, user, now, bootstrapped, claims, seen, todo, recent, busy, due, last, trouble>>

\* ... a failure of which is logged ...
DeleteJobFails ==
  /\ pc = "job" /\ todo # <<>>
  /\ Fail
  /\ pc' = "claim"
  /\ UNCHANGED <<spec, user, now, bootstrapped, jobs, claims, seen, todo, recent, busy, due, last>>

\* Mutation: removeTimeoutJobs leaves the claim behind.
DeleteClaimUnlessExpired ==
  /\ pc = "claim"
  /\ claims' = IF spec.method = "vtbackup" /\ Head(todo).time \in seen.claims
                    /\ Head(todo).why = "trimmed"
               THEN claims \ {Head(todo).time}
               ELSE claims
  /\ pc' = "job" /\ todo' = Tail(todo)
  /\ UNCHANGED <<spec, user, now, bootstrapped, jobs, seen, recent, busy, due, last, trouble>>

\* ... then the volume claim, if the method has one and the cache shows it.
DeleteClaim ==
  /\ pc = "claim"
  /\ claims' = IF spec.method = "vtbackup" /\ Head(todo).time \in seen.claims
               THEN claims \ {Head(todo).time}
               ELSE claims
  /\ pc' = "job" /\ todo' = Tail(todo)
  /\ UNCHANGED <<spec, user, now, bootstrapped, jobs, seen, recent, busy, due, last, trouble>>

DeleteClaimFails ==
  /\ pc = "claim" /\ spec.method = "vtbackup"
  /\ Fail
  /\ pc' = "job" /\ todo' = Tail(todo)
  /\ UNCHANGED <<spec, user, now, bootstrapped, jobs, claims, seen, recent, busy, due, last>>

\* No Job is created now.  Missed already respects the starting deadline, so
\* the check of it that follows getNextSchedule never skips a run.
NoRun ==
  /\ pc = "job" /\ todo = <<>>
  /\ \/ Missed = {}
     \/ Missed # {} /\ TooManyMissed
     \/ Missed # {} /\ ~TooManyMissed /\ Forbidden
     \/ Missed # {} /\ ~TooManyMissed /\ ~Forbidden /\ AwaitsBootstrap
  /\ EndPass
  /\ UNCHANGED <<spec, user, now, bootstrapped, jobs, claims, seen, last, trouble>>

\* Mutation: the zero time getNextSchedule returns when no run was missed is
\* not noticed.
StartRunUnmissed ==
  /\ pc = "job" /\ todo = <<>>
  /\ ~TooManyMissed /\ ~Forbidden /\ ~AwaitsBootstrap
  /\ due' \in {t \in Missed \cup {0} : \A u \in Missed : u <= t}
  /\ pc' = IF spec.method = "vtbackup" THEN "createClaim" ELSE "createJob"
  /\ UNCHANGED <<spec, user, now, bootstrapped, jobs, claims, seen, todo, recent, busy, last, trouble>>

\* createJob for the latest of the missed runs.
StartRun ==
  /\ pc = "job" /\ todo = <<>>
  /\ Missed # {} /\ ~TooManyMissed /\ ~Forbidden /\ ~AwaitsBootstrap
  /\ due' \in {t \in Missed : \A u \in Missed : u <= t}
  /\ pc' = IF spec.method = "vtbackup" THEN "createClaim" ELSE "createJob"
  /\ UNCHANGED <<spec, user, now, bootstrapped, jobs, claims, seen, todo, recent, busy, last, trouble>>

\* createVtbackupJob: an existing claim of that name is an error, whether the
\* cache or the server finds it, and the run is not tried again in this pass.
CreateClaim ==
  /\ pc = "createClaim"
  /\ IF due \in seen.claims \cup claims
     THEN EndPass /\ UNCHANGED claims
     ELSE /\ claims' = claims \cup {due}
          /\ pc' = "createJob" /\ UNCHANGED <<todo, recent, busy, due>>
  /\ UNCHANGED <<spec, user, now, bootstrapped, jobs, seen, last, trouble>>

CreateClaimFails ==
  /\ pc = "createClaim"
  /\ Fail /\ EndPass
  /\ UNCHANGED <<spec, user, now, bootstrapped, jobs, claims, seen, last>>

\* A Job of that name that exists already was created by an earlier pass.
CreateJob ==
  /\ pc = "createJob"
  /\ IF Exists(jobs[due])
     THEN EndPass /\ UNCHANGED jobs
     ELSE /\ jobs' = [jobs EXCEPT ![due] = "active"]
          /\ pc' = "status" /\ UNCHANGED <<todo, recent, busy, due>>
  /\ UNCHANGED <<spec, user, now, bootstrapped, claims, seen, last, trouble>>

CreateJobFails ==
  /\ pc = "createJob"
  /\ Fail /\ EndPass
  /\ UNCHANGED <<spec, user, now, bootstrapped, jobs, claims, seen, last>>

UpdateStatus ==
  /\ pc = "status"
  /\ last' = due
  /\ EndPass
  /\ UNCHANGED <<spec, user, now, bootstrapped, jobs, claims, seen, trouble>>

\* A conflict on the status, or a restart of the operator.
PassBreaks ==
  /\ pc # "idle"
  /\ Fail /\ EndPass
  /\ UNCHANGED <<spec, user, now, bootstrapped, jobs, claims, seen, last>>

-----------------------------------------------------------------------------
(* The world around it *)

Tick ==
  /\ now < MaxTime /\ pc = "idle"
  /\ seen = [jobs |-> jobs, claims |-> claims]
  /\ now' = now + 1
  /\ UNCHANGED <<spec, user, bootstrapped, jobs, claims, seen, pass, last, trouble>>

Deliver ==
  /\ seen # [jobs |-> jobs, claims |-> claims]
  /\ seen' = [jobs |-> jobs, claims |-> claims]
  /\ UNCHANGED <<spec, user, now, bootstrapped, jobs, claims, pass, last, trouble>>

\* A backup takes longer than it takes the cache to show its Job.
JobEnds(t) ==
  /\ jobs[t] = "active" /\ seen = [jobs |-> jobs, claims |-> claims]
  /\ \E outcome \in {"complete", "failed"} : jobs' = [jobs EXCEPT ![t] = outcome]
  /\ UNCHANGED <<spec, user, now, bootstrapped, claims, seen, pass, last, trouble>>

Bootstrap ==
  /\ ~bootstrapped /\ bootstrapped' = TRUE
  /\ UNCHANGED <<spec, user, now, jobs, claims, seen, pass, last, trouble>>

Suspend ==
  /\ ~suspended /\ suspends < MaxSuspends
  /\ suspended' = TRUE /\ suspends' = suspends + 1
  /\ UNCHANGED <<spec, now, bootstrapped, jobs, claims, seen, pass, last, trouble>>

Resume ==
  /\ suspended /\ suspended' = FALSE
  /\ UNCHANGED <<spec, suspends, now, bootstrapped, jobs, claims, seen, pass, last, trouble>>

-----------------------------------------------------------------------------
Work == \/ Reconcile \/ DeleteJob \/ DeleteClaim \/ NoRun \/ StartRun
        \/ CreateClaim \/ CreateJob \/ UpdateStatus
Trouble == \/ DeleteJobFails \/ DeleteClaimFails \/ CreateClaimFails
           \/ CreateJobFails \/ PassBreaks
World == Tick \/ Deliver \/ (\E t \in Times : JobEnds(t)) \/ Bootstrap

Next == Work \/ Trouble \/ World \/ Suspend \/ Resume

Spec == Init /\ [][Next]_vars

\* The periodic resync calls passes again, and time passes: however many
\* passes there are, the caches catch up between two of them now and then, and
\* the clock advances (strong fairness, as each waits here for an open pass).
\* Jobs need not end: a backup may hang.
FairSpec ==
  /\ Spec
  /\ WF_vars(Work) /\ WF_vars(Bootstrap)
  /\ SF_vars(pc = "idle" /\ Deliver) /\ SF_vars(Tick)

-----------------------------------------------------------------------------
\* What a pass remembers fits where it is: a claim is deleted for a Job on its
\* list, and only a run that was missed, never the zero time getNextSchedule
\* returns when there is none, is started.
TypeOK ==
  /\ spec \in Specs
  /\ suspended \in BOOLEAN /\ suspends \in 0..MaxSuspends
  /\ now \in 0..MaxTime
  /\ bootstrapped \in BOOLEAN
  /\ jobs \in [Times -> Phases] /\ claims \in SUBSET Times
  /\ seen \in [jobs : [Times -> Phases], claims : SUBSET Times]
  /\ pc \in {"idle", "job", "claim", "createClaim", "createJob", "status"}
  /\ todo \in Seq([time : Times, why : {"trimmed", "expired"}])
  /\ pc = "claim" => todo # <<>>
  /\ recent \in Times \cup {0} /\ busy \in BOOLEAN
  /\ due \in Times \cup {0}
  /\ pc \in {"createClaim", "createJob", "status"} <=> due # 0
  /\ last \in Times \cup {0}
  /\ trouble \in 0..MaxTrouble

-----------------------------------------------------------------------------
(* Properties *)

\* Under the policy Forbid at most one backup of the shard runs at a time.
\* The controller counts active Jobs in a cached list (Reconcile), which may
\* not show the Job the last pass created; it is the Job's name, made of the
\* scheduled time, that keeps a second one from being created.
OneAtATime ==
  spec.policy = "Forbid" => Cardinality(Kind(jobs, "active")) <= 1

\* Between passes the volume claims are those of the vtbackup Jobs there are,
\* as long as nothing fails: none is left behind by createVtbackupJob or the
\* deletion loops, and no Job has lost its claim, whatever the caches lag.
ClaimsMatchJobs ==
  pc = "idle" /\ trouble = 0 =>
    claims = IF spec.method = "vtbackup" THEN {t \in Times : Exists(jobs[t])} ELSE {}

\* Trimming the history does not make the controller forget a run and start it
\* again, unless a history limit is 0: getJobsList knows of past runs only by
\* the Jobs cleanupJobsWithLimit has left.
RunsOnce ==
  [][\A t \in Times : jobs[t] = "trimmed" /\ jobs'[t] = "active" =>
       0 \in spec.failedLimit \cup spec.completeLimit]_vars

LastTime == CHOOSE t \in Times : \A u \in Times : u <= t

\* The last run can be had before the clock of the model stops: not too many
\* are missed at worst, it is within the starting deadline, and a Job that
\* hangs before it has timed out.
InTime ==
  /\ spec.allowedMissed >= Cardinality(Times)
  /\ \A d \in spec.deadline : MaxTime - d < LastTime
  /\ \/ spec.policy = "Allow"
     \/ \A t \in Times \ {LastTime} : t + spec.timeout < MaxTime

\* After an outage, while backups hang, time out and block others, the latest
\* run due is started in the end, provided that the schedule is not left
\* suspended.  A failure between the claim and the Job of a vtbackup run makes
\* every later try of the same run fail, so it is excluded.
LatestRunHappens ==
  <>[]~suspended =>
    <>(\/ jobs[LastTime] # "none"
       \/ ~InTime
       \/ spec.method = "vtbackup" /\ trouble > 0)

\* No finished Job stays beyond the history limits for ever, even if deleting
\* it fails at first (cleanupJobsWithLimit tries again in every pass).
HistoryIsTrimmed ==
  <>[]~suspended =>
    []<>(/\ \A n \in spec.failedLimit : Cardinality(Kind(jobs, "failed")) <= n
         /\ \A n \in spec.completeLimit : Cardinality(Kind(jobs, "complete")) <= n)
===============================================================================
