--------------------------- MODULE MCBackupSchedule ---------------------------
EXTENDS BackupSchedule, BackupFrequency

\* A backup every three ticks, at the instants of the generated expression.
ASSUME EveryThreeTicks == Times = {t \in 1..MaxTime : Fires(CronFromInterval(3, 0), t)}

\* Every method with every policy, and for each: generous limits; the tightest
\* history; a time-out shorter than the interval; a starting deadline; and an
\* allowance of a single missed run.
MCSpecs ==
  LET Variant(f, c, t, d, a) ==
        {[method |-> m, policy |-> p, failedLimit |-> f, completeLimit |-> c,
          timeout |-> t, deadline |-> d, allowedMissed |-> a] :
         m \in {"vtbackup", "vtctldclient"}, p \in {"Allow", "Forbid"}}
  IN  UNION {Variant({1}, {1}, 9, {}, 9), Variant({0}, {}, 1, {}, 9),
             Variant({1}, {1}, 1, {2}, 9), Variant({}, {0}, 9, {}, 1)}
===============================================================================
