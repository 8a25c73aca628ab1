---------------------------- MODULE BackupFrequency ----------------------------
(***************************************************************************)
(* The cron expression a VitessBackupSchedule with a frequency runs by:    *)
(* vitessbackupschedule/schedule_generator.go and the validation of the    *)
(* frequency in apis/planetscale/v2.  The offset, which staggers shards,   *)
(* is a hash of the shard's identity; it may be any minute of the interval.*)
(***************************************************************************)
EXTENDS Integers

-----------------------------------------------------------------------------
(* Frequencies, intervals and offsets are in minutes *)

\* ValidateBackupFrequency: what cron can represent exactly.
ValidFrequency(total) ==
  /\ total \in 1..1440
  /\ \/ total < 60 /\ 60 % total = 0
     \/ 60 <= total /\ total < 1440 /\ total % 60 = 0 /\ 24 % (total \div 60) = 0
     \/ total = 1440

\* cronFromInterval: the minutes and the hours of the expression, each a field
\* start/step; */1 stands for every value.  Its branches for intervals of
\* several days, or that do not divide a day, are never reached.
CronFromInterval(total, offset) ==
  LET stepHours == total \div 60
  IN  CASE total = 1440 -> [minute |-> offset % 60, minutes |-> 60,
                            hour |-> offset \div 60, hours |-> 24]
        [] total < 60 -> [minute |-> offset % total, minutes |-> total, hour |-> 0, hours |-> 1]
        [] OTHER -> [minute |-> offset % 60, minutes |-> 60,
                     hour |-> (offset \div 60) % stepHours, hours |-> stepHours]

\* Whether a cron expression fires at a minute of the day.
Fires(cron, time) ==
  LET mm == time % 60
      hh == time \div 60
  IN  /\ cron.minute <= mm /\ (mm - cron.minute) % cron.minutes = 0
      /\ cron.hour <= hh /\ (hh - cron.hour) % cron.hours = 0
================================================================================
