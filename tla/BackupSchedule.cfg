SPECIFICATION FairSpec
CONSTANTS
  Times = {3, 6}
  MaxTime = 7
  Specs <- MCSpecs
  MaxSuspends = 1
  MaxTrouble = 1
INVARIANTS TypeOK OneAtATime ClaimsMatchJobs
PROPERTIES RunsOnce LatestRunHappens HistoryIsTrimmed
