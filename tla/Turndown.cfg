SPECIFICATION FairSpec
CONSTANTS
  s1 = s1
  s2 = s2
  Shards = {s1, s2}
  None = None
  Patient = TRUE
  Starts <- MCStarts
INVARIANT TypeOK
PROPERTIES ServingShardKept PopulatedKeyspaceKept OrphansKeepRecords UnwantedGoes WantedComes
