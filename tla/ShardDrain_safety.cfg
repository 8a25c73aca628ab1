SPECIFICATION Spec
CONSTANTS
  Tablets = {1, 2}
  Eligible = {1, 2}
  Drainable = {1, 2}
  NoPrimary = NoPrimary
  MaxLag = 3
  MaxDrains = 3
  AllowAbort = TRUE
  MaxUnplanned = 1
INVARIANTS TypeOK AtMostOneFinished ValidAnnotations NoFinishedPrimary
PROPERTY FinishedSticks
