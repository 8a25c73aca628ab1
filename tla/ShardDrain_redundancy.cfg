SPECIFICATION Spec
CONSTANTS
  Tablets = {1, 2, 3}
  Eligible = {1, 2, 3}
  Drainable = {1, 2}
  NoPrimary = NoPrimary
  MaxLag = 3
  MaxDrains = 2
  AllowAbort = FALSE
  MaxUnplanned = 0
INVARIANT OneTabletDownAtATime
