SPECIFICATION FairSpec
CONSTANTS
  Tablets = {1, 2, 3}
  Eligible = {1, 2, 3}
  Drainable = {1, 2}
  NoPrimary = NoPrimary
  MaxLag = 3
  MaxDrains = 3
  AllowAbort = FALSE
  MaxUnplanned = 0
PROPERTIES ImplementsContract DrainCompletes
