SPECIFICATION FairSpec
CONSTANTS
  Tablets = {t1, t2}
  Eligible = {t1, t2}
  Modes = {"restored", "external"}
  None = None
  MaxOther = 0
  MaxTrouble = 1
PROPERTY ShardGetsPrimary
