SPECIFICATION Spec
CONSTANTS
  Tablets = {t1}
  Eligible = {t1}
  Modes = {"restored"}
  None = None
  MaxOther = 0
  MaxTrouble = 0
INVARIANT PromotedIsCandidate
