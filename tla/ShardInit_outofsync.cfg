SPECIFICATION Spec
CONSTANTS
  Tablets = {t1, t2}
  Eligible = {t1, t2}
  Modes = {"external"}
  None = None
  MaxOther = 0
  MaxTrouble = 0
PROPERTY PrimaryKept
