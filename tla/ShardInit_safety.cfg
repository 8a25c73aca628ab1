SPECIFICATION Spec
CONSTANTS
  Tablets = {t1, t2, t3}
  Eligible = {t1, t2}
  Modes = {"scratch", "restored"}
  None = None
  MaxOther = 1
  MaxTrouble = 1
INVARIANTS TypeOK OnePrimaryTablet RecordNamesPrimary PrimaryHasData
PROPERTIES NeverErased PrimaryKept
