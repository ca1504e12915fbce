CONSTANTS
  t1 = t1
  t2 = t2
  t3 = t3
  Thread = {t1, t2, t3}
  NULL = NULL
  Ops = {"ex", "ex_try", "spin", "spin_try", "sh", "sh_try"}
  Flags = {}
  MaxHold = 2
SPECIFICATION Spec
CHECK_DEADLOCK FALSE
SYMMETRY Symmetry
INVARIANTS
  TypeOK
  Exclusion
  CountExact
  OwnerExact
