CONSTANTS
  t1 = t1
  t2 = t2
  Thread = {t1, t2}
  NULL = NULL
  Ops = {"ex", "sh"}
  Flags = {}
  MaxHold = 1
SPECIFICATION Spec
CHECK_DEADLOCK FALSE
SYMMETRY Symmetry
INVARIANTS
  WakeupsKept
