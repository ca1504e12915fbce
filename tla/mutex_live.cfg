CONSTANTS
  t1 = t1
  t2 = t2
  Thread = {t1, t2}
  NULL = NULL
  Ops = {"ex_link", "abort"}
  Flags = {"TIMO", "PCATCH"}
  MaxHold = 1
SPECIFICATION FairSpec
CHECK_DEADLOCK FALSE
PROPERTIES
  HandedOverReturns
INVARIANTS
  RingSound
  RingLocked
