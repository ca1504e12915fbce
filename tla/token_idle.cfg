CONSTANTS
  t1 = t1
  t2 = t2
  Thread = {t1, t2}
  Token = {1, 2}
  NULL = NULL
  Ops = {"gettoken", "sleep"}
  MaxRefs = 2
  TokenSpin = 0
  SpinLoops = 1
SPECIFICATION FairSpec
PROPERTY ScansEndSorted
