CONSTANTS
  t1 = t1
  t2 = t2
  Thread = {t1, t2}
  Token = {1, 2}
  NULL = NULL
  Ops = {"gettoken", "gettoken_shared", "trytoken", "swap", "yield", "sleep"}
  MaxRefs = 2
  TokenSpin = 1
  SpinLoops = 1
SPECIFICATION FairSpec
INVARIANTS
  TypeOK
  TokenExclusion
  TokenCountExact
  RefExact
PROPERTIES
  SomeThreadRuns
  AllOrNone
