CONSTANTS
  t1 = t1
  t2 = t2
  Thread = {t1, t2}
  NULL = NULL
  Ops = {"enter", "adaptive", "try", "handler_call", "handler_try", "handler_disable", "handler_enable"}
SPECIFICATION FairSpec
INVARIANTS
  TypeOK
  MutualExclusion
  OwnerRecorded
  RequestsCounted
  NoLostWakeup
  DisabledHandlerQuiet
PROPERTIES
  SleepersWoken
  ImplementsLock
  FreeLockGranted
