SPECIFICATION FairSpec
CONSTANTS
  NCpu = 2
  MAXCPUFIFO = 5
  Ops <- Callers
  Funcs <- CallerFuncs
  MaxCalls = 2
  Backlog = 2
INVARIANTS TypeOK FifoBounded Quiescent CpusyncReleased
PROPERTIES CallsReturn Delivered
CHECK_DEADLOCK FALSE
