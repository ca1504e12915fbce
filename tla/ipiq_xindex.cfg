SPECIFICATION Spec
CONSTANTS
  NCpu = 2
  MAXCPUFIFO = 5
  Ops <- Waiter
  Funcs <- WaiterFuncs
  MaxCalls = 2
  Backlog = 2
INVARIANT XindexFinished
CHECK_DEADLOCK FALSE
