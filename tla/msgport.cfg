SPECIFICATION FairSpec
CONSTANTS
  c1 = c1
  s1 = s1
  m1 = m1
  m2 = m2
  NULL = NULL
  Client = {c1}
  Server = {s1}
  Msg = {m1, m2}
  Owner <- OneClient
  Dropable = {m2}
  Priority = {m2}
  Cpu = {0, 1}
  MaxMoves = 2
  MaxHops = 1
INVARIANTS TypeOK Custody NoMissedWakeup
PROPERTY Answered
