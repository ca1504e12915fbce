SPECIFICATION FairSpec
CONSTANTS
  p1 = p1
  p2 = p2
  c1 = c1
  c2 = c2
  NULL = NULL
  Cpu <- Cpus
  Callout <- Callouts
  MpSafe = {c2}
  Home <- SameCpu
  Ops <- AllOps
  WheelSize = 2
  TickRange = 4
  MaxTicks = 1
  MaxLag = 1
INVARIANTS TypeOK WheelSound NeverMissed NextOnBucket
PROPERTIES SyncComplete Expires
