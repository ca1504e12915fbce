SPECIFICATION FairSpec
CONSTANTS
  p1 = p1
  p2 = p2
  c1 = c1
  c2 = c2
  NULL = NULL
  Cpu <- Cpus
  Callout <- Callouts
  MpSafe = {c2}
  Home <- SameCpu
  Ops = {"reset", "stop"}
  WheelSize = 2
  TickRange = 4
  MaxTicks = 1
  MaxLag = 1
PROPERTY FiresOnTime
