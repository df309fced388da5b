CONSTANTS
  d1 = d1
  d2 = d2
  d3 = d3
  c1 = c1
  c2 = c2
  c3 = c3
  s1 = s1
  s2 = s2
  s3 = s3
  x1 = x1
  x2 = x2
  Devices = {d1, d2, d3}
  Connections = {c1, c2, c3}
  Streams = {s1, s2, s3}
  Layouts <- MCLayouts
  Targets = {"shell", "tmux", "herdr"}
  Sessions = {x1, x2}
  Grits = {2}
  MaxConnections = 2
  MaxPerDevice = 1
  MaxPtys = 2
  MaxPtysPerDevice = 2
  MaxSubscriptions = 1
  MaxForwards = 1
  MaxPreHello = 2
  None = none
SPECIFICATION FairSpec
INVARIANTS LeasesAreAccounted RevokedTerminalsEnd ChildrenAreSignalled
PROPERTIES SlotsAreKept ConnectionsDrain
CHECK_DEADLOCK FALSE
