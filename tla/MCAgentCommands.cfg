CONSTANTS
  c1 = c1
  c2 = c2
  p1 = p1
  p2 = p2
  b1 = b1
  b2 = b2
  b3 = b3
  t1 = t1
  t2 = t2
  Commands = {c1}
  Processes = {p1, p2}
  Bridges = {b1, b2}
  Tasks = {t1}
  Capacity = 1
  Ttl = 1
  Overlap = FALSE
  MaxRev = 2
  EpochBound = 3
  MaxClock = 1
  MaxRuns = 2
  None = none
SPECIFICATION Spec
SYMMETRY MCSymmetry
INVARIANTS  DeliveredToAddressee 
PROPERTY FencedReceiptIsFinal
CONSTRAINT MCClockOrEpochs
CHECK_DEADLOCK FALSE
