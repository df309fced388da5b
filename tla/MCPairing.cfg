CONSTANTS
  id1 = id1
  id2 = id2
  d1 = d1
  d2 = d2
  s1 = s1
  s2 = s2
  none = none
  Ids <- MCIds
  Devices <- MCDevices
  Streams <- MCStreams
  None = none
  Lifetime = 1
  Retention = 0
  MaxTime = 2
SPECIFICATION Spec
SYMMETRY MCSymmetry
INVARIANTS OneUse CurrentIsTheLiveOffer RefusedOnlyIfWithdrawn
