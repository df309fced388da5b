SPECIFICATION FairSpec
CONSTANTS
  a1 = a1
  a2 = a2
  None = None
  Pickups <- MCPickups
  Plans <- MCPlans
  MaxTurns = 2
  ReleaseSlots = 1
INVARIANT OneAdopter
INVARIANT AdoptedRowsEnd
PROPERTY YieldsToTheTerminal
PROPERTY ReleaseGoesThrough
CHECK_DEADLOCK FALSE
