SPECIFICATION FairSpec
CONSTANTS
  Clients = {p1}
  Kinds = {"managed", "observer"}
  Modes = {m1}
  Cards = {i1, i2}
  MaxCards = 2
  MaxWindow = 1
  MaxHistory = 2
  Capacity = 2
  MaxRev = 4
  MaxRows = 3
  MaxToken = 2
  None = None
 
INVARIANT OpenRunIsShown
INVARIANT RoutesAreCurrent
 
 
CHECK_DEADLOCK FALSE
