SPECIFICATION Spec
CONSTANTS
  Endpoints = {e1}
  Phones = {p1}
  Grants = {g1, g2}
  Requests = {r1}
  Workspaces = {w1}
  Handlers = {h1, h2}
  MaxPeers = 1
  MaxStarts = 1
  MaxLive = 1
  LateFailure = FALSE
  Host = Host
  None = None
SYMMETRY Symmetry
INVARIANT EffectsAreAuthorised
INVARIANT OpenConnectionsAreAuthorised
 
