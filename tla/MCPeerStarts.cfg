SPECIFICATION FairSpec
CONSTANTS
  Endpoints = {e1}
  Phones = {}
  Grants = {g1}
  Requests = {r1, r2}
  Workspaces = {w1}
  Handlers = {h1, h2}
  MaxPeers = 1
  MaxStarts = 2
  MaxLive = 1
  LateFailure = TRUE
  Host = Host
  None = None
INVARIANT LaunchedOnce
INVARIANT AnswersAgree
INVARIANT AcceptedStaysOwned
PROPERTY GateIsReleased
