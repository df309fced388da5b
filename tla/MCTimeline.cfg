SPECIFICATION Spec
CONSTANTS
  Conversations <- MCConversations
  TurnWindow = 5
  BackfillWindow = 8
  MaxHistory = 5
  MaxLate = 2
  MaxLost = 1
  MaxLag = 1
INVARIANTS NumbersAgree FullMeansWhole
PROPERTIES ChainIsLongest HeldRowsStay RepairRestores LaterRowsStayLater FinishedStaysFinished
CHECK_DEADLOCK FALSE
