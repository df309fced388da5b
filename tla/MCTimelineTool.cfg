SPECIFICATION Spec
CONSTANTS
  Conversations <- MCConversations
  TurnWindow = 5
  BackfillWindow = 8
  MaxHistory = 5
  MaxLate = 2
  MaxLost = 1
  MaxLag = 1
PROPERTY CompletionsAreShown
CHECK_DEADLOCK FALSE
