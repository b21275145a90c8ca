SPECIFICATION Spec
CONSTANTS
  c1 = c1
  c2 = c2
  NoCall = NoCall
  Calls <- MCOneCall
  MaxTokens = 2
PROPERTY
  RetriesEchoToken
CHECK_DEADLOCK FALSE
