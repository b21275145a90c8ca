SPECIFICATION FairSpec
CONSTANTS
  s1 = s1
  s2 = s2
  e1 = e1
  NoCall = NoCall
  Calls <- MCPair
  Fallback <- MCOneStrategy
  MaxAttempts = 2
  MaxConcurrency = 1
  Threshold = 1
INVARIANT
  PermitsConserved
PROPERTY
  CallsEnd
CHECK_DEADLOCK FALSE
