SPECIFICATION FairSpec
CONSTANTS
  s1 = s1
  s2 = s2
  e1 = e1
  NoCall = NoCall
  Calls <- MCPair
  Fallback <- MCOneStrategy
  MaxAttempts = 1
  MaxConcurrency = 1
  Threshold = 1
PROPERTY
  BreakerRecovers
CHECK_DEADLOCK FALSE
