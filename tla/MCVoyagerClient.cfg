SPECIFICATION Spec
CONSTANTS
  s1 = s1
  s2 = s2
  e1 = e1
  NoCall = NoCall
  Calls <- MCMixed
  Fallback <- MCStrategies
  MaxAttempts = 1
  MaxConcurrency = 2
  Threshold = 2
SYMMETRY MCSymmetry
INVARIANTS
  ClientTypeOK
  AuthenticatesAlone
  HalfOpenHasProbe
  OneCallPerCooldown
PROPERTY
  OpensOnBadAnswers
CHECK_DEADLOCK FALSE
