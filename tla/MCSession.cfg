SPECIFICATION Spec
CONSTANTS
  c1 = c1
  c2 = c2
  NoCall = NoCall
  Calls <- MCCalls
  MaxTokens = 2
SYMMETRY MCSymmetry
INVARIANTS
  SessionTypeOK
  SavedHaveAuth
PROPERTIES
  TokensAgree
  PasswordLast
CHECK_DEADLOCK FALSE
