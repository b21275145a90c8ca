SPECIFICATION FairSpec
CONSTANTS
  a1 = a1
  a2 = a2
  r1 = r1
  r2 = r2
  r3 = r3
  Accounts <- MCAccounts
  Requests <- MCRequests
  Owner <- MCOwner
  Seed <- MCSeed
  HitCost = 1
  MissCost = 2
  MaxRestarts = 1
INVARIANTS
  TypeOK
  Solvent
  Conserved
  AnswersMatchLedger
  NeverOnCredit
PROPERTIES
  ImplementsLedger
  HoldsEnd
CHECK_DEADLOCK FALSE
