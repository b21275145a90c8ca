SPECIFICATION LookupSpec
CONSTANTS
  u1 = u1
  u2 = u2
  u3 = u3
  u4 = u4
  None = None
  Junk = Junk
  Urns <- MCUrns
  Inputs <- MCInputs
INVARIANTS
  NothingSilent
  CodesJustified
  OneKeyPerProfile
  
  SlotsSpaced
  PeriodCountsMonths
  EnvelopesAgree
  ExperienceComplete
  EnrichmentKeeps
CHECK_DEADLOCK FALSE
