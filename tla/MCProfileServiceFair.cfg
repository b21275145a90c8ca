SPECIFICATION FairSpec
CONSTANTS
  k1 = k1
  r1 = r1
  r2 = r2
  r3 = r3
  Past = Past
  NoFile = NoFile
  NoFlight = NoFlight
  Keys <- MCOneKey
  Requests <- MCTwo
  KeyOf <- MCTwoOfOne
  MaxEntries = 1
  Ttl = 1
  MaxTime = 3
  MaxRestarts = 0
INVARIANTS
  ServiceTypeOK
PROPERTIES
  ImplementsReadThrough
  LookupsEnd
  FlightsLand
CHECK_DEADLOCK FALSE
