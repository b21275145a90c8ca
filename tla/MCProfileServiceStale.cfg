SPECIFICATION Spec
CONSTANTS
  k1 = k1
  r1 = r1
  r2 = r2
  r3 = r3
  Past = Past
  NoFile = NoFile
  NoFlight = NoFlight
  Keys <- MCOneKey
  Requests <- MCThree
  KeyOf <- MCThreeOfOne
  MaxEntries = 1
  Ttl = 1
  MaxTime = 0
  MaxRestarts = 0
SYMMETRY MCSymmetry
INVARIANT
  OneFetchPerKey
CHECK_DEADLOCK FALSE
