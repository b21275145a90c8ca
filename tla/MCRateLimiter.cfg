SPECIFICATION Spec
CONSTANTS
  c1 = c1
  c2 = c2
  c3 = c3
  key = key
  ip = ip
  NoKey = NoKey
  NoAddress = NoAddress
  Callers <- MCCallers
  KeyOf <- MCKeyOf
  AddressOf <- MCAddressOf
  ForwardedFor <- MCForwarded
  Limit = 2
  Window = 2
  MaxIdentities = 0
  MaxDelay = 1
  MaxTime = 4
SYMMETRY MCSymmetry
INVARIANT
  LimitHolds
PROPERTY
  DeniedOnlyWhenBusy
CHECK_DEADLOCK FALSE
