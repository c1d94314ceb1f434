SPECIFICATION GateSpec
CONSTANTS
  tap1 = tap1
  tap2 = tap2
  view = view
  other = other
  Request <- MCRequest
  Business <- MCBusiness
  Key <- MCKey
  KeyOf <- MCKeyOf
  BusinessOf <- MCBusinessOf
  None = None
  Cap = 1
  Window = 2
  MaxKeys = 1
  TicksPerDay = 2
  LastTick = 2
  MaxRestarts = 1
  MaxLate = 1
INVARIANTS GateHolds RepeatsDropped ReportedOnce
PROPERTIES KeepsAllowance
SYMMETRY TapsAlike
