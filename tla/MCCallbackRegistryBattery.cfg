\* A client that dies without a call to unregister.
SPECIFICATION Spec
CONSTANTS
  c1 = c1
  c2 = c2
  Clients = {c1, c2}
  Own = Own
  MaxCalls = 2
  MaxEvents = 1
SYMMETRY ClientSymmetry
INVARIANTS
  BatterySaved
CHECK_DEADLOCK FALSE
