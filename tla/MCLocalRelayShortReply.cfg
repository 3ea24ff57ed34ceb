\* A reply that ends the handshake and is not sent whole.
CONSTANTS
  BufSize = 3
  MaxUp = 2
  MaxDown = 1
SPECIFICATION Spec
INVARIANTS
  RestIsWaitedFor
CHECK_DEADLOCK FALSE
