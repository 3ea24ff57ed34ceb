\* A buffer that fills, a window that closes, a send buffer that is smaller
\* than one read of the socket.
CONSTANTS
  Wnd = 3
  SndBuf = 2
  RecvSize = 3
  MaxUp = 3
  MaxDown = 4
SPECIFICATION FairSpec
INVARIANTS
  AssertionsHold
  WindowCoversBuffer
  NoUseAfterFree
  NothingCutOff
PROPERTIES
  Implements
  Progress
CHECK_DEADLOCK FALSE
