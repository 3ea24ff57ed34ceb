\* Buffers of three units, more bytes than fit, every short send.
CONSTANTS
  BufSize = 3
  MaxUp = 4
  MaxDown = 3
SPECIFICATION FairSpec
INVARIANTS
  WatchersFit
  NothingCutOff
PROPERTIES
  Implements
  Progress
CHECK_DEADLOCK FALSE
