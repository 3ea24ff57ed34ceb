\* More bytes than a buffer holds in both directions.
CONSTANTS
  HalfBuff = 2
  MaxUp = 3
  MaxDown = 3
SPECIFICATION FairSpec
INVARIANTS
  HalfClose
PROPERTIES
  Implements
  Progress
CHECK_DEADLOCK FALSE
