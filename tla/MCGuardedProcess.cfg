\* Safety and liveness under FairSpec: every interleaving of start(), two
\* destroy(), two restart(), an exit of a child by itself and interrupts.
SPECIFICATION FairSpec
CONSTANTS
  d1 = d1
  d2 = d2
  r1 = r1
  main = main
  Destroyers <- TwoDestroyers
  Restarters = {r1}
  Interruptible <- SomeInterruptible
  Starter = main
  HasCallback = TRUE
  NoThread = NoThread
  MaxRestarts = 2
  MaxExits = 1
INVARIANTS
  IInv
  OneChild
  DestroyedLeavesNothing
  FailedStartLeavesNothing
  NoNullProcess
  NoCrashLoop
  RestartIsNoCrash
PROPERTIES
  Implements
  StartReturns
  DestroyEnds
  RestartRelaunches
CHECK_DEADLOCK FALSE
