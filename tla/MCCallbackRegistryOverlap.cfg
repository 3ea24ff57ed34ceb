\* Safety: three calls of two clients that may die, one change of the screen,
\* and every interleaving of the threads.
SPECIFICATION Spec
CONSTANTS
  c1 = c1
  c2 = c2
  Clients = {c1, c2}
  Own = Own
  MaxCalls = 3
  MaxEvents = 1
SYMMETRY ClientSymmetry
INVARIANTS
  IInv
  NobodyForgotten
  TimerFollows
  CountIsExact
  CrashNeedsOverlap
CHECK_DEADLOCK FALSE
