------------------------ MODULE GuardedProcessProofs ------------------------
(***************************************************************************)
(* Proofs of the safety properties of GuardedProcess, for any number of    *)
(* threads that destroy and restart and without the bounds of the runs.    *)
(***************************************************************************)
EXTENDS GuardedProcess, TLAPS

(* The initial state has the inductive invariant, part by part.            *)
LEMMA InitIInv == Init => IInv
<1> SUFFICES ASSUME Init PROVE IInv
  OBVIOUS
<1> USE CallersAssumption DEF Init, NoProcess
<1>1. TypeOK
  <2>1. destroyer \in [Destroyers -> {"idle", "interrupt", "signal", "join", "done", "returned"}]
    OBVIOUS
  <2>2. QED
    BY <2>1 DEF TypeOK, GuardPlaces
<1>2. LatestChild
  BY DEF LatestChild, Alive
<1>3. ProcessAssigned
  BY DEF ProcessAssigned, Alive
<1>4. LaunchesPaid
  BY DEF LaunchesPaid, Pending, Unused
<1>5. RestartFlagged
  BY DEF RestartFlagged, Alive
<1>6. QED
  BY <1>1, <1>2, <1>3, <1>4, <1>5 DEF IInv

(* A step keeps the types.                                                 *)
LEMMA TypeNext ==
  ASSUME TypeOK, [Next]_vars
  PROVE  TypeOK'
<1> USE CallersAssumption DEF TypeOK, GuardPlaces, Alive,
       vars, threadVars, fieldVars, callerVars, childVars, historyVars
<1>1. CASE Start
  BY <1>1 DEF Start
<1>2. CASE StartAcquire
  BY <1>2 DEF StartAcquire
<1>3. CASE StartReturn
  BY <1>3 DEF StartReturn
<1>4. CASE StartInterrupted
  BY <1>4 DEF StartInterrupted
<1>5. CASE GuardLoop
  BY <1>5 DEF GuardLoop
<1>6. CASE GuardSpawn
  BY <1>6 DEF GuardSpawn
<1>7. CASE GuardSpawnFails
  BY <1>7 DEF GuardSpawnFails
<1>8. CASE GuardAssign
  BY <1>8 DEF GuardAssign
<1>9. CASE GuardCallback
  BY <1>9 DEF GuardCallback
<1>10. CASE GuardSleep
  BY <1>10 DEF GuardSleep
<1>11. CASE GuardSend
  BY <1>11 DEF GuardSend
<1>12. CASE GuardRelease
  BY <1>12 DEF GuardRelease
<1>13. CASE GuardWait
  BY <1>13 DEF GuardWait
<1>14. CASE GuardInterrupted
  BY <1>14 DEF GuardInterrupted
<1>15. CASE GuardCatch
  BY <1>15 DEF GuardCatch, Signal
<1>16. CASE GuardCheck
  <2>1. /\ guard' = "loop" /\ isRestart' = FALSE /\ isDestroyed' \in BOOLEAN
        /\ slowExits' \in Nat /\ gaveUp' \subseteq Nat
    <3>1. guard' = "loop" /\ isRestart' = FALSE
      BY <1>16 DEF GuardCheck
    <3>2. isDestroyed' \in BOOLEAN
      BY <1>16 DEF GuardCheck
    <3>3. slowExits' \in Nat
      BY <1>16 DEF GuardCheck
    <3>4. gaveUp' \subseteq Nat
      BY <1>16 DEF GuardCheck
    <3>5. QED
      BY <3>1, <3>2, <3>3, <3>4
  <2>2. UNCHANGED <<callback, ioException, permits, interrupted, young, process,
                    callerVars, childVars, restarts, exits, restartKills>>
    BY <1>16 DEF GuardCheck
  <2>3. QED
    BY <2>1, <2>2
<1>17. CASE GuardFinally
  BY <1>17 DEF GuardFinally
<1>18. ASSUME NEW d \in Destroyers, DestroyStep(d) PROVE TypeOK'
  <2>1. CASE Destroy(d)
    BY <2>1 DEF Destroy
  <2>2. CASE DestroyInterrupt(d)
    BY <2>2 DEF DestroyInterrupt
  <2>3. CASE DestroySignal(d)
    BY <2>3 DEF DestroySignal, Signal
  <2>4. CASE DestroyJoin(d)
    BY <2>4 DEF DestroyJoin
  <2>5. CASE DestroyJoinInterrupted(d)
    BY <2>5 DEF DestroyJoinInterrupted
  <2>6. QED
    BY <1>18, <2>1, <2>2, <2>3, <2>4, <2>5 DEF DestroyStep
<1>19. ASSUME NEW r \in Restarters, RestartStep(r) PROVE TypeOK'
  <2>1. CASE Restart(r)
    BY <2>1 DEF Restart
  <2>2. CASE RestartSignal(r)
    BY <2>2 DEF RestartSignal, Signal
  <2>3. QED
    BY <1>19, <2>1, <2>2 DEF RestartStep
<1>20. ASSUME NEW c \in Alive, ChildExit(c) \/ ChildDies(c) PROVE TypeOK'
  <2>1. /\ UNCHANGED <<threadVars, fieldVars, callerVars, spawned, restarts,
                       slowExits, restartKills, gaveUp>>
        /\ exits' \in Nat /\ running' \subseteq Nat /\ dying' \subseteq Nat
    <3>1. CASE ChildExit(c)
      BY <3>1 DEF ChildExit
    <3>2. CASE ChildDies(c)
      BY <3>2 DEF ChildDies
    <3>3. QED
      BY <1>20, <3>1, <3>2
  <2>2. QED
    BY <2>1
<1>21. CASE SecondPasses
  <2>1. /\ young' \in BOOLEAN
        /\ UNCHANGED <<guard, callback, ioException, permits, interrupted,
                       fieldVars, callerVars, childVars, historyVars>>
    BY <1>21 DEF SecondPasses
  <2>2. QED
    BY <2>1
<1>22. CASE UNCHANGED vars
  BY <1>22
<1>23. QED
  BY <1>1, <1>2, <1>3, <1>4, <1>5, <1>6, <1>7, <1>8, <1>9, <1>10, <1>11, <1>12, <1>13, <1>14, <1>15, <1>16, <1>17, <1>18, <1>19, <1>20, <1>21, <1>22
  DEF Next, StartStep, GuardStep, ChildStep

(* A step keeps the latest child the only live one.                        *)
LEMMA LatestNext ==
  ASSUME TypeOK, LatestChild, ProcessAssigned, [Next]_vars
  PROVE  LatestChild'
<1> USE DEF TypeOK, LatestChild, ProcessAssigned, Alive,
       vars, threadVars, fieldVars, callerVars, childVars, historyVars
<1>1. CASE Start
  BY <1>1 DEF Start
<1>2. CASE StartAcquire
  BY <1>2 DEF StartAcquire
<1>3. CASE StartReturn
  BY <1>3 DEF StartReturn
<1>4. CASE StartInterrupted
  BY <1>4 DEF StartInterrupted
<1>5. CASE GuardLoop
  BY <1>5 DEF GuardLoop
<1>6. CASE GuardSpawn
  BY <1>6 DEF GuardSpawn
<1>7. CASE GuardSpawnFails
  BY <1>7 DEF GuardSpawnFails
<1>8. CASE GuardAssign
  BY <1>8 DEF GuardAssign
<1>9. CASE GuardCallback
  BY <1>9 DEF GuardCallback
<1>10. CASE GuardSleep
  BY <1>10 DEF GuardSleep
<1>11. CASE GuardSend
  BY <1>11 DEF GuardSend
<1>12. CASE GuardRelease
  BY <1>12 DEF GuardRelease
<1>13. CASE GuardWait
  BY <1>13 DEF GuardWait
<1>14. CASE GuardInterrupted
  BY <1>14 DEF GuardInterrupted
<1>15. CASE GuardCatch
  BY <1>15 DEF GuardCatch, Signal
<1>16. CASE GuardCheck
  BY <1>16 DEF GuardCheck
<1>17. CASE GuardFinally
  BY <1>17 DEF GuardFinally
<1>18. ASSUME NEW d \in Destroyers, DestroyStep(d) PROVE LatestChild'
  <2>1. CASE Destroy(d)
    BY <2>1 DEF Destroy
  <2>2. CASE DestroyInterrupt(d)
    BY <2>2 DEF DestroyInterrupt
  <2>3. CASE DestroySignal(d)
    BY <2>3 DEF DestroySignal, Signal
  <2>4. CASE DestroyJoin(d)
    BY <2>4 DEF DestroyJoin
  <2>5. CASE DestroyJoinInterrupted(d)
    BY <2>5 DEF DestroyJoinInterrupted
  <2>6. QED
    BY <1>18, <2>1, <2>2, <2>3, <2>4, <2>5 DEF DestroyStep
<1>19. ASSUME NEW r \in Restarters, RestartStep(r) PROVE LatestChild'
  <2>1. CASE Restart(r)
    BY <2>1 DEF Restart
  <2>2. CASE RestartSignal(r)
    BY <2>2 DEF RestartSignal, Signal
  <2>3. QED
    BY <1>19, <2>1, <2>2 DEF RestartStep
<1>20. ASSUME NEW c \in Alive, ChildExit(c) \/ ChildDies(c) PROVE LatestChild'
  BY <1>20 DEF ChildExit, ChildDies
<1>21. CASE SecondPasses
  BY <1>21 DEF SecondPasses
<1>22. CASE UNCHANGED vars
  BY <1>22
<1>23. QED
  BY <1>1, <1>2, <1>3, <1>4, <1>5, <1>6, <1>7, <1>8, <1>9, <1>10, <1>11, <1>12, <1>13, <1>14, <1>15, <1>16, <1>17, <1>18, <1>19, <1>20, <1>21, <1>22
  DEF Next, StartStep, GuardStep, ChildStep

(* A step keeps process assigned for all who will use it.                  *)
LEMMA AssignedNext ==
  ASSUME TypeOK, LatestChild, ProcessAssigned, [Next]_vars
  PROVE  ProcessAssigned'
<1> USE DEF TypeOK, LatestChild, ProcessAssigned, Alive,
       vars, threadVars, fieldVars, callerVars, childVars, historyVars
<1>1. CASE Start
  BY <1>1 DEF Start
<1>2. CASE StartAcquire
  BY <1>2 DEF StartAcquire
<1>3. CASE StartReturn
  BY <1>3 DEF StartReturn
<1>4. CASE StartInterrupted
  BY <1>4 DEF StartInterrupted
<1>5. CASE GuardLoop
  BY <1>5 DEF GuardLoop
<1>6. CASE GuardSpawn
  BY <1>6 DEF GuardSpawn
<1>7. CASE GuardSpawnFails
  BY <1>7 DEF GuardSpawnFails
<1>8. CASE GuardAssign
  BY <1>8 DEF GuardAssign
<1>9. CASE GuardCallback
  BY <1>9 DEF GuardCallback
<1>10. CASE GuardSleep
  BY <1>10 DEF GuardSleep
<1>11. CASE GuardSend
  BY <1>11 DEF GuardSend
<1>12. CASE GuardRelease
  BY <1>12 DEF GuardRelease
<1>13. CASE GuardWait
  BY <1>13 DEF GuardWait
<1>14. CASE GuardInterrupted
  BY <1>14 DEF GuardInterrupted
<1>15. CASE GuardCatch
  BY <1>15 DEF GuardCatch, Signal
<1>16. CASE GuardCheck
  BY <1>16 DEF GuardCheck
<1>17. CASE GuardFinally
  BY <1>17 DEF GuardFinally
<1>18. ASSUME NEW d \in Destroyers, DestroyStep(d) PROVE ProcessAssigned'
  <2>1. CASE Destroy(d)
    BY <2>1 DEF Destroy
  <2>2. CASE DestroyInterrupt(d)
    BY <2>2 DEF DestroyInterrupt
  <2>3. CASE DestroySignal(d)
    BY <2>3 DEF DestroySignal, Signal
  <2>4. CASE DestroyJoin(d)
    BY <2>4 DEF DestroyJoin
  <2>5. CASE DestroyJoinInterrupted(d)
    BY <2>5 DEF DestroyJoinInterrupted
  <2>6. QED
    BY <1>18, <2>1, <2>2, <2>3, <2>4, <2>5 DEF DestroyStep
<1>19. ASSUME NEW r \in Restarters, RestartStep(r) PROVE ProcessAssigned'
  <2>1. CASE Restart(r)
    BY <2>1 DEF Restart
  <2>2. CASE RestartSignal(r)
    BY <2>2 DEF RestartSignal, Signal
  <2>3. QED
    BY <1>19, <2>1, <2>2 DEF RestartStep
<1>20. ASSUME NEW c \in Alive, ChildExit(c) \/ ChildDies(c) PROVE ProcessAssigned'
  BY <1>20 DEF ChildExit, ChildDies
<1>21. CASE SecondPasses
  BY <1>21 DEF SecondPasses
<1>22. CASE UNCHANGED vars
  BY <1>22
<1>23. QED
  BY <1>1, <1>2, <1>3, <1>4, <1>5, <1>6, <1>7, <1>8, <1>9, <1>10, <1>11, <1>12, <1>13, <1>14, <1>15, <1>16, <1>17, <1>18, <1>19, <1>20, <1>21, <1>22
  DEF Next, StartStep, GuardStep, ChildStep

(* A step launches only what is paid for.                                  *)
LEMMA PaidNext ==
  ASSUME TypeOK, ProcessAssigned, LaunchesPaid, [Next]_vars
  PROVE  LaunchesPaid'
<1> USE DEF TypeOK, ProcessAssigned, LaunchesPaid, Pending, Unused,
       vars, threadVars, fieldVars, callerVars, childVars, historyVars
<1>1. CASE Start
  BY <1>1 DEF Start
<1>2. CASE StartAcquire
  BY <1>2 DEF StartAcquire
<1>3. CASE StartReturn
  BY <1>3 DEF StartReturn
<1>4. CASE StartInterrupted
  BY <1>4 DEF StartInterrupted
<1>5. CASE GuardLoop
  BY <1>5 DEF GuardLoop
<1>6. CASE GuardSpawn
  BY <1>6 DEF GuardSpawn
<1>7. CASE GuardSpawnFails
  BY <1>7 DEF GuardSpawnFails
<1>8. CASE GuardAssign
  BY <1>8 DEF GuardAssign
<1>9. CASE GuardCallback
  BY <1>9 DEF GuardCallback
<1>10. CASE GuardSleep
  BY <1>10 DEF GuardSleep
<1>11. CASE GuardSend
  BY <1>11 DEF GuardSend
<1>12. CASE GuardRelease
  BY <1>12 DEF GuardRelease
<1>13. CASE GuardWait
  BY <1>13 DEF GuardWait
<1>14. CASE GuardInterrupted
  BY <1>14 DEF GuardInterrupted
<1>15. CASE GuardCatch
  BY <1>15 DEF GuardCatch, Signal
<1>16. CASE GuardCheck
  BY <1>16 DEF GuardCheck
<1>17. CASE GuardFinally
  BY <1>17 DEF GuardFinally
<1>18. ASSUME NEW d \in Destroyers, DestroyStep(d) PROVE LaunchesPaid'
  <2>1. CASE Destroy(d)
    BY <2>1 DEF Destroy
  <2>2. CASE DestroyInterrupt(d)
    BY <2>2 DEF DestroyInterrupt
  <2>3. CASE DestroySignal(d)
    BY <2>3 DEF DestroySignal, Signal
  <2>4. CASE DestroyJoin(d)
    BY <2>4 DEF DestroyJoin
  <2>5. CASE DestroyJoinInterrupted(d)
    BY <2>5 DEF DestroyJoinInterrupted
  <2>6. QED
    BY <1>18, <2>1, <2>2, <2>3, <2>4, <2>5 DEF DestroyStep
<1>19. ASSUME NEW r \in Restarters, RestartStep(r) PROVE LaunchesPaid'
  <2>1. CASE Restart(r)
    BY <2>1 DEF Restart
  <2>2. CASE RestartSignal(r)
    BY <2>2 DEF RestartSignal, Signal
  <2>3. QED
    BY <1>19, <2>1, <2>2 DEF RestartStep
<1>20. ASSUME NEW c \in Alive, ChildExit(c) \/ ChildDies(c) PROVE LaunchesPaid'
  BY <1>20 DEF ChildExit, ChildDies
<1>21. CASE SecondPasses
  BY <1>21 DEF SecondPasses
<1>22. CASE UNCHANGED vars
  BY <1>22
<1>23. QED
  BY <1>1, <1>2, <1>3, <1>4, <1>5, <1>6, <1>7, <1>8, <1>9, <1>10, <1>11, <1>12, <1>13, <1>14, <1>15, <1>16, <1>17, <1>18, <1>19, <1>20, <1>21, <1>22
  DEF Next, StartStep, GuardStep, ChildStep

(* A step keeps the restart flag up for a child that restart() killed.     *)
LEMMA FlaggedNext ==
  ASSUME TypeOK, LatestChild, ProcessAssigned, RestartFlagged, [Next]_vars
  PROVE  RestartFlagged'
<1> USE DEF TypeOK, LatestChild, ProcessAssigned, RestartFlagged, Alive,
       vars, threadVars, fieldVars, callerVars, childVars, historyVars
<1>1. CASE Start
  BY <1>1 DEF Start
<1>2. CASE StartAcquire
  BY <1>2 DEF StartAcquire
<1>3. CASE StartReturn
  BY <1>3 DEF StartReturn
<1>4. CASE StartInterrupted
  BY <1>4 DEF StartInterrupted
<1>5. CASE GuardLoop
  BY <1>5 DEF GuardLoop
<1>6. CASE GuardSpawn
  BY <1>6 DEF GuardSpawn
<1>7. CASE GuardSpawnFails
  BY <1>7 DEF GuardSpawnFails
<1>8. CASE GuardAssign
  BY <1>8 DEF GuardAssign
<1>9. CASE GuardCallback
  BY <1>9 DEF GuardCallback
<1>10. CASE GuardSleep
  BY <1>10 DEF GuardSleep
<1>11. CASE GuardSend
  BY <1>11 DEF GuardSend
<1>12. CASE GuardRelease
  BY <1>12 DEF GuardRelease
<1>13. CASE GuardWait
  BY <1>13 DEF GuardWait
<1>14. CASE GuardInterrupted
  BY <1>14 DEF GuardInterrupted
<1>15. CASE GuardCatch
  BY <1>15 DEF GuardCatch, Signal
<1>16. CASE GuardCheck
  BY <1>16 DEF GuardCheck
<1>17. CASE GuardFinally
  BY <1>17 DEF GuardFinally
<1>18. ASSUME NEW d \in Destroyers, DestroyStep(d) PROVE RestartFlagged'
  <2>1. CASE Destroy(d)
    BY <2>1 DEF Destroy
  <2>2. CASE DestroyInterrupt(d)
    BY <2>2 DEF DestroyInterrupt
  <2>3. CASE DestroySignal(d)
    BY <2>3 DEF DestroySignal, Signal
  <2>4. CASE DestroyJoin(d)
    BY <2>4 DEF DestroyJoin
  <2>5. CASE DestroyJoinInterrupted(d)
    BY <2>5 DEF DestroyJoinInterrupted
  <2>6. QED
    BY <1>18, <2>1, <2>2, <2>3, <2>4, <2>5 DEF DestroyStep
<1>19. ASSUME NEW r \in Restarters, RestartStep(r) PROVE RestartFlagged'
  <2>1. CASE Restart(r)
    BY <2>1 DEF Restart
  <2>2. CASE RestartSignal(r)
    <3>1. /\ isRestart /\ monitor' = NoThread /\ isRestart' = isRestart
          /\ guard' = guard /\ spawned' = spawned /\ gaveUp' = gaveUp
          /\ restartKills' = restartKills \cup ({process} \cap running)
      BY <2>2, CallersAssumption DEF RestartSignal
    <3>2. running' \cup dying' \subseteq running \cup dying
      BY <2>2 DEF RestartSignal, Signal
    <3>3. gaveUp \cap restartKills' = {}
      BY <3>1
    <3>4. \A c \in restartKills' \cup gaveUp' : c <= spawned'
      BY <3>1
    <3>5. QED
      BY <3>1, <3>2, <3>3, <3>4
  <2>3. QED
    BY <1>19, <2>1, <2>2 DEF RestartStep
<1>20. ASSUME NEW c \in Alive, ChildExit(c) \/ ChildDies(c) PROVE RestartFlagged'
  BY <1>20 DEF ChildExit, ChildDies
<1>21. CASE SecondPasses
  BY <1>21 DEF SecondPasses
<1>22. CASE UNCHANGED vars
  BY <1>22
<1>23. QED
  BY <1>1, <1>2, <1>3, <1>4, <1>5, <1>6, <1>7, <1>8, <1>9, <1>10, <1>11, <1>12, <1>13, <1>14, <1>15, <1>16, <1>17, <1>18, <1>19, <1>20, <1>21, <1>22
  DEF Next, StartStep, GuardStep, ChildStep

(* A step keeps the inductive invariant, part by part.                     *)
LEMMA NextIInv == IInv /\ [Next]_vars => IInv'
  BY TypeNext, LatestNext, AssignedNext, PaidNext, FlaggedNext DEF IInv

(* In every reachable state the inductive invariant holds, and with it the *)
(* types of all variables.                                                 *)
THEOREM SpecIInv == Spec => []IInv
  BY InitIInv, NextIInv, PTL DEF Spec

(* A guard never has two children, however its threads interleave.         *)
THEOREM SpecOneChild == Spec => []OneChild
<1>1. IInv => OneChild
  BY DEF IInv, LatestChild, OneChild, Alive
<1>2. QED
  BY <1>1, SpecIInv, PTL

(* When a destroy() has joined the guard thread, no child runs.            *)
THEOREM SpecDestroyedLeavesNothing == Spec => []DestroyedLeavesNothing
<1>1. IInv => DestroyedLeavesNothing
  BY DEF IInv, LatestChild, DestroyedLeavesNothing
<1>2. QED
  BY <1>1, SpecIInv, PTL

(* A start() that throws leaves no child behind.                           *)
THEOREM SpecFailedStartLeavesNothing == Spec => []FailedStartLeavesNothing
<1>1. IInv => FailedStartLeavesNothing
  BY DEF IInv, ProcessAssigned, FailedStartLeavesNothing
<1>2. QED
  BY <1>1, SpecIInv, PTL

(* Whoever got the object from start() finds a process in it.              *)
THEOREM SpecNoNullProcess == Spec => []NoNullProcess
<1>1. IInv => NoNullProcess
  BY DEF IInv, ProcessAssigned, NoNullProcess, NoProcess
<1>2. QED
  BY <1>1, SpecIInv, PTL

(* Every launch after the first is paid for by a restart() or a slow exit. *)
THEOREM SpecNoCrashLoop == Spec => []NoCrashLoop
<1>1. IInv => NoCrashLoop
  BY DEF IInv, TypeOK, LaunchesPaid, Pending, Unused, NoCrashLoop
<1>2. QED
  BY <1>1, SpecIInv, PTL

(* The guard never gives up because of a child that restart() killed.      *)
THEOREM SpecRestartIsNoCrash == Spec => []RestartIsNoCrash
<1>1. IInv => RestartIsNoCrash
  BY DEF IInv, RestartFlagged, RestartIsNoCrash
<1>2. QED
  BY <1>1, SpecIInv, PTL

-----------------------------------------------------------------------------
(* The refinement: every step of the threads is a step of ProcessGuard, or *)
(* changes nothing of what the owner of a guard can see.                   *)

(* The initial states are initial states of the abstract guard.            *)
LEMMA InitRefines == Init => Guard!Init
  BY DEF Init, Guard!Init, phaseBar, childBar

(* What the owner sees of the child depends on running and dying alone.    *)
LEMMA SameChild ==
  ASSUME running' = running, dying' = dying
  PROVE  childBar' = childBar
  BY DEF childBar

(* A signal is the Kill of ProcessGuard, or finds no child that runs.      *)
LEMMA SignalKills ==
  ASSUME LatestChild, NEW c, Signal(c)
  PROVE  childBar' = childBar \/ (childBar = "running" /\ childBar' = "dying")
<1>1. CASE c \in running
  <2>1. running' = {} /\ dying' # {} /\ running # {}
    BY <1>1 DEF LatestChild, Alive, Signal
  <2>2. QED
    BY <2>1 DEF childBar
<1>2. CASE c \notin running
  <2>1. running' = running /\ dying' = dying
    BY <1>2 DEF Signal
  <2>2. QED
    BY <2>1, SameChild
<1>3. QED
  BY <1>1, <1>2

(* A step is a step of the abstract guard or leaves it as it is.           *)
LEMMA NextRefines == IInv /\ [Next]_vars => [Guard!Next]_(Guard!vars)
<1> SUFFICES ASSUME IInv, [Next]_vars PROVE [Guard!Next]_(Guard!vars)
  OBVIOUS
<1> USE DEF IInv, LatestChild, ProcessAssigned, Alive,
       vars, threadVars, fieldVars, callerVars, childVars, historyVars
<1>1. CASE StartStep
  BY <1>1 DEF StartStep, Start, StartAcquire, StartReturn, StartInterrupted, phaseBar, childBar,
     Guard!Next, Guard!vars, Guard!Start, Guard!Started, Guard!Failed, Guard!Abandoned
<1>2. CASE GuardStep
  <2>1. CASE GuardSpawn
    <3>1. phaseBar \in {"starting", "up", "abandoned"} /\ phaseBar' = phaseBar
      BY <2>1 DEF GuardSpawn, TypeOK, phaseBar
    <3>2. childBar = "none" /\ childBar' = "running"
      BY <2>1 DEF GuardSpawn, childBar
    <3>3. QED
      BY <3>1, <3>2 DEF Guard!Next, Guard!Launch
  <2>2. CASE GuardCatch
    BY <2>2 DEF GuardCatch, Signal, phaseBar, childBar, Guard!Next, Guard!vars, Guard!Kill
  <2>3. CASE ~GuardSpawn /\ ~GuardCatch
    <3>1. UNCHANGED <<starter, destroyer, running, dying>>
      BY <1>2, <2>3 DEF GuardStep, GuardLoop, GuardSpawnFails, GuardAssign, GuardCallback, GuardSleep,
         GuardSend, GuardRelease, GuardWait, GuardInterrupted, GuardCheck, GuardFinally
    <3>2. QED
      BY <3>1 DEF phaseBar, childBar, Guard!vars
  <2>4. QED
    BY <2>1, <2>2, <2>3
<1>3. ASSUME NEW d \in Destroyers, DestroyStep(d) PROVE [Guard!Next]_(Guard!vars)
  <2>1. CASE DestroyJoin(d)
    <3>1. phaseBar' = "closed" /\ phaseBar \in {"up", "closed"}
      BY <2>1 DEF DestroyJoin, TypeOK, phaseBar
    <3>2. childBar # "running" /\ childBar' = childBar
      BY <2>1 DEF DestroyJoin, childBar
    <3>3. QED
      BY <3>1, <3>2 DEF Guard!Next, Guard!Close, Guard!vars
  <2>2. CASE ~DestroyJoin(d)
    <3>1. phaseBar' = phaseBar
      BY <1>3, <2>2 DEF DestroyStep, Destroy, DestroyInterrupt, DestroySignal, DestroyJoinInterrupted,
         TypeOK, phaseBar
    <3>2. childBar' = childBar \/ (childBar = "running" /\ childBar' = "dying")
      <4>1. CASE DestroySignal(d)
        BY <4>1, SignalKills DEF DestroySignal
      <4>2. CASE ~DestroySignal(d)
        <5>1. running' = running /\ dying' = dying
          BY <1>3, <2>2, <4>2 DEF DestroyStep, Destroy, DestroyInterrupt, DestroyJoinInterrupted
        <5>2. QED
          BY <5>1, SameChild
      <4>3. QED
        BY <4>1, <4>2
    <3>3. QED
      BY <3>1, <3>2 DEF Guard!Next, Guard!Kill, Guard!vars
  <2>3. QED
    BY <2>1, <2>2
<1>4. ASSUME NEW r \in Restarters, RestartStep(r) PROVE [Guard!Next]_(Guard!vars)
  <2>1. phaseBar' = phaseBar
    BY <1>4 DEF RestartStep, Restart, RestartSignal, phaseBar
  <2>2. childBar' = childBar \/ (childBar = "running" /\ childBar' = "dying")
    <3>1. CASE RestartSignal(r)
      BY <3>1, SignalKills DEF RestartSignal
    <3>2. CASE Restart(r)
      BY <3>2, SameChild DEF Restart
    <3>3. QED
      BY <1>4, <3>1, <3>2 DEF RestartStep
  <2>3. QED
    BY <2>1, <2>2 DEF Guard!Next, Guard!Kill, Guard!vars
<1>5. ASSUME NEW c \in Alive, ChildExit(c) \/ ChildDies(c) PROVE [Guard!Next]_(Guard!vars)
  <2>1. phaseBar' = phaseBar
    BY <1>5 DEF ChildExit, ChildDies, phaseBar
  <2>2. CASE ChildExit(c)
    <3>1. running # {} /\ running' = {} /\ dying' = {}
      BY <2>2 DEF ChildExit
    <3>2. QED
      BY <2>1, <3>1 DEF childBar, Guard!Next, Guard!Exit
  <2>3. CASE ChildDies(c)
    BY <2>1, <2>3 DEF ChildDies, childBar, Guard!Next, Guard!Dies, Guard!vars
  <2>4. QED
    BY <1>5, <2>2, <2>3
<1>6. CASE SecondPasses \/ UNCHANGED vars
  BY <1>6 DEF SecondPasses, phaseBar, childBar, Guard!vars
<1>7. QED
  BY <1>1, <1>2, <1>3, <1>4, <1>5, <1>6 DEF Next, ChildStep

(* GuardedProcess implements ProcessGuard.                                 *)
THEOREM SpecImplements == Spec => Implements
  BY InitRefines, NextRefines, SpecIInv, PTL DEF Spec, Implements, Guard!Spec

=============================================================================
