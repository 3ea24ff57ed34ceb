--------------------------- MODULE GuardedProcess ---------------------------
(***************************************************************************)
(* One instance of the class GuardedProcess                                *)
(* (src/src/main/scala/com/github/shadowsocks/GuardedProcess.scala): a     *)
(* guard thread that launches a native executable (ss-local, pdnsd,        *)
(* tun2socks, redsocks), waits for it, and launches it again until it is   *)
(* destroyed or until the executable exits too fast.                       *)
(*                                                                         *)
(* The threads are the guard thread, the one thread that calls start(),    *)
(* the threads that call destroy() and the threads that call restart().    *)
(* Nobody holds a reference to the object before start() has returned, so  *)
(* destroy() and restart() begin only then.                                *)
(*                                                                         *)
(* A step is one access to state other threads can see.  The children are  *)
(* numbered 1, 2, ... in the order in which they are launched.  Outside    *)
(* the class are the operating system (a signalled child dies in the end)  *)
(* and the threads of the callers, which other code may interrupt          *)
(* (ProfileManagerActivity.scala:1128).                                    *)
(***************************************************************************)
EXTENDS Integers, FiniteSets

CONSTANTS
  Destroyers,    (* threads that call destroy(), once each                *)
  Restarters,    (* threads that call restart(), any number of times      *)
  Interruptible, (* the callers that other code may interrupt             *)
  Starter,       (* the thread that calls start()                         *)
  HasCallback,   (* start() was given a callback: sendFd, for tun2socks   *)
  NoThread,      (* the monitor of the object is free                     *)
  MaxRestarts,   (* bound: calls of restart()                             *)
  MaxExits       (* bound: children that end without being signalled      *)

ASSUME CallersAssumption ==
  /\ NoThread \notin Restarters
  /\ HasCallback \in BOOLEAN

ASSUME BoundsAssumption ==
  /\ MaxRestarts \in Nat
  /\ MaxExits \in Nat

VARIABLES
  guard,        (* where the guard thread is                              *)
  isDestroyed, isRestart, process,     (* the fields of the object        *)
  callback,     (* the local variable callback is not null                *)
  ioException,  (* the local variable ioException is not null             *)
  permits,      (* of the semaphore of start()                            *)
  interrupted,  (* the interrupt flag of the guard thread                 *)
  young,        (* less than 1000 ms since startTime                      *)
  monitor,      (* the thread in a synchronized block of restart()        *)
  starter,      (* where the caller of start() is                         *)
  destroyer,    (* where each caller of destroy() is                      *)
  spawned,      (* number of children launched so far                     *)
  running,      (* children that run and were never signalled             *)
  dying,        (* children that were signalled and have not exited       *)
  restarts,     (* history: calls of restart()                            *)
  exits,        (* history: children that ended on their own              *)
  slowExits,    (* history: exits the guard answered as slow              *)
  restartKills, (* history: children signalled by restart()               *)
  gaveUp        (* history: children whose fast exit stopped the guard    *)

threadVars  == <<guard, callback, ioException, permits, interrupted, young>>
fieldVars   == <<isDestroyed, isRestart, process>>
callerVars  == <<monitor, starter, destroyer>>
childVars   == <<spawned, running, dying>>
historyVars == <<restarts, exits, slowExits, restartKills, gaveUp>>
vars == <<threadVars, fieldVars, callerVars, childVars, historyVars>>

NoProcess == 0
Alive == running \cup dying

(* process.destroy(): a signal, which does nothing to a child that exited. *)
Signal(c) ==
  /\ running' = running \ {c}
  /\ dying'   = dying \cup ({c} \cap running)

Init ==
  /\ guard = "new"
  /\ isDestroyed = FALSE /\ isRestart = FALSE /\ process = NoProcess
  /\ callback = FALSE /\ ioException = FALSE /\ permits = 0
  /\ interrupted = FALSE /\ young = FALSE
  /\ monitor = NoThread
  /\ starter = "idle" /\ destroyer = [d \in Destroyers |-> "idle"]
  /\ spawned = 0 /\ running = {} /\ dying = {}
  /\ restarts = 0 /\ exits = 0 /\ slowExits = 0
  /\ restartKills = {} /\ gaveUp = {}

-----------------------------------------------------------------------------
(* The caller of start().                                                  *)

(* Mutation: start() does not take the permit of the semaphore first.      *)
StartWithPermit ==
  /\ starter = "idle" /\ starter' = "acquire"
  /\ guard' = "loop" /\ permits' = 1
  /\ UNCHANGED <<callback, ioException, interrupted, young, fieldVars, monitor,
                 destroyer, childVars, historyVars>>

(* semaphore = new Semaphore(1); acquire; guardThread = new Thread; start  *)
Start ==
  /\ starter = "idle"
  /\ starter' = "acquire"
  /\ guard' = "loop"
  /\ UNCHANGED <<callback, ioException, permits, interrupted, young, fieldVars,
                 monitor, destroyer, childVars, historyVars>>

StartAcquire ==
  /\ starter = "acquire" /\ permits > 0
  /\ permits' = permits - 1
  /\ starter' = "check"
  /\ UNCHANGED <<guard, callback, ioException, interrupted, young, fieldVars,
                 monitor, destroyer, childVars, historyVars>>

(* if (ioException != null) throw ioException; this                        *)
StartReturn ==
  /\ starter = "check"
  /\ starter' = IF ioException THEN "failed" ELSE "started"
  /\ UNCHANGED <<threadVars, fieldVars, monitor, destroyer, childVars, historyVars>>

(* semaphore.acquire throws InterruptedException: start() fails, and the   *)
(* guard thread goes on without anybody holding a reference to the object. *)
StartInterrupted ==
  /\ starter = "acquire" /\ Starter \in Interruptible
  /\ starter' = "abandoned"
  /\ UNCHANGED <<threadVars, fieldVars, monitor, destroyer, childVars, historyVars>>

-----------------------------------------------------------------------------
(* The guard thread.                                                       *)

(* while (!isDestroyed) ... startTime = currentTimeMillis                  *)
GuardLoop ==
  /\ guard = "loop"
  /\ guard' = IF isDestroyed THEN "finally" ELSE "spawn"
  /\ young' = IF isDestroyed THEN young ELSE TRUE
  /\ UNCHANGED <<callback, ioException, permits, interrupted, fieldVars,
                 callerVars, childVars, historyVars>>

(* The child runs before the field process refers to it.                   *)
GuardSpawn ==
  /\ guard = "spawn"
  /\ spawned' = spawned + 1
  /\ running' = running \cup {spawned + 1}
  /\ guard' = "assign"
  /\ UNCHANGED <<callback, ioException, permits, interrupted, young, fieldVars,
                 callerVars, dying, historyVars>>

(* Mutation: the loop goes on after an IOException.                        *)
GuardSpawnRetries ==
  /\ guard = "spawn" /\ guard' = "loop" /\ ioException' = TRUE
  /\ UNCHANGED <<callback, permits, interrupted, young, fieldVars, callerVars,
                 childVars, historyVars>>

(* ProcessBuilder.start throws: catch { case e: IOException => ... }       *)
GuardSpawnFails ==
  /\ guard = "spawn"
  /\ ioException' = TRUE
  /\ guard' = "finally"
  /\ UNCHANGED <<callback, permits, interrupted, young, fieldVars, callerVars,
                 childVars, historyVars>>

GuardAssign ==
  /\ guard = "assign"
  /\ process' = spawned
  /\ guard' = "callback"
  /\ UNCHANGED <<callback, ioException, permits, interrupted, young, isDestroyed,
                 isRestart, callerVars, childVars, historyVars>>

(* if (callback == null) callback = onRestartCallback else callback()      *)
GuardCallback ==
  /\ guard = "callback"
  /\ callback' = HasCallback
  /\ guard' = IF callback THEN "sleep" ELSE "release"
  /\ UNCHANGED <<ioException, permits, interrupted, young, fieldVars,
                 callerVars, childVars, historyVars>>

(* sendFd: Thread.sleep throws if the thread is interrupted, otherwise the *)
(* descriptor is sent; after a failure it sleeps again, up to four times.  *)
GuardSleep ==
  /\ guard = "sleep" /\ ~interrupted
  /\ guard' = "send"
  /\ UNCHANGED <<callback, ioException, permits, interrupted, young, fieldVars,
                 callerVars, childVars, historyVars>>

GuardSend ==
  /\ guard = "send"
  /\ guard' \in {"sleep", "release"}
  /\ UNCHANGED <<callback, ioException, permits, interrupted, young, fieldVars,
                 callerVars, childVars, historyVars>>

GuardRelease ==
  /\ guard = "release"
  /\ permits' = permits + 1
  /\ guard' = "wait"
  /\ UNCHANGED <<callback, ioException, interrupted, young, fieldVars,
                 callerVars, childVars, historyVars>>

(* Mutation: a signalled child counts as one that has exited.              *)
GuardWaitNot ==
  /\ guard = "wait" /\ process \notin running /\ guard' = "check"
  /\ UNCHANGED <<callback, ioException, permits, interrupted, young, fieldVars,
                 callerVars, childVars, historyVars>>

(* process.waitFor returns once the child has exited ...                   *)
GuardWait ==
  /\ guard = "wait" /\ process \notin Alive
  /\ guard' = "check"
  /\ UNCHANGED <<callback, ioException, permits, interrupted, young, fieldVars,
                 callerVars, childVars, historyVars>>

(* ... and it throws, as does Thread.sleep, when the thread is interrupted *)
GuardInterrupted ==
  /\ guard \in {"sleep", "wait"} /\ interrupted
  /\ interrupted' = FALSE
  /\ guard' = "caught"
  /\ UNCHANGED <<callback, ioException, permits, young, fieldVars, callerVars,
                 childVars, historyVars>>

(* Mutation: the handler of the interrupt leaves the child alone.          *)
GuardCatchOnly ==
  /\ guard = "caught" /\ guard' = "finally"
  /\ UNCHANGED <<callback, ioException, permits, interrupted, young, fieldVars,
                 callerVars, childVars, historyVars>>

(* catch { case ignored: InterruptedException => ... process.destroy() }   *)
GuardCatch ==
  /\ guard = "caught"
  /\ Signal(process)
  /\ guard' = "finally"
  /\ UNCHANGED <<callback, ioException, permits, interrupted, young, fieldVars,
                 callerVars, spawned, historyVars>>

(* Mutations: the restart flag is not lowered; the fast exit is tested     *)
(* before the restart flag; a restart ends the loop.                       *)
GuardCheckKeepsFlag ==
  /\ guard = "check" /\ monitor = NoThread /\ guard' = "loop"
  /\ isDestroyed' = (isDestroyed \/ (~isRestart /\ young))
  /\ slowExits' = IF ~isRestart /\ ~young THEN slowExits + 1 ELSE slowExits
  /\ UNCHANGED <<callback, ioException, permits, interrupted, young, isRestart, process,
                 callerVars, childVars, restarts, exits, restartKills, gaveUp>>

GuardCheckYoungFirst ==
  /\ guard = "check" /\ monitor = NoThread /\ guard' = "loop"
  /\ isRestart' = FALSE /\ isDestroyed' = (isDestroyed \/ young)
  /\ gaveUp' = IF young THEN gaveUp \cup {process} ELSE gaveUp
  /\ UNCHANGED <<callback, ioException, permits, interrupted, young, process,
                 callerVars, childVars, restarts, exits, slowExits, restartKills>>

GuardCheckBreaks ==
  /\ guard = "check" /\ monitor = NoThread
  /\ guard' = IF isRestart THEN "finally" ELSE "loop"
  /\ isRestart' = FALSE /\ isDestroyed' = (isDestroyed \/ (~isRestart /\ young))
  /\ UNCHANGED <<callback, ioException, permits, interrupted, young, process,
                 callerVars, childVars, historyVars>>

(* this.synchronized { if (isRestart) ... else if (... < 1000) ... }       *)
GuardCheck ==
  /\ guard = "check" /\ monitor = NoThread
  /\ guard' = "loop"
  /\ isRestart' = FALSE
  /\ \/ /\ isRestart
        /\ UNCHANGED <<isDestroyed, slowExits, gaveUp>>
     \/ /\ ~isRestart /\ young
        /\ isDestroyed' = TRUE
        /\ gaveUp' = gaveUp \cup {process}
        /\ UNCHANGED slowExits
     \/ /\ ~isRestart /\ ~young
        /\ slowExits' = slowExits + 1
        /\ UNCHANGED <<isDestroyed, gaveUp>>
  /\ UNCHANGED <<callback, ioException, permits, interrupted, young, process,
                 callerVars, childVars, restarts, exits, restartKills>>

(* Mutation: the permit is not released when the guard thread ends.        *)
GuardEnds ==
  /\ guard = "finally" /\ guard' = "dead"
  /\ UNCHANGED <<callback, ioException, permits, interrupted, young, fieldVars,
                 callerVars, childVars, historyVars>>

(* finally semaphore.release, and the thread ends.                         *)
GuardFinally ==
  /\ guard = "finally"
  /\ permits' = permits + 1
  /\ guard' = "dead"
  /\ UNCHANGED <<callback, ioException, interrupted, young, fieldVars,
                 callerVars, childVars, historyVars>>

-----------------------------------------------------------------------------
(* destroy()                                                               *)

Destroy(d) ==
  /\ starter = "started" /\ destroyer[d] = "idle"
  /\ isDestroyed' = TRUE
  /\ destroyer' = [destroyer EXCEPT ![d] = "interrupt"]
  /\ UNCHANGED <<threadVars, isRestart, process, monitor, starter, childVars, historyVars>>

(* Mutation: destroy() does not interrupt the guard thread.                *)
DestroySkipsInterrupt(d) ==
  /\ destroyer[d] = "interrupt"
  /\ destroyer' = [destroyer EXCEPT ![d] = "signal"]
  /\ UNCHANGED <<threadVars, fieldVars, monitor, starter, childVars, historyVars>>

(* guardThread.interrupt() has no effect on a thread that has ended.       *)
DestroyInterrupt(d) ==
  /\ destroyer[d] = "interrupt"
  /\ interrupted' = (interrupted \/ guard # "dead")
  /\ destroyer' = [destroyer EXCEPT ![d] = "signal"]
  /\ UNCHANGED <<guard, callback, ioException, permits, young, fieldVars,
                 monitor, starter, childVars, historyVars>>

DestroySignal(d) ==
  /\ destroyer[d] = "signal"
  /\ Signal(process)
  /\ destroyer' = [destroyer EXCEPT ![d] = "join"]
  /\ UNCHANGED <<threadVars, fieldVars, monitor, starter, spawned, historyVars>>

(* Mutation: destroy() does not join the guard thread.                     *)
DestroyNoJoin(d) ==
  /\ destroyer[d] = "join"
  /\ destroyer' = [destroyer EXCEPT ![d] = "done"]
  /\ UNCHANGED <<threadVars, fieldVars, monitor, starter, childVars, historyVars>>

DestroyJoin(d) ==
  /\ destroyer[d] = "join" /\ guard = "dead"
  /\ destroyer' = [destroyer EXCEPT ![d] = "done"]
  /\ UNCHANGED <<threadVars, fieldVars, monitor, starter, childVars, historyVars>>

(* try guardThread.join() catch { case ignored: InterruptedException => }  *)
DestroyJoinInterrupted(d) ==
  /\ destroyer[d] = "join" /\ d \in Interruptible
  /\ destroyer' = [destroyer EXCEPT ![d] = "returned"]
  /\ UNCHANGED <<threadVars, fieldVars, monitor, starter, childVars, historyVars>>

-----------------------------------------------------------------------------
(* restart(): this.synchronized { isRestart = true; process.destroy() }    *)

(* Mutation: restart() kills the child without raising the flag.           *)
RestartNoFlag(r) ==
  /\ starter = "started" /\ monitor = NoThread /\ restarts < MaxRestarts
  /\ monitor' = r /\ restarts' = restarts + 1
  /\ UNCHANGED <<threadVars, fieldVars, starter, destroyer, childVars, exits,
                 slowExits, restartKills, gaveUp>>

Restart(r) ==
  /\ starter = "started" /\ monitor = NoThread
  /\ restarts < MaxRestarts
  /\ monitor' = r
  /\ isRestart' = TRUE
  /\ restarts' = restarts + 1
  /\ UNCHANGED <<threadVars, isDestroyed, process, starter, destroyer, childVars,
                 exits, slowExits, restartKills, gaveUp>>

RestartSignal(r) ==
  /\ monitor = r
  /\ Signal(process)
  /\ restartKills' = restartKills \cup ({process} \cap running)
  /\ monitor' = NoThread
  /\ UNCHANGED <<threadVars, fieldVars, starter, destroyer, spawned,
                 restarts, exits, slowExits, gaveUp>>

-----------------------------------------------------------------------------
(* The environment.                                                        *)

(* A child ends on its own: it fails, or it is killed for its memory.      *)
ChildExit(c) ==
  /\ c \in running /\ exits < MaxExits
  /\ running' = running \ {c}
  /\ exits' = exits + 1
  /\ UNCHANGED <<threadVars, fieldVars, callerVars, spawned, dying, restarts,
                 slowExits, restartKills, gaveUp>>

ChildDies(c) ==
  /\ c \in dying
  /\ dying' = dying \ {c}
  /\ UNCHANGED <<threadVars, fieldVars, callerVars, spawned, running, historyVars>>

(* A second has gone by since startTime.                                   *)
SecondPasses ==
  /\ young
  /\ young' = FALSE
  /\ UNCHANGED <<guard, callback, ioException, permits, interrupted, fieldVars,
                 callerVars, childVars, historyVars>>

-----------------------------------------------------------------------------
GuardStep ==
  \/ GuardLoop \/ GuardSpawn \/ GuardSpawnFails \/ GuardAssign \/ GuardCallback
  \/ GuardSleep \/ GuardSend \/ GuardRelease \/ GuardWait \/ GuardInterrupted
  \/ GuardCatch \/ GuardCheck \/ GuardFinally

StartStep == Start \/ StartAcquire \/ StartReturn \/ StartInterrupted

DestroyStep(d) ==
  \/ Destroy(d) \/ DestroyInterrupt(d) \/ DestroySignal(d)
  \/ DestroyJoin(d) \/ DestroyJoinInterrupted(d)

RestartStep(r) == Restart(r) \/ RestartSignal(r)

ChildStep == \E c \in Alive : ChildExit(c) \/ ChildDies(c)

Next ==
  \/ StartStep
  \/ GuardStep
  \/ \E d \in Destroyers : DestroyStep(d)
  \/ \E r \in Restarters : RestartStep(r)
  \/ ChildStep
  \/ SecondPasses

Spec == Init /\ [][Next]_vars

(* Every thread that can go on does so, whatever the others do, and a      *)
(* signalled child dies.  sendFd gives up after four attempts, hence the   *)
(* strong fairness of leaving it.  Nobody is obliged to call destroy() or  *)
(* restart(), no child is obliged to end, and no second to pass.           *)
Fairness ==
  /\ WF_vars(GuardStep)
  /\ SF_vars(GuardSend /\ guard' = "release")
  /\ WF_vars(StartAcquire \/ StartReturn)
  /\ \A d \in Destroyers :
       WF_vars(DestroyInterrupt(d) \/ DestroySignal(d) \/ DestroyJoin(d))
  /\ \A r \in Restarters : WF_vars(RestartSignal(r))
  /\ WF_vars(\E c \in dying : ChildDies(c))

FairSpec == Spec /\ Fairness

-----------------------------------------------------------------------------
(* Properties.                                                             *)

GuardPlaces ==
  {"new", "loop", "spawn", "assign", "callback", "sleep", "send", "release",
   "wait", "caught", "check", "finally", "dead"}

(* Every variable has a value of its type.                                 *)
TypeOK ==
  /\ guard \in GuardPlaces
  /\ isDestroyed \in BOOLEAN /\ isRestart \in BOOLEAN
  /\ callback \in BOOLEAN /\ ioException \in BOOLEAN
  /\ interrupted \in BOOLEAN /\ young \in BOOLEAN
  /\ permits \in Nat
  /\ monitor \in Restarters \cup {NoThread}
  /\ starter \in {"idle", "acquire", "check", "started", "failed", "abandoned"}
  /\ destroyer \in [Destroyers -> {"idle", "interrupt", "signal", "join", "done", "returned"}]
  /\ spawned \in Nat /\ process \in Nat
  /\ running \subseteq Nat /\ dying \subseteq Nat
  /\ restartKills \subseteq Nat /\ gaveUp \subseteq Nat
  /\ restarts \in Nat /\ exits \in Nat /\ slowExits \in Nat

(* A guard never has two children: a new one is launched only when the     *)
(* previous one has exited, however destroy(), restart() and exits race.   *)
(* Two would fight for the same local port.                                *)
OneChild == \A c1, c2 \in Alive : c1 = c2

(* Once destroy() has joined the guard thread every child was signalled,   *)
(* also the one launched between the test of isDestroyed and the           *)
(* interrupt, which destroy() itself cannot see.                           *)
DestroyedLeavesNothing ==
  (\E d \in Destroyers : destroyer[d] = "done") => running = {} /\ guard = "dead"

(* start() fails only when no child is left behind, also when the          *)
(* exception it finds is that of a later launch.                           *)
FailedStartLeavesNothing == starter = "failed" => Alive = {} /\ guard \in {"finally", "dead"}

(* destroy() and restart() never meet a null process: whoever holds the    *)
(* object got it from a start() that waited for the first child.           *)
NoNullProcess ==
  (starter = "started") => process # NoProcess

(* A child that exits at once is launched again only as often as restart() *)
(* was called: a stale restart flag excuses one exit and no more, so an    *)
(* executable that cannot run is not launched for ever.                    *)
NoCrashLoop == spawned <= 1 + restarts + slowExits

(* A child that restart() killed is never taken for one that crashed.      *)
RestartIsNoCrash == gaveUp \cap restartKills = {}

(* start() returns or throws, whatever the child does.                     *)
StartReturns == (starter = "acquire") ~> (starter \in {"started", "failed", "abandoned"})

(* destroy() returns and in the end nothing of the guard is left, whatever *)
(* the guard thread was doing and even if the join was interrupted.        *)
DestroyEnds ==
  \A d \in Destroyers :
    (destroyer[d] = "interrupt")
      ~> (destroyer[d] \in {"done", "returned"} /\ guard = "dead" /\ Alive = {})

(* A child that restart() killed is launched again, unless the guard was   *)
(* destroyed meanwhile or the launch fails.                                *)
RestartRelaunches ==
  \A c \in 1..(1 + MaxRestarts + MaxExits) :
    (c \in restartKills) ~> (spawned > c \/ isDestroyed \/ ioException)

-----------------------------------------------------------------------------
(* The inductive invariant behind the safety properties.  Its parts:       *)

(* only the latest child can be alive, and none is while the guard thread  *)
(* is between two children; before it ends it signals the one it had;      *)
LatestChild ==
  /\ Alive \subseteq {spawned} /\ running \cap dying = {}
  /\ guard \in {"new", "loop", "spawn", "check"} => Alive = {}
  /\ guard \in {"finally", "dead"} => running = {}
  /\ \A d \in Destroyers : destroyer[d] = "done" => guard = "dead"

(* process refers to the latest child from its assignment to the next      *)
(* launch, and whoever can pass the semaphore finds it, or the exception;  *)
ProcessAssigned ==
  /\ process <= spawned
  /\ guard = "assign" => spawned > 0
  /\ guard \in {"callback", "sleep", "send", "release", "wait", "caught", "check"}
       => process = spawned /\ spawned > 0
  /\ isDestroyed => process > 0
  /\ guard \in {"finally", "dead"} => process > 0 \/ ioException
  /\ permits > 0 \/ starter = "check" => process > 0 \/ ioException
  /\ starter = "started" => process > 0
  /\ starter = "failed" => ioException
  /\ ioException => Alive = {} /\ guard \in {"finally", "dead"}
  /\ \A d \in Destroyers : destroyer[d] # "idle" => starter = "started"
  /\ guard = "new" <=> starter = "idle"

(* every launch, the one the guard thread is about to make included, was   *)
(* the first or is paid for by a restart() or a slow exit, and a restart   *)
(* flag that is still up is a payment not yet used;                        *)
Pending == IF guard = "spawn" \/ (guard \in {"new", "loop"} /\ ~isDestroyed) THEN 1 ELSE 0
Unused  == IF isRestart THEN 1 ELSE 0
LaunchesPaid == spawned + Pending + Unused <= 1 + restarts + slowExits

(* the restart flag is up as long as the guard thread has not judged the   *)
(* exit of a child that restart() killed.                                  *)
RestartFlagged ==
  /\ \A c \in restartKills \cup gaveUp : c <= spawned
  /\ monitor # NoThread => isRestart
  /\ spawned \in restartKills /\ guard \notin {"loop", "spawn", "finally", "dead"} => isRestart
  /\ gaveUp \cap Alive = {}
  /\ gaveUp \cap restartKills = {}

(* Together they are inductive and imply every safety property above.      *)
IInv == TypeOK /\ LatestChild /\ ProcessAssigned /\ LaunchesPaid /\ RestartFlagged

-----------------------------------------------------------------------------
(* The refinement mapping: the guard is closed when a destroy() has joined *)
(* its thread, and the only live child is running or dying.                *)
phaseBar ==
  IF \E d \in Destroyers : destroyer[d] = "done" THEN "closed"
  ELSE IF starter \in {"acquire", "check"} THEN "starting"
  ELSE IF starter = "started" THEN "up"
  ELSE starter

childBar ==
  IF running # {} THEN "running" ELSE IF dying # {} THEN "dying" ELSE "none"

Guard == INSTANCE ProcessGuard WITH phase <- phaseBar, child <- childBar

(* The threads of GuardedProcess implement what a guard promises.          *)
Implements == Guard!Spec

=============================================================================
