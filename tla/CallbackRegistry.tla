-------------------------- MODULE CallbackRegistry --------------------------
(***************************************************************************)
(* Who is told about the service (BaseService.scala, the binder and its    *)
(* callbacks; ServiceBoundContext.scala; ShadowsocksNotification.scala).   *)
(*                                                                         *)
(* Clients in other processes register a callback with the service; the    *)
(* notification of the service registers one of its own while the screen   *)
(* is on.  The service keeps them in a RemoteCallbackList, which drops the *)
(* callbacks of processes that die, counts them itself in callbacksCount,  *)
(* and runs a timer, which updates the traffic once a second, while the    *)
(* count is not zero.  Neither the count nor the timer is protected.       *)
(*                                                                         *)
(* The calls of clients are oneway: they return at once and the binder     *)
(* thread works them off one at a time.  (The tile runs in the process of  *)
(* the service: its calls, made on the main thread at once, are left out.) *)
(* The notification calls the same methods directly: on the main thread    *)
(* for an event of the screen, on the thread of connect() when it is       *)
(* created, on the one of a stopRunner() when it is destroyed.  The state  *)
(* of the service is CONNECTED for update(), since CONNECTED is posted     *)
(* before the notification is created and STOPPING after it is destroyed.  *)
(***************************************************************************)
EXTENDS Integers, Sequences, FiniteSets

CONSTANTS
  Clients,    (* the callbacks of other processes                          *)
  Own,        (* the callback of the notification                          *)
  MaxCalls,   (* bound: calls of clients                                   *)
  MaxEvents   (* bound: changes of the screen                              *)

ASSUME ClientsAssumption == IsFiniteSet(Clients) /\ Own \notin Clients
ASSUME BoundsAssumption == MaxCalls \in Nat /\ MaxEvents \in Nat

Threads == {"binder", "main", "connect", "stop"}
Callbacks == Clients \cup {Own}
None == 0

VARIABLES
  callbacks,      (* the RemoteCallbackList                                *)
  callbacksCount,
  timer,          (* the field: the number of a Timer, or None             *)
  timers,         (* the Timers that have not been cancelled               *)
  timersMade,     (* number of Timers so far                               *)
  at,             (* place and callback of each thread                     *)
  read,           (* what a thread has read of callbacksCount, until it    *)
                  (* writes                                                *)
  queue,          (* the oneway calls that wait for the binder thread      *)
  wanted,         (* the clients whose callbackRegistered is TRUE          *)
  alive,          (* the clients whose process lives                       *)
  notification,   (* "none", "new", "shown" (it listens) or "destroyed"    *)
  callbackRegistered, (* of the notification                               *)
  screenOn,
  events,         (* the broadcasts about the screen on their way          *)
  crashed,        (* an exception on the main thread ended the process     *)
  calls, screens, (* history, bounded: calls and changes of the screen     *)
  overlapped,     (* history: two threads were in the registry at once     *)
  lost,           (* history: a thread wrote over the count of another one *)
  doubled         (* history: a callback was registered twice              *)

registryVars == <<callbacks, callbacksCount, timer, timers, timersMade>>
threadVars == <<at, read, crashed>>
clientVars == <<queue, wanted, alive, calls>>
screenVars == <<notification, callbackRegistered, screenOn, events, screens>>
vars == <<registryVars, threadVars, clientVars, screenVars, overlapped, lost, doubled>>

Idle == <<"idle", Own>>
Busy(t) == at[t] # Idle
Go(t, place, cb) == at' = [at EXCEPT ![t] = <<place, cb>>]
Is(t, place) == at[t][1] = place

(* A call is over; the notification has something to do afterwards.        *)
Done(t, place) ==
  at' = [at EXCEPT ![t] = IF @[2] = Own THEN <<place, Own>> ELSE Idle]

(* An exception: the binder thread and the stub of connect() swallow it.   *)
Throw(t) ==
  /\ at' = [at EXCEPT ![t] = Idle]
  /\ crashed' = (crashed \/ t = "main")

Init ==
  /\ callbacks = {} /\ callbacksCount = 0
  /\ timer = None /\ timers = {} /\ timersMade = 0
  /\ at = [t \in Threads |-> Idle] /\ read = [t \in Threads |-> 0]
  /\ queue = <<>> /\ wanted = {} /\ alive = Clients
  /\ notification = "none" /\ callbackRegistered = FALSE
  /\ screenOn \in BOOLEAN /\ events = <<>>
  /\ crashed = FALSE /\ calls = 0 /\ screens = 0
  /\ overlapped = FALSE /\ lost = FALSE /\ doubled = FALSE

-----------------------------------------------------------------------------
(* registerCallback                                                        *)

(* callbacks.register(cb), which fails for a process that has died.        *)
Register(t) ==
  /\ Is(t, "register")
  /\ LET cb == at[t][2] IN
       IF cb \in alive \cup {Own}
         THEN /\ callbacks' = callbacks \cup {cb}
              /\ doubled' = (doubled \/ cb \in callbacks)
              /\ Go(t, "add", cb)
         ELSE Done(t, "registered") /\ UNCHANGED <<callbacks, doubled>>
  /\ UNCHANGED <<callbacksCount, timer, timers, timersMade, read, crashed>>

(* callbacksCount += 1, and callbacksCount -= 1 of unregisterCallback      *)
ReadCount(t) ==
  /\ at[t][1] \in {"add", "subtract"}
  /\ read' = [read EXCEPT ![t] = callbacksCount]
  /\ Go(t, IF Is(t, "add") THEN "added" ELSE "subtracted", at[t][2])
  /\ UNCHANGED <<registryVars, crashed, doubled>>

WriteCount(t) ==
  /\ at[t][1] \in {"added", "subtracted"}
  /\ callbacksCount' = read[t] + (IF Is(t, "added") THEN 1 ELSE -1)
  /\ read' = [read EXCEPT ![t] = 0]
  /\ Go(t, IF Is(t, "added") THEN "timer" ELSE "cancel", at[t][2])
  /\ UNCHANGED <<callbacks, timer, timers, timersMade, crashed, doubled>>

(* if (callbacksCount != 0 && timer == null)                               *)
CheckTimer(t) ==
  /\ Is(t, "timer")
  /\ IF callbacksCount # 0 /\ timer = None THEN Go(t, "new", at[t][2]) ELSE Done(t, "registered")
  /\ UNCHANGED <<registryVars, read, crashed, doubled>>

(* timer = new Timer(true), whose thread starts                            *)
NewTimer(t) ==
  /\ Is(t, "new")
  /\ timersMade' = timersMade + 1
  /\ timer' = timersMade + 1 /\ timers' = timers \cup {timersMade + 1}
  /\ Go(t, "schedule", at[t][2])
  /\ UNCHANGED <<callbacks, callbacksCount, read, crashed, doubled>>

(* timer.schedule(task, 1000, 1000), which a cancelled timer refuses       *)
Schedule(t) ==
  /\ Is(t, "schedule")
  /\ IF timer \in timers THEN Done(t, "registered") /\ UNCHANGED crashed ELSE Throw(t)
  /\ UNCHANGED <<registryVars, read, doubled>>

-----------------------------------------------------------------------------
(* unregisterCallback                                                      *)

(* Mutation: a callback that is not registered is subtracted all the same. *)
UnregisterAlways(t) ==
  /\ Is(t, "unregister")
  /\ callbacks' = callbacks \ {at[t][2]}
  /\ Go(t, "subtract", at[t][2])
  /\ UNCHANGED <<callbacksCount, timer, timers, timersMade, read, crashed, doubled>>

Unregister(t) ==
  /\ Is(t, "unregister")
  /\ callbacks' = callbacks \ {at[t][2]}
  /\ IF at[t][2] \in callbacks THEN Go(t, "subtract", at[t][2]) ELSE Done(t, "unregistered")
  /\ UNCHANGED <<callbacksCount, timer, timers, timersMade, read, crashed, doubled>>

(* Mutation: the timer is cancelled whenever somebody unregisters.         *)
CheckCancelNot(t) ==
  /\ Is(t, "cancel")
  /\ Go(t, "cancelling", at[t][2])
  /\ UNCHANGED <<registryVars, read, crashed, doubled>>

(* if (callbacksCount == 0 && timer != null) { timer.cancel(); timer = null } *)
CheckCancel(t) ==
  /\ Is(t, "cancel")
  /\ IF callbacksCount = 0 /\ timer # None THEN Go(t, "cancelling", at[t][2]) ELSE Done(t, "unregistered")
  /\ UNCHANGED <<registryVars, read, crashed, doubled>>

Cancel(t) ==
  /\ Is(t, "cancelling")
  /\ timers' = timers \ {timer}
  /\ IF timer = None THEN Throw(t) ELSE Go(t, "clear", at[t][2]) /\ UNCHANGED crashed
  /\ UNCHANGED <<callbacks, callbacksCount, timer, timersMade, read, doubled>>

(* Mutation: the field keeps the cancelled timer.                          *)
ClearTimerNot(t) ==
  /\ Is(t, "clear")
  /\ Done(t, "unregistered")
  /\ UNCHANGED <<registryVars, read, crashed, doubled>>

ClearTimer(t) ==
  /\ Is(t, "clear")
  /\ timer' = None
  /\ Done(t, "unregistered")
  /\ UNCHANGED <<callbacks, callbacksCount, timers, timersMade, read, crashed, doubled>>

RegistryStep(t) ==
  /\ \/ Register(t) \/ ReadCount(t) \/ WriteCount(t) \/ CheckTimer(t) \/ NewTimer(t) \/ Schedule(t)
     \/ Unregister(t) \/ CheckCancel(t) \/ Cancel(t) \/ ClearTimer(t)
  /\ UNCHANGED <<clientVars, screenVars>>

-----------------------------------------------------------------------------
(* The clients (ServiceBoundContext) and the binder thread.                *)

Ask(op, c) ==
  /\ c \in alive /\ calls < MaxCalls /\ calls' = calls + 1
  /\ queue' = Append(queue, <<op, c>>)
  /\ UNCHANGED <<registryVars, threadVars, alive, screenVars, doubled>>

(* if (bgService != null && callback != null && !callbackRegistered)       *)
ClientRegisters(c) == c \notin wanted /\ wanted' = wanted \cup {c} /\ Ask("register", c)

ClientUnregisters(c) == c \in wanted /\ wanted' = wanted \ {c} /\ Ask("unregister", c)

ClientDies(c) ==
  /\ c \in alive /\ alive' = alive \ {c}
  /\ UNCHANGED <<registryVars, threadVars, queue, wanted, calls, screenVars, doubled>>

(* RemoteCallbackList hears of a death; the count does not.                *)
DeathNotice(c) ==
  /\ c \notin alive /\ c \in callbacks
  /\ callbacks' = callbacks \ {c}
  /\ UNCHANGED <<callbacksCount, timer, timers, timersMade, threadVars, clientVars, screenVars, doubled>>

BinderTakes ==
  /\ ~Busy("binder") /\ queue # <<>>
  /\ at' = [at EXCEPT !["binder"] = Head(queue)] /\ queue' = Tail(queue)
  /\ UNCHANGED <<registryVars, read, crashed, wanted, alive, calls, screenVars, doubled>>

-----------------------------------------------------------------------------
(* The notification                                                        *)

(* new ShadowsocksNotification: update(..., forceShow = true), and then it *)
(* listens to the screen.                                                  *)
Construct ==
  /\ notification = "none" /\ ~Busy("connect")
  /\ notification' = "new"
  /\ Go("connect", IF screenOn THEN "register" ELSE "listen", Own)
  /\ UNCHANGED <<callbackRegistered, screenOn, events, screens>>

(* service.binder.registerCallback(callback); callbackRegistered = true    *)
Registered(t) ==
  /\ Is(t, "registered")
  /\ callbackRegistered' = TRUE
  /\ at' = [at EXCEPT ![t] = IF t = "connect" THEN <<"listen", Own>> ELSE Idle]
  /\ UNCHANGED <<notification, screenOn, events, screens>>

Listen ==
  /\ Is("connect", "listen")
  /\ notification' = "shown"
  /\ at' = [at EXCEPT !["connect"] = Idle]
  /\ UNCHANGED <<callbackRegistered, screenOn, events, screens>>

ScreenChanges ==
  /\ screens < MaxEvents /\ screens' = screens + 1
  /\ screenOn' = ~screenOn /\ events' = Append(events, ~screenOn)
  /\ UNCHANGED <<notification, callbackRegistered, at>>

(* lockReceiver: ACTION_SCREEN_ON registers, ACTION_SCREEN_OFF unregisters *)
(* if (callbackRegistered); an event finds the receiver or is lost.        *)
ScreenEvent ==
  /\ ~Busy("main") /\ events # <<>> /\ events' = Tail(events)
  /\ IF notification = "shown" /\ (Head(events) \/ callbackRegistered)
       THEN Go("main", IF Head(events) THEN "register" ELSE "unregister", Own)
       ELSE UNCHANGED at
  /\ UNCHANGED <<notification, callbackRegistered, screenOn, screens>>

Unregistered(t) ==
  /\ Is(t, "unregistered")
  /\ callbackRegistered' = FALSE
  /\ at' = [at EXCEPT ![t] = Idle]
  /\ UNCHANGED <<notification, screenOn, events, screens>>

(* destroy()                                                               *)
Destroy ==
  /\ notification = "shown" /\ ~Busy("stop")
  /\ notification' = "destroyed"
  /\ IF callbackRegistered THEN Go("stop", "unregister", Own) ELSE UNCHANGED at
  /\ UNCHANGED <<callbackRegistered, screenOn, events, screens>>

NotificationStep ==
  /\ \/ Construct \/ Listen \/ ScreenChanges \/ ScreenEvent \/ Destroy
     \/ \E t \in Threads : Registered(t) \/ Unregistered(t)
  /\ UNCHANGED <<registryVars, read, crashed, clientVars, doubled>>

-----------------------------------------------------------------------------
InRegistry(t) == at[t][1] \notin {"idle", "registered", "unregistered", "listen"}

Next ==
  /\ ~crashed
  /\ \/ \E t \in Threads : RegistryStep(t)
     \/ \E c \in Clients : ClientRegisters(c) \/ ClientUnregisters(c) \/ ClientDies(c) \/ DeathNotice(c)
     \/ BinderTakes \/ NotificationStep
  /\ overlapped' = (overlapped \/ \E t, u \in Threads : t # u /\ InRegistry(t)' /\ InRegistry(u)')
  /\ lost' = (lost \/ \E t \in Threads : WriteCount(t) /\ read[t] # callbacksCount)

Spec == Init /\ [][Next]_vars

-----------------------------------------------------------------------------
(* Properties.                                                             *)

Places == {"idle", "register", "add", "added", "timer", "new", "schedule", "registered",
           "listen", "unregister", "subtract", "subtracted", "cancel", "cancelling", "clear",
           "unregistered"}

(* Every variable has a value of its type.                                 *)
TypeOK ==
  /\ callbacks \subseteq Callbacks /\ callbacksCount \in Int
  /\ timersMade \in Nat /\ timers \subseteq 1..timersMade /\ timer \in 0..timersMade
  /\ at \in [Threads -> Places \X Callbacks]
  /\ read \in [Threads -> Int]
  /\ queue \in Seq({"register", "unregister"} \X Clients)
  /\ wanted \subseteq Clients /\ alive \subseteq Clients
  /\ notification \in {"none", "new", "shown", "destroyed"}
  /\ events \in Seq(BOOLEAN)
  /\ calls \in Nat /\ screens \in Nat
  /\ {callbackRegistered, screenOn, crashed, overlapped, lost, doubled} \subseteq BOOLEAN

Rest == \A t \in Threads : ~InRegistry(t)

(* Nobody who is registered is forgotten: a broadcast, which looks at      *)
(* callbacksCount first, reaches the list, however calls overlap, whoever  *)
(* died and whatever was registered twice, unless two threads have counted *)
(* at the very same moment.                                                *)
NobodyForgotten == ~lost /\ Rest => Cardinality(callbacks) <= callbacksCount

(* If no client dies and nothing is registered twice, the count is exact,  *)
(* so that the timer runs only while somebody is registered.               *)
CountIsExact ==
  ~lost /\ Rest /\ ~doubled /\ alive = Clients => callbacksCount = Cardinality(callbacks)

(* What both rest on, in the middle of calls as well: the threads that     *)
(* have changed the list and not yet the count make up the difference.     *)
Adding == {t \in Threads : at[t][1] \in {"add", "added"}}
Subtracting == {t \in Threads : at[t][1] \in {"subtract", "subtracted"}}

CountNotLow ==
  ~lost => Cardinality(callbacks) + Cardinality(Subtracting) <= callbacksCount + Cardinality(Adding)

CountNotHigh ==
  ~lost /\ ~doubled /\ alive = Clients =>
    callbacksCount + Cardinality(Adding) <= Cardinality(callbacks) + Cardinality(Subtracting)

IInv == TypeOK /\ CountNotLow /\ CountNotHigh

(* As long as calls do not overlap, one timer runs while the count is not  *)
(* zero, and none otherwise.                                               *)
TimerFollows ==
  ~overlapped /\ Rest => timers = IF callbacksCount = 0 THEN {} ELSE {timer}

(* The timer cannot be cancelled or missing under the hands of a thread,   *)
(* which on the main thread would end the process, unless calls overlap.   *)
CrashNeedsOverlap == crashed => overlapped

(* "unregister callback to save battery": when nobody is left and nothing  *)
(* is under way, no timer runs, even if the calls have not overlapped.     *)
BatterySaved ==
  ~overlapped /\ Rest /\ queue = <<>> /\ callbacks = {} => timers = {}

=============================================================================
