----------------------- MODULE CallbackRegistryProofs -----------------------
(***************************************************************************)
(* Proofs about the count and the timer of CallbackRegistry, for any       *)
(* finite set of clients and without the bounds of the runs.               *)
(***************************************************************************)
EXTENDS CallbackRegistry, FiniteSetTheorems, SequenceTheorems, TLAPS

(* The initial state has its type, and nobody is counted.                  *)
LEMMA InitIInv == Init => IInv
<1> SUFFICES ASSUME Init PROVE IInv
  OBVIOUS
<1>1. TypeOK
  <2>1. at \in [Threads -> Places \X Callbacks]
    BY DEF Init, Idle, Places, Callbacks
  <2>2. queue \in Seq({"register", "unregister"} \X Clients) /\ events \in Seq(BOOLEAN)
    BY DEF Init
  <2>3. {callbackRegistered, screenOn, crashed, overlapped, lost, doubled} \subseteq BOOLEAN
    BY DEF Init
  <2>4. read \in [Threads -> Int] /\ timer \in 0..timersMade
    BY DEF Init, None
  <2>5. QED
    BY <2>1, <2>2, <2>3, <2>4 DEF Init, TypeOK
<1>2. Adding = {} /\ Subtracting = {}
  BY DEF Init, Adding, Subtracting, Idle
<1>3. CountNotLow /\ CountNotHigh
  BY <1>2, FS_EmptySet DEF Init, CountNotLow, CountNotHigh
<1>4. QED
  BY <1>1, <1>3 DEF IInv

(* A thread that goes to another place of the registry keeps at typed.     *)
LEMMA GoTyped ==
  ASSUME TypeOK, NEW t \in Threads, NEW x \in Places \X Callbacks, at' = [at EXCEPT ![t] = x]
  PROVE  at' \in [Threads -> Places \X Callbacks]
BY DEF TypeOK

(* The places a call ends at are places.                                   *)
LEMMA DoneTyped ==
  ASSUME TypeOK, NEW t \in Threads, NEW place \in Places, Done(t, place)
  PROVE  at' \in [Threads -> Places \X Callbacks]
<1>1. Own \in Callbacks /\ "idle" \in Places
  BY DEF Callbacks, Places
<1>2. (IF at[t][2] = Own THEN <<place, Own>> ELSE Idle) \in Places \X Callbacks
  BY <1>1 DEF Idle
<1>3. at' = [at EXCEPT ![t] = IF at[t][2] = Own THEN <<place, Own>> ELSE Idle]
  BY DEF Done
<1>4. QED
  BY <1>2, <1>3, GoTyped

(* A step in the registry keeps the types.                                 *)
LEMMA RegistryTyped ==
  ASSUME TypeOK, NEW t \in Threads, RegistryStep(t)
  PROVE  /\ callbacks' \subseteq Callbacks /\ callbacksCount' \in Int
         /\ timersMade' \in Nat /\ timers' \subseteq 1..timersMade' /\ timer' \in 0..timersMade'
         /\ at' \in [Threads -> Places \X Callbacks] /\ read' \in [Threads -> Int]
         /\ crashed' \in BOOLEAN /\ doubled' \in BOOLEAN
<1>1. at[t] \in Places \X Callbacks /\ at[t][2] \in Callbacks
  BY DEF TypeOK
<1>2. \A p \in Places : Go(t, p, at[t][2]) => at' \in [Threads -> Places \X Callbacks]
  <2> SUFFICES ASSUME NEW p \in Places, Go(t, p, at[t][2])
               PROVE  at' \in [Threads -> Places \X Callbacks]
    OBVIOUS
  <2>1. <<p, at[t][2]>> \in Places \X Callbacks
    BY <1>1
  <2>2. QED
    BY <2>1, GoTyped DEF Go
<1>3. Throw(t) => at' \in [Threads -> Places \X Callbacks] /\ crashed' \in BOOLEAN
  <2>1. Idle \in Places \X Callbacks
    BY DEF Idle, Places, Callbacks
  <2>2. QED
    BY <2>1, GoTyped DEF Throw
<1>4. {"add", "added", "subtracted", "timer", "cancel", "new", "registered", "schedule",
       "subtract", "unregistered", "cancelling", "clear"} \subseteq Places
  BY DEF Places
<1>5. CASE Register(t)
  BY <1>1, <1>2, <1>4, <1>5, DoneTyped DEF Register, TypeOK, Callbacks
<1>6. CASE ReadCount(t)
  BY <1>2, <1>4, <1>6 DEF ReadCount, TypeOK, registryVars
<1>7. CASE WriteCount(t)
  BY <1>2, <1>4, <1>7 DEF WriteCount, TypeOK
<1>8. CASE CheckTimer(t)
  BY <1>2, <1>4, <1>8, DoneTyped DEF CheckTimer, TypeOK, registryVars
<1>9. CASE NewTimer(t)
  BY <1>2, <1>4, <1>9 DEF NewTimer, TypeOK
<1>10. CASE Schedule(t)
  BY <1>3, <1>4, <1>10, DoneTyped DEF Schedule, TypeOK, registryVars
<1>11. CASE Unregister(t)
  BY <1>2, <1>4, <1>11, DoneTyped DEF Unregister, TypeOK
<1>12. CASE CheckCancel(t)
  BY <1>2, <1>4, <1>12, DoneTyped DEF CheckCancel, TypeOK, registryVars
<1>13. CASE Cancel(t)
  BY <1>2, <1>3, <1>4, <1>13 DEF Cancel, TypeOK
<1>14. CASE ClearTimer(t)
  BY <1>4, <1>14, DoneTyped DEF ClearTimer, TypeOK, None
<1>15. QED
  BY <1>5, <1>6, <1>7, <1>8, <1>9, <1>10, <1>11, <1>12, <1>13, <1>14 DEF RegistryStep

(* A step of a client or of the binder thread keeps the types it touches.  *)
LEMMA ClientTyped ==
  ASSUME TypeOK, NEW c \in Clients,
         ClientRegisters(c) \/ ClientUnregisters(c) \/ ClientDies(c) \/ DeathNotice(c) \/ BinderTakes
  PROVE  /\ callbacks' \subseteq Callbacks
         /\ at' \in [Threads -> Places \X Callbacks]
         /\ queue' \in Seq({"register", "unregister"} \X Clients)
         /\ wanted' \subseteq Clients /\ alive' \subseteq Clients /\ calls' \in Nat
<1> USE DEF registryVars, threadVars, clientVars, screenVars
<1>1. \A op \in {"register", "unregister"} :
        Append(queue, <<op, c>>) \in Seq({"register", "unregister"} \X Clients)
  BY AppendProperties DEF TypeOK
<1>2. CASE ClientRegisters(c)
  BY <1>1, <1>2 DEF ClientRegisters, Ask, TypeOK
<1>3. CASE ClientUnregisters(c)
  BY <1>1, <1>3 DEF ClientUnregisters, Ask, TypeOK
<1>4. CASE ClientDies(c)
  BY <1>4 DEF ClientDies, TypeOK
<1>5. CASE DeathNotice(c)
  BY <1>5 DEF DeathNotice, TypeOK
<1>6. CASE BinderTakes
  <2>1. /\ Head(queue) \in {"register", "unregister"} \X Clients
        /\ Tail(queue) \in Seq({"register", "unregister"} \X Clients)
    BY <1>6, HeadTailProperties DEF BinderTakes, TypeOK
  <2>2. {"register", "unregister"} \X Clients \subseteq Places \X Callbacks
    BY DEF Places, Callbacks
  <2>3. "binder" \in Threads
    BY DEF Threads
  <2>4. at' \in [Threads -> Places \X Callbacks]
    BY <1>6, <2>1, <2>2, <2>3, GoTyped DEF BinderTakes
  <2>5. QED
    BY <1>6, <2>1, <2>4 DEF BinderTakes, TypeOK
<1>7. QED
  BY <1>2, <1>3, <1>4, <1>5, <1>6

(* A step of the notification keeps the types it touches.                  *)
LEMMA NotificationTyped ==
  ASSUME TypeOK, NotificationStep
  PROVE  /\ at' \in [Threads -> Places \X Callbacks]
         /\ notification' \in {"none", "new", "shown", "destroyed"}
         /\ events' \in Seq(BOOLEAN) /\ screens' \in Nat
         /\ callbackRegistered' \in BOOLEAN /\ screenOn' \in BOOLEAN
<1>1. \A p \in {"idle", "register", "unregister", "listen"} : <<p, Own>> \in Places \X Callbacks
  BY DEF Places, Callbacks
<1>2. \A t \in {"main", "connect", "stop"} : \A p \in {"register", "unregister", "listen"} :
        Go(t, p, Own) => at' \in [Threads -> Places \X Callbacks]
  BY <1>1, GoTyped DEF Go, Threads
<1>3. at \in [Threads -> Places \X Callbacks] /\ screenOn \in BOOLEAN /\ callbackRegistered \in BOOLEAN
  BY DEF TypeOK
<1>4. CASE Construct
  BY <1>2, <1>4 DEF Construct, TypeOK
<1>5. CASE Listen
  BY <1>1, <1>5, GoTyped DEF Listen, TypeOK, Idle, Threads
<1>6. CASE ScreenChanges
  <2>1. (~screenOn) \in BOOLEAN
    OBVIOUS
  <2>2. Append(events, ~screenOn) \in Seq(BOOLEAN)
    BY <2>1, AppendProperties DEF TypeOK
  <2>3. QED
    BY <1>6, <2>1, <2>2 DEF ScreenChanges, TypeOK
<1>7. CASE ScreenEvent
  <2>1. Tail(events) \in Seq(BOOLEAN)
    BY <1>7, HeadTailProperties DEF ScreenEvent, TypeOK
  <2>2. at' \in [Threads -> Places \X Callbacks]
    BY <1>2, <1>3, <1>7 DEF ScreenEvent
  <2>3. QED
    BY <1>7, <2>1, <2>2 DEF ScreenEvent, TypeOK
<1>8. CASE Destroy
  BY <1>2, <1>3, <1>8 DEF Destroy, TypeOK
<1>9. ASSUME NEW t \in Threads, Registered(t) \/ Unregistered(t)
      PROVE  /\ at' \in [Threads -> Places \X Callbacks] /\ callbackRegistered' \in BOOLEAN
             /\ UNCHANGED <<notification, screenOn, events, screens>>
  <2>1. at' = [at EXCEPT ![t] = <<"listen", Own>>] \/ at' = [at EXCEPT ![t] = Idle]
    BY <1>9 DEF Registered, Unregistered
  <2>2. at' \in [Threads -> Places \X Callbacks]
    BY <1>1, <2>1, GoTyped DEF Idle
  <2>3. QED
    BY <1>9, <2>2 DEF Registered, Unregistered
<1>10. QED
  BY <1>4, <1>5, <1>6, <1>7, <1>8, <1>9 DEF NotificationStep, TypeOK

(* Every step keeps the types.                                             *)
LEMMA TypeNext ==
  ASSUME TypeOK, [Next]_vars
  PROVE  TypeOK'
<1>1. {callbackRegistered, screenOn, crashed, overlapped, lost, doubled} \subseteq BOOLEAN
  BY DEF TypeOK
<1>2. CASE UNCHANGED vars
  BY <1>2 DEF vars, registryVars, threadVars, clientVars, screenVars, TypeOK
<1>3. CASE Next
  <2>1. overlapped' \in BOOLEAN /\ lost' \in BOOLEAN
    BY <1>3 DEF Next
  <2>2. ASSUME NEW t \in Threads, RegistryStep(t) PROVE TypeOK'
    <3>1. UNCHANGED <<clientVars, screenVars>>
      BY <2>2 DEF RegistryStep
    <3>2. QED
      BY <2>1, <2>2, <3>1, RegistryTyped DEF clientVars, screenVars, TypeOK
  <2>3. ASSUME NEW c \in Clients,
               ClientRegisters(c) \/ ClientUnregisters(c) \/ ClientDies(c) \/ DeathNotice(c)
        PROVE  TypeOK'
    <3>1. UNCHANGED <<callbacksCount, timer, timers, timersMade, read, crashed, screenVars, doubled>>
      BY <2>3 DEF ClientRegisters, ClientUnregisters, ClientDies, DeathNotice, Ask,
                  registryVars, threadVars
    <3>2. QED
      BY <2>1, <2>3, <3>1, ClientTyped DEF screenVars, TypeOK
  <2>4. CASE BinderTakes
    <3>1. PICK c \in Clients : TRUE
      <4>1. Head(queue) \in {"register", "unregister"} \X Clients
        BY <2>4, HeadTailProperties DEF BinderTakes, TypeOK
      <4>2. QED
        BY <4>1
    <3>2. UNCHANGED <<callbacksCount, timer, timers, timersMade, read, crashed, screenVars, doubled>>
      BY <2>4 DEF BinderTakes, registryVars
    <3>3. QED
      BY <2>1, <2>4, <3>1, <3>2, ClientTyped DEF screenVars, TypeOK
  <2>5. CASE NotificationStep
    <3>1. UNCHANGED <<registryVars, read, crashed, clientVars, doubled>>
      BY <2>5 DEF NotificationStep
    <3>2. QED
      BY <2>1, <2>5, <3>1, NotificationTyped DEF registryVars, clientVars, TypeOK
  <2>6. QED
    BY <1>3, <2>2, <2>3, <2>4, <2>5 DEF Next
<1>4. QED
  BY <1>2, <1>3

-----------------------------------------------------------------------------
(* The sets that are counted are finite.                                   *)
LEMMA Finite ==
  ASSUME TypeOK
  PROVE  /\ IsFiniteSet(callbacks) /\ Cardinality(callbacks) \in Nat
         /\ IsFiniteSet(Adding) /\ Cardinality(Adding) \in Nat
         /\ IsFiniteSet(Subtracting) /\ Cardinality(Subtracting) \in Nat
<1>1. IsFiniteSet(Callbacks)
  BY ClientsAssumption, FS_AddElement DEF Callbacks
<1>2. IsFiniteSet(Threads)
  <2>1. IsFiniteSet({"binder"}) /\ IsFiniteSet({"binder"} \cup {"main"})
    BY FS_Singleton, FS_AddElement
  <2>2. IsFiniteSet(({"binder"} \cup {"main"}) \cup {"connect"})
    BY <2>1, FS_AddElement
  <2>3. IsFiniteSet((({"binder"} \cup {"main"}) \cup {"connect"}) \cup {"stop"})
    BY <2>2, FS_AddElement
  <2>4. Threads = (({"binder"} \cup {"main"}) \cup {"connect"}) \cup {"stop"}
    BY DEF Threads
  <2>5. QED
    BY <2>3, <2>4
<1>3. callbacks \subseteq Callbacks /\ Adding \subseteq Threads /\ Subtracting \subseteq Threads
  BY DEF TypeOK, Adding, Subtracting
<1>4. IsFiniteSet(callbacks) /\ IsFiniteSet(Adding) /\ IsFiniteSet(Subtracting)
  BY <1>1, <1>2, <1>3, FS_Subset
<1>5. QED
  BY <1>4, FS_CardinalityType

(* One if the place of a thread is among the given ones.                   *)
In(place, names) == IF place[1] \in names THEN 1 ELSE 0

(* What a move of one thread does to the differences.                      *)
LEMMA Moves ==
  ASSUME TypeOK, NEW t \in Threads, NEW x, at' = [at EXCEPT ![t] = x]
  PROVE  /\ Cardinality(Adding') = Cardinality(Adding) - In(at[t], {"add", "added"})
                                     + In(x, {"add", "added"})
         /\ Cardinality(Subtracting') = Cardinality(Subtracting) - In(at[t], {"subtract", "subtracted"})
                                     + In(x, {"subtract", "subtracted"})
<1>1. DOMAIN at = Threads
  BY DEF TypeOK
<1>2. Adding' = IF x[1] \in {"add", "added"} THEN (Adding \ {t}) \cup {t} ELSE Adding \ {t}
  BY <1>1 DEF Adding
<1>3. Subtracting' = IF x[1] \in {"subtract", "subtracted"}
                       THEN (Subtracting \ {t}) \cup {t} ELSE Subtracting \ {t}
  BY <1>1 DEF Subtracting
<1>4. /\ IsFiniteSet(Adding \ {t}) /\ IsFiniteSet(Subtracting \ {t})
      /\ Cardinality(Adding \ {t}) \in Nat /\ Cardinality(Subtracting \ {t}) \in Nat
  BY Finite, FS_RemoveElement, FS_CardinalityType
<1>5. /\ Cardinality((Adding \ {t}) \cup {t}) = Cardinality(Adding \ {t}) + 1
      /\ Cardinality((Subtracting \ {t}) \cup {t}) = Cardinality(Subtracting \ {t}) + 1
  BY <1>4, FS_AddElement
<1>6. Cardinality(Adding \ {t}) = Cardinality(Adding)
                                    - (IF at[t][1] \in {"add", "added"} THEN 1 ELSE 0)
  <2>1. t \in Adding <=> at[t][1] \in {"add", "added"}
    BY DEF Adding
  <2>2. Cardinality(Adding \ {t})
          = IF t \in Adding THEN Cardinality(Adding) - 1 ELSE Cardinality(Adding)
    BY Finite, FS_RemoveElement
  <2>3. Cardinality(Adding) \in Nat
    BY Finite
  <2>4. QED
    BY <2>1, <2>2, <2>3
<1>7. Cardinality(Subtracting \ {t}) = Cardinality(Subtracting)
                                    - (IF at[t][1] \in {"subtract", "subtracted"} THEN 1 ELSE 0)
  <2>1. t \in Subtracting <=> at[t][1] \in {"subtract", "subtracted"}
    BY DEF Subtracting
  <2>2. Cardinality(Subtracting \ {t})
          = IF t \in Subtracting THEN Cardinality(Subtracting) - 1 ELSE Cardinality(Subtracting)
    BY Finite, FS_RemoveElement
  <2>3. Cardinality(Subtracting) \in Nat
    BY Finite
  <2>4. QED
    BY <2>1, <2>2, <2>3
<1>8. Cardinality(Adding) \in Nat /\ Cardinality(Subtracting) \in Nat
  BY Finite
<1>9. Cardinality(Adding') = Cardinality(Adding \ {t}) + In(x, {"add", "added"})
  BY <1>2, <1>4, <1>5 DEF In
<1>10. Cardinality(Subtracting') = Cardinality(Subtracting \ {t}) + In(x, {"subtract", "subtracted"})
  BY <1>3, <1>4, <1>5 DEF In
<1>11. QED
  BY <1>4, <1>6, <1>7, <1>8, <1>9, <1>10 DEF In

(* What a thread does to the list, the count and the differences together. *)
LEMMA RegistryCounts ==
  ASSUME IInv, NEW t \in Threads, RegistryStep(t),
         lost' = (lost \/ \E u \in Threads : WriteCount(u) /\ read[u] # callbacksCount)
  PROVE  CountNotLow' /\ CountNotHigh'
<1> DEFINE C == Cardinality(callbacks)
           A == Cardinality(Adding)
           S == Cardinality(Subtracting)
<1>1. TypeOK /\ CountNotLow /\ CountNotHigh
  BY DEF IInv
<1>2. C \in Nat /\ A \in Nat /\ S \in Nat /\ callbacksCount \in Int
  BY <1>1, Finite DEF TypeOK
<1>3. UNCHANGED alive /\ (~lost' => ~lost)
  BY DEF RegistryStep, clientVars
<1>4. ASSUME NEW x, at' = [at EXCEPT ![t] = x],
             at[t][1] \notin {"add", "added", "subtract", "subtracted"},
             x[1] \notin {"add", "added", "subtract", "subtracted"},
             UNCHANGED <<callbacks, callbacksCount, doubled>>
      PROVE  CountNotLow' /\ CountNotHigh'
  <2>1. Cardinality(Adding') = A /\ Cardinality(Subtracting') = S
    <3>1. In(at[t], {"add", "added"}) = 0 /\ In(at[t], {"subtract", "subtracted"}) = 0
      BY <1>4 DEF In
    <3>2. In(x, {"add", "added"}) = 0 /\ In(x, {"subtract", "subtracted"}) = 0
      BY <1>4 DEF In
    <3>3. /\ Cardinality(Adding') = Cardinality(Adding) - In(at[t], {"add", "added"})
                                     + In(x, {"add", "added"})
          /\ Cardinality(Subtracting') = Cardinality(Subtracting) - In(at[t], {"subtract", "subtracted"})
                                     + In(x, {"subtract", "subtracted"})
      BY <1>1, <1>4, Moves
    <3>4. QED
      BY <1>2, <3>1, <3>2, <3>3
  <2>2. QED
    BY <1>1, <1>3, <1>4, <2>1 DEF CountNotLow, CountNotHigh
<1>5. ASSUME NEW place \in {"registered", "unregistered"}, Done(t, place),
             at[t][1] \notin {"add", "added", "subtract", "subtracted"},
             UNCHANGED <<callbacks, callbacksCount, doubled>>
      PROVE  CountNotLow' /\ CountNotHigh'
  <2>1. PICK x : at' = [at EXCEPT ![t] = x] /\ x \in {<<place, Own>>, Idle}
    BY <1>5 DEF Done
  <2>2. x[1] \notin {"add", "added", "subtract", "subtracted"}
    BY <2>1 DEF Idle
  <2>3. QED
    BY <1>4, <1>5, <2>1, <2>2
<1>6. ASSUME Throw(t), at[t][1] \notin {"add", "added", "subtract", "subtracted"},
             UNCHANGED <<callbacks, callbacksCount, doubled>>
      PROVE  CountNotLow' /\ CountNotHigh'
  <2>1. at' = [at EXCEPT ![t] = Idle]
    BY <1>6 DEF Throw
  <2>2. Idle[1] \notin {"add", "added", "subtract", "subtracted"}
    BY DEF Idle
  <2>3. QED
    BY <1>4, <1>6, <2>1, <2>2
<1>7. ASSUME NEW place \in {"timer", "new", "schedule", "cancel", "cancelling", "clear"},
             Go(t, place, at[t][2]),
             at[t][1] \notin {"add", "added", "subtract", "subtracted"},
             UNCHANGED <<callbacks, callbacksCount, doubled>>
      PROVE  CountNotLow' /\ CountNotHigh'
  <2>1. at' = [at EXCEPT ![t] = <<place, at[t][2]>>]
    BY <1>7 DEF Go
  <2>2. <<place, at[t][2]>>[1] \notin {"add", "added", "subtract", "subtracted"}
    OBVIOUS
  <2>3. QED
    BY <1>4, <1>7, <2>1, <2>2
<1>8. CASE Register(t)
  <2> DEFINE cb == at[t][2]
  <2>1. at[t][1] = "register"
    BY <1>8 DEF Register, Is
  <2>2. CASE cb \in alive \cup {Own}
    <3>1. /\ callbacks' = callbacks \cup {cb} /\ UNCHANGED callbacksCount
          /\ doubled' = (doubled \/ cb \in callbacks)
          /\ at' = [at EXCEPT ![t] = <<"add", cb>>]
      BY <1>8, <2>2 DEF Register, Go
    <3>2. Cardinality(Adding') = A + 1 /\ Cardinality(Subtracting') = S
      <4>1. In(at[t], {"add", "added"}) = 0 /\ In(at[t], {"subtract", "subtracted"}) = 0
        BY <2>1 DEF In
      <4>2. In(<<"add", cb>>, {"add", "added"}) = 1 /\ In(<<"add", cb>>, {"subtract", "subtracted"}) = 0
        BY DEF In
      <4>3. /\ Cardinality(Adding') = Cardinality(Adding) - In(at[t], {"add", "added"})
                                     + In(<<"add", cb>>, {"add", "added"})
            /\ Cardinality(Subtracting') = Cardinality(Subtracting) - In(at[t], {"subtract", "subtracted"})
                                     + In(<<"add", cb>>, {"subtract", "subtracted"})
        BY <1>1, <3>1, Moves
      <4>4. QED
        BY <1>2, <4>1, <4>2, <4>3
    <3>3. Cardinality(callbacks') = IF cb \in callbacks THEN C ELSE C + 1
      BY <1>1, <3>1, Finite, FS_AddElement
    <3>4. CountNotLow'
      BY <1>1, <1>2, <1>3, <3>1, <3>2, <3>3 DEF CountNotLow
    <3>5. CountNotHigh'
      <4>1. SUFFICES ASSUME ~lost', ~doubled', alive' = Clients
                     PROVE  callbacksCount' + Cardinality(Adding')
                              <= Cardinality(callbacks') + Cardinality(Subtracting')
        BY DEF CountNotHigh
      <4>2. cb \notin callbacks /\ ~doubled
        BY <3>1, <4>1
      <4>3. QED
        BY <1>1, <1>2, <1>3, <3>1, <3>2, <3>3, <4>1, <4>2 DEF CountNotHigh
    <3>6. QED
      BY <3>4, <3>5
  <2>3. CASE cb \notin alive \cup {Own}
    BY <1>5, <1>8, <2>1, <2>3 DEF Register
  <2>4. QED
    BY <2>2, <2>3
<1>9. CASE ReadCount(t)
  <2>1. PICK place : /\ at' = [at EXCEPT ![t] = <<place, at[t][2]>>]
                     /\ place = IF at[t][1] = "add" THEN "added" ELSE "subtracted"
    BY <1>9 DEF ReadCount, Go, Is
  <2>2. Cardinality(Adding') = A /\ Cardinality(Subtracting') = S
    <3>1. at[t][1] \in {"add", "subtract"}
      BY <1>9 DEF ReadCount
    <3>2. /\ In(<<place, at[t][2]>>, {"add", "added"}) = In(at[t], {"add", "added"})
          /\ In(<<place, at[t][2]>>, {"subtract", "subtracted"}) = In(at[t], {"subtract", "subtracted"})
          /\ In(at[t], {"add", "added"}) \in Nat /\ In(at[t], {"subtract", "subtracted"}) \in Nat
      BY <2>1, <3>1 DEF In
    <3>3. /\ Cardinality(Adding') = Cardinality(Adding) - In(at[t], {"add", "added"})
                                     + In(<<place, at[t][2]>>, {"add", "added"})
          /\ Cardinality(Subtracting') = Cardinality(Subtracting) - In(at[t], {"subtract", "subtracted"})
                                     + In(<<place, at[t][2]>>, {"subtract", "subtracted"})
      BY <1>1, <2>1, Moves
    <3>4. QED
      BY <1>2, <3>2, <3>3
  <2>3. UNCHANGED <<callbacks, callbacksCount, doubled>>
    BY <1>9 DEF ReadCount, registryVars
  <2>4. QED
    BY <1>1, <1>3, <2>2, <2>3 DEF CountNotLow, CountNotHigh
<1>10. CASE WriteCount(t)
  <2>1. ~lost' => read[t] = callbacksCount
    BY <1>10
  <2>2. UNCHANGED <<callbacks, doubled>>
    BY <1>10 DEF WriteCount
  <2>3. CASE at[t][1] = "added"
    <3>1. callbacksCount' = read[t] + 1 /\ at' = [at EXCEPT ![t] = <<"timer", at[t][2]>>]
      BY <1>10, <2>3 DEF WriteCount, Go, Is
    <3>2. Cardinality(Adding') = A - 1 /\ Cardinality(Subtracting') = S
      <4>1. In(at[t], {"add", "added"}) = 1 /\ In(at[t], {"subtract", "subtracted"}) = 0
        BY <2>3 DEF In
      <4>2. In(<<"timer", at[t][2]>>, {"add", "added"}) = 0 /\ In(<<"timer", at[t][2]>>, {"subtract", "subtracted"}) = 0
        BY DEF In
      <4>3. /\ Cardinality(Adding') = Cardinality(Adding) - In(at[t], {"add", "added"})
                                     + In(<<"timer", at[t][2]>>, {"add", "added"})
            /\ Cardinality(Subtracting') = Cardinality(Subtracting) - In(at[t], {"subtract", "subtracted"})
                                     + In(<<"timer", at[t][2]>>, {"subtract", "subtracted"})
        BY <1>1, <3>1, Moves
      <4>4. QED
        BY <1>2, <4>1, <4>2, <4>3
    <3>3. QED
      BY <1>1, <1>2, <1>3, <2>1, <2>2, <3>1, <3>2 DEF CountNotLow, CountNotHigh
  <2>4. CASE at[t][1] = "subtracted"
    <3>1. callbacksCount' = read[t] + (-1) /\ at' = [at EXCEPT ![t] = <<"cancel", at[t][2]>>]
      BY <1>10, <2>4 DEF WriteCount, Go, Is
    <3>2. Cardinality(Adding') = A /\ Cardinality(Subtracting') = S - 1
      <4>1. In(at[t], {"add", "added"}) = 0 /\ In(at[t], {"subtract", "subtracted"}) = 1
        BY <2>4 DEF In
      <4>2. In(<<"cancel", at[t][2]>>, {"add", "added"}) = 0 /\ In(<<"cancel", at[t][2]>>, {"subtract", "subtracted"}) = 0
        BY DEF In
      <4>3. /\ Cardinality(Adding') = Cardinality(Adding) - In(at[t], {"add", "added"})
                                     + In(<<"cancel", at[t][2]>>, {"add", "added"})
            /\ Cardinality(Subtracting') = Cardinality(Subtracting) - In(at[t], {"subtract", "subtracted"})
                                     + In(<<"cancel", at[t][2]>>, {"subtract", "subtracted"})
        BY <1>1, <3>1, Moves
      <4>4. QED
        BY <1>2, <4>1, <4>2, <4>3
    <3>3. QED
      BY <1>1, <1>2, <1>3, <2>1, <2>2, <3>1, <3>2 DEF CountNotLow, CountNotHigh
  <2>5. QED
    BY <1>10, <2>3, <2>4 DEF WriteCount
<1>11. CASE CheckTimer(t)
  BY <1>5, <1>7, <1>11 DEF CheckTimer, Is, registryVars
<1>12. CASE NewTimer(t)
  BY <1>7, <1>12 DEF NewTimer, Is
<1>13. CASE Schedule(t)
  BY <1>5, <1>6, <1>13 DEF Schedule, Is, registryVars
<1>14. CASE Unregister(t)
  <2> DEFINE cb == at[t][2]
  <2>1. at[t][1] = "unregister" /\ UNCHANGED <<callbacksCount, doubled>>
    BY <1>14 DEF Unregister, Is
  <2>2. CASE cb \in callbacks
    <3>1. callbacks' = callbacks \ {cb} /\ at' = [at EXCEPT ![t] = <<"subtract", cb>>]
      BY <1>14, <2>2 DEF Unregister, Go
    <3>2. Cardinality(Adding') = A /\ Cardinality(Subtracting') = S + 1
      <4>1. In(at[t], {"add", "added"}) = 0 /\ In(at[t], {"subtract", "subtracted"}) = 0
        BY <2>1 DEF In
      <4>2. In(<<"subtract", cb>>, {"add", "added"}) = 0 /\ In(<<"subtract", cb>>, {"subtract", "subtracted"}) = 1
        BY DEF In
      <4>3. /\ Cardinality(Adding') = Cardinality(Adding) - In(at[t], {"add", "added"})
                                     + In(<<"subtract", cb>>, {"add", "added"})
            /\ Cardinality(Subtracting') = Cardinality(Subtracting) - In(at[t], {"subtract", "subtracted"})
                                     + In(<<"subtract", cb>>, {"subtract", "subtracted"})
        BY <1>1, <3>1, Moves
      <4>4. QED
        BY <1>2, <4>1, <4>2, <4>3
    <3>3. Cardinality(callbacks') = C - 1
      BY <1>1, <2>2, <3>1, Finite, FS_RemoveElement
    <3>4. QED
      BY <1>1, <1>2, <1>3, <2>1, <3>1, <3>2, <3>3 DEF CountNotLow, CountNotHigh
  <2>3. CASE cb \notin callbacks
    <3>1. Done(t, "unregistered") /\ callbacks' = callbacks
      BY <1>14, <2>3 DEF Unregister
    <3>2. QED
      BY <1>5, <2>1, <3>1
  <2>4. QED
    BY <2>2, <2>3
<1>15. CASE CheckCancel(t)
  BY <1>5, <1>7, <1>15 DEF CheckCancel, Is, registryVars
<1>16. CASE Cancel(t)
  BY <1>6, <1>7, <1>16 DEF Cancel, Is
<1>17. CASE ClearTimer(t)
  BY <1>5, <1>17 DEF ClearTimer, Is
<1>18. QED
  BY <1>8, <1>9, <1>10, <1>11, <1>12, <1>13, <1>14, <1>15, <1>16, <1>17 DEF RegistryStep

(* Outside the registry nothing is counted; a death shortens the list and  *)
(* ends the premise that everybody lives.                                  *)
LEMMA OutsideCounts ==
  ASSUME IInv, Adding' = Adding, Subtracting' = Subtracting,
         UNCHANGED <<callbacksCount, doubled>>, ~lost' => ~lost, alive' \subseteq alive,
         alive \subseteq Clients,
         \/ UNCHANGED callbacks
         \/ \E c \in callbacks : callbacks' = callbacks \ {c} /\ alive' # Clients
  PROVE  CountNotLow' /\ CountNotHigh'
<1>1. TypeOK /\ CountNotLow /\ CountNotHigh
  BY DEF IInv
<1>2. /\ Cardinality(callbacks) \in Nat /\ Cardinality(Adding) \in Nat
      /\ Cardinality(Subtracting) \in Nat /\ callbacksCount \in Int
  BY <1>1, Finite DEF TypeOK
<1>3. alive' = Clients => alive = Clients
  OBVIOUS
<1>4. CASE UNCHANGED callbacks
  BY <1>1, <1>3, <1>4 DEF CountNotLow, CountNotHigh
<1>5. ASSUME NEW c \in callbacks, callbacks' = callbacks \ {c}, alive' # Clients
      PROVE  CountNotLow' /\ CountNotHigh'
  <2>1. Cardinality(callbacks') = Cardinality(callbacks) - 1
    BY <1>1, <1>5, Finite, FS_RemoveElement
  <2>2. CountNotLow'
    BY <1>1, <1>2, <2>1 DEF CountNotLow
  <2>3. CountNotHigh'
    BY <1>5 DEF CountNotHigh
  <2>4. QED
    BY <2>2, <2>3
<1>6. QED
  BY <1>4, <1>5

(* A thread that moves between places outside the count changes no         *)
(* difference.                                                             *)
LEMMA Uncounted ==
  ASSUME TypeOK, NEW t \in Threads, NEW x, at' = [at EXCEPT ![t] = x],
         at[t][1] \notin {"add", "added", "subtract", "subtracted"},
         x[1] \notin {"add", "added", "subtract", "subtracted"}
  PROVE  Adding' = Adding /\ Subtracting' = Subtracting
BY DEF TypeOK, Adding, Subtracting

(* A step of the notification moves threads between such places.           *)
LEMMA NotificationUncounted ==
  ASSUME TypeOK, NotificationStep
  PROVE  Adding' = Adding /\ Subtracting' = Subtracting
<1>1. CASE UNCHANGED at
  BY <1>1 DEF Adding, Subtracting
<1>2. ASSUME NEW t \in {"main", "connect", "stop"}, NEW p \in {"register", "unregister", "listen"},
             ~Busy(t), Go(t, p, Own)
      PROVE  Adding' = Adding /\ Subtracting' = Subtracting
  <2>1. at[t][1] = "idle" /\ t \in Threads
    BY <1>2 DEF Busy, Idle, Threads
  <2>2. at' = [at EXCEPT ![t] = <<p, Own>>] /\ <<p, Own>>[1] = p
    BY <1>2 DEF Go
  <2>3. QED
    BY <1>2, <2>1, <2>2, Uncounted
<1>3. ASSUME NEW t \in Threads, NEW p \in {"idle", "listen"},
             at[t][1] \in {"registered", "unregistered", "listen"},
             at' = [at EXCEPT ![t] = <<p, Own>>]
      PROVE  Adding' = Adding /\ Subtracting' = Subtracting
  <2>1. <<p, Own>>[1] = p
    OBVIOUS
  <2>2. QED
    BY <1>3, <2>1, Uncounted
<1>4. CASE Construct
  BY <1>2, <1>4 DEF Construct
<1>5. CASE Listen
  BY <1>3, <1>5 DEF Listen, Is, Idle, Threads
<1>6. CASE ScreenChanges
  BY <1>1, <1>6 DEF ScreenChanges
<1>7. CASE ScreenEvent
  BY <1>1, <1>2, <1>7 DEF ScreenEvent
<1>8. CASE Destroy
  BY <1>1, <1>2, <1>8 DEF Destroy
<1>9. ASSUME NEW t \in Threads, Registered(t) \/ Unregistered(t)
      PROVE  Adding' = Adding /\ Subtracting' = Subtracting
  <2>1. at[t][1] \in {"registered", "unregistered", "listen"}
    BY <1>9 DEF Registered, Unregistered, Is
  <2>2. \E p \in {"idle", "listen"} : at' = [at EXCEPT ![t] = <<p, Own>>]
    BY <1>9 DEF Registered, Unregistered, Idle
  <2>3. QED
    BY <1>3, <2>1, <2>2
<1>10. QED
  BY <1>4, <1>5, <1>6, <1>7, <1>8, <1>9 DEF NotificationStep

(* Every step keeps the inductive invariant.                               *)
LEMMA NextIInv ==
  ASSUME IInv, [Next]_vars
  PROVE  IInv'
<1>1. TypeOK
  BY DEF IInv
<1>2. TypeOK'
  BY <1>1, TypeNext
<1>3. alive \subseteq Clients
  BY <1>1 DEF TypeOK
<1>4. CASE UNCHANGED vars
  <2>1. Adding' = Adding /\ Subtracting' = Subtracting
    BY <1>4 DEF Adding, Subtracting, vars, threadVars
  <2>2. UNCHANGED <<callbacks, callbacksCount, doubled, lost, alive>>
    BY <1>4 DEF vars, registryVars, clientVars
  <2>3. QED
    BY <1>2, <1>3, <2>1, <2>2, OutsideCounts DEF IInv
<1>5. CASE Next
  <2>1. lost' = (lost \/ \E u \in Threads : WriteCount(u) /\ read[u] # callbacksCount)
    BY <1>5 DEF Next
  <2>2. ASSUME NEW t \in Threads, RegistryStep(t) PROVE IInv'
    BY <1>2, <2>1, <2>2, RegistryCounts DEF IInv
  <2>3. ASSUME NEW c \in Clients, ClientRegisters(c) \/ ClientUnregisters(c) \/ ClientDies(c)
        PROVE  IInv'
    <3>1. /\ UNCHANGED <<callbacks, callbacksCount, doubled, at>>
          /\ alive' \subseteq alive
      BY <2>3 DEF ClientRegisters, ClientUnregisters, ClientDies, Ask, registryVars, threadVars
    <3>2. Adding' = Adding /\ Subtracting' = Subtracting
      BY <3>1 DEF Adding, Subtracting
    <3>3. QED
      BY <1>2, <1>3, <2>1, <3>1, <3>2, OutsideCounts DEF IInv
  <2>4. ASSUME NEW c \in Clients, DeathNotice(c) PROVE IInv'
    <3>1. /\ UNCHANGED <<callbacksCount, doubled, at, alive>>
          /\ c \in callbacks /\ callbacks' = callbacks \ {c} /\ c \notin alive
      BY <2>4 DEF DeathNotice, threadVars, clientVars
    <3>2. Adding' = Adding /\ Subtracting' = Subtracting
      BY <3>1 DEF Adding, Subtracting
    <3>3. alive' # Clients
      BY <2>4, <3>1
    <3>4. QED
      BY <1>2, <1>3, <2>1, <3>1, <3>2, <3>3, OutsideCounts DEF IInv
  <2>5. CASE BinderTakes
    <3>1. /\ UNCHANGED <<callbacks, callbacksCount, doubled, alive>>
          /\ at' = [at EXCEPT !["binder"] = Head(queue)]
          /\ at["binder"][1] = "idle" /\ "binder" \in Threads
      BY <2>5 DEF BinderTakes, registryVars, Busy, Idle, Threads
    <3>2. Head(queue)[1] \in {"register", "unregister"}
      BY <1>1, <2>5, HeadTailProperties DEF BinderTakes, TypeOK
    <3>3. Adding' = Adding /\ Subtracting' = Subtracting
      BY <1>1, <3>1, <3>2 DEF TypeOK, Adding, Subtracting
    <3>4. QED
      BY <1>2, <1>3, <2>1, <3>1, <3>3, OutsideCounts DEF IInv
  <2>6. CASE NotificationStep
    <3>1. UNCHANGED <<callbacks, callbacksCount, doubled, alive>>
      BY <2>6 DEF NotificationStep, registryVars, clientVars
    <3>2. Adding' = Adding /\ Subtracting' = Subtracting
      BY <1>1, <2>6, NotificationUncounted
    <3>3. QED
      BY <1>2, <1>3, <2>1, <3>1, <3>2, OutsideCounts DEF IInv
  <2>7. QED
    BY <1>5, <2>2, <2>3, <2>4, <2>5, <2>6 DEF Next
<1>6. QED
  BY <1>4, <1>5

(* At rest no thread is between the list and the count.                    *)
LEMMA RestUncounted == Rest => Adding = {} /\ Subtracting = {}
BY DEF Rest, InRegistry, Adding, Subtracting

(* The differences at rest are what the properties say.                    *)
LEMMA IInvProperties == IInv => NobodyForgotten /\ CountIsExact
<1> SUFFICES ASSUME IInv, Rest, ~lost
             PROVE  /\ Cardinality(callbacks) <= callbacksCount
                    /\ ~doubled /\ alive = Clients => callbacksCount = Cardinality(callbacks)
  BY DEF NobodyForgotten, CountIsExact
<1>1. /\ Cardinality(callbacks) \in Nat /\ callbacksCount \in Int
      /\ Cardinality(Adding) = 0 /\ Cardinality(Subtracting) = 0
  BY RestUncounted, Finite, FS_EmptySet DEF IInv, TypeOK
<1>2. QED
  BY <1>1 DEF IInv, CountNotLow, CountNotHigh

-----------------------------------------------------------------------------
(* IInv: in every reachable state the list and the count differ by what    *)
(* the threads in the middle of a call will still add and subtract.        *)
THEOREM SpecIInv == Spec => []IInv
<1>1. Init => IInv
  BY InitIInv
<1>2. IInv /\ [Next]_vars => IInv'
  BY NextIInv
<1>3. QED
  BY <1>1, <1>2, PTL DEF Spec

(* Nobody who is registered is forgotten by registerCallback and           *)
(* unregisterCallback, for any number of clients.                          *)
THEOREM SpecNobodyForgotten == Spec => []NobodyForgotten
<1>1. IInv => NobodyForgotten
  BY IInvProperties
<1>2. QED
  BY <1>1, SpecIInv, PTL

(* The count is exact while nobody dies and nothing is registered twice.   *)
THEOREM SpecCountIsExact == Spec => []CountIsExact
<1>1. IInv => CountIsExact
  BY IInvProperties
<1>2. QED
  BY <1>1, SpecIInv, PTL

-----------------------------------------------------------------------------
(* The timer, for any finite set of clients: it follows the count and      *)
(* nobody finds it gone, as long as calls do not overlap.                  *)

(* No timer runs, or the one of the field only.                            *)
Nothing == timer = None /\ timers = {}
One == timer # None /\ timers = {timer}

(* The places between the write of the count and the end of a call.        *)
Late == {"timer", "new", "schedule", "cancel", "cancelling", "clear"}

(* What each place of a call may rely on.                                  *)
Placed(t) ==
  /\ at[t][1] \in {"added", "subtracted"} => read[t] = callbacksCount
  /\ at[t][1] \in {"subtract", "subtracted"} => callbacksCount > 0
  /\ Is(t, "timer") => callbacksCount > 0 /\ (Nothing \/ One)
  /\ Is(t, "new") => callbacksCount > 0 /\ Nothing
  /\ Is(t, "schedule") => callbacksCount > 0 /\ One
  /\ Is(t, "cancel") => One
  /\ Is(t, "cancelling") => callbacksCount = 0 /\ One
  /\ Is(t, "clear") => callbacksCount = 0 /\ timers = {}

(* What holds when no call is at one of these places.                      *)
Settled == IF callbacksCount = 0 THEN Nothing ELSE One

(* As long as calls do not overlap, nothing was lost and each call finds   *)
(* what its place relies on.                                               *)
TimerInv ==
  ~overlapped =>
    /\ ~lost /\ ~crashed /\ callbacksCount >= 0
    /\ \A t, u \in Threads : InRegistry(t) /\ InRegistry(u) => t = u
    /\ \A t \in Threads : Placed(t)
    /\ (\A t \in Threads : at[t][1] \notin Late) => Settled

-----------------------------------------------------------------------------
LEMMA InitTimer == Init => TimerInv
<1> SUFFICES ASSUME Init PROVE TimerInv
  OBVIOUS
<1>1. \A t \in Threads : at[t][1] = "idle"
  BY DEF Init, Idle
<1> QED
  BY <1>1 DEF Init, TimerInv, InRegistry, Placed, Is, Settled, Nothing, None

(* A call that takes a callback off the list has counted it before.        *)
LEMMA SomebodyCounted ==
  ASSUME IInv, ~lost, NEW t \in Threads, at[t][1] = "unregister",
         \A u \in Threads : InRegistry(u) => u = t, callbacks # {}
  PROVE  callbacksCount > 0
<1>1. Adding = {} /\ Subtracting = {}
  BY DEF InRegistry, Adding, Subtracting
<1>2. /\ IsFiniteSet(callbacks) /\ Cardinality(callbacks) \in Nat /\ callbacksCount \in Int
      /\ Cardinality({}) = 0
  BY Finite, FS_EmptySet DEF IInv, TypeOK
<1>3. Cardinality(callbacks) # 0
  BY <1>2, FS_EmptySet
<1>4. Cardinality(callbacks) <= callbacksCount
  BY <1>1, <1>2 DEF IInv, CountNotLow
<1> QED
  BY <1>2, <1>3, <1>4

(* The places a step of the registry leads to.                             *)
LEMMA Goes ==
  ASSUME TypeOK, NEW t \in Threads, NEW place \in Places, Go(t, place, at[t][2]) \/ Done(t, place)
  PROVE  /\ \A u \in Threads \ {t} : at'[u] = at[u]
         /\ Go(t, place, at[t][2]) => at'[t][1] = place
         /\ Done(t, place) => at'[t][1] \in {place, "idle"}
BY DEF TypeOK, Go, Done, Idle

(* What a step of a call needs and leaves behind.                          *)
LEMMA CallStep ==
  ASSUME TypeOK, NEW t \in Threads, RegistryStep(t), Placed(t), ~crashed, callbacksCount >= 0,
         at[t][1] \notin Late => Settled,
         at[t][1] = "unregister" /\ callbacks # {} => callbacksCount > 0
  PROVE  /\ Placed(t)' /\ ~crashed' /\ callbacksCount' >= 0
         /\ at'[t][1] \notin Late => Settled'
         /\ \A u \in Threads \ {t} : at'[u] = at[u]
         /\ InRegistry(t)
<1> USE DEF Is, Late, Placed, Settled, Nothing, One, InRegistry, None
<1>0. callbacksCount \in Int /\ read[t] \in Int /\ timersMade \in Nat
  BY DEF TypeOK
<1>1. CASE Register(t)
  <2>1. at[t][1] = "register" /\ UNCHANGED <<callbacksCount, timer, timers, crashed>>
    BY <1>1 DEF Register
  <2>2. Go(t, "add", at[t][2]) \/ Done(t, "registered")
    BY <1>1 DEF Register
  <2>3. at'[t][1] \in {"add", "registered", "idle"} /\ \A u \in Threads \ {t} : at'[u] = at[u]
    BY <2>2, Goes DEF Places
  <2> QED
    BY <2>1, <2>3
<1>2. CASE ReadCount(t)
  <2>1. /\ at[t][1] \in {"add", "subtract"} /\ UNCHANGED <<callbacksCount, timer, timers, crashed>>
        /\ read'[t] = callbacksCount
    BY <1>2 DEF ReadCount, registryVars, TypeOK
  <2>2. Go(t, IF Is(t, "add") THEN "added" ELSE "subtracted", at[t][2])
    BY <1>2 DEF ReadCount
  <2>3. /\ at'[t][1] = IF Is(t, "add") THEN "added" ELSE "subtracted"
        /\ \A u \in Threads \ {t} : at'[u] = at[u]
    BY <2>2, Goes DEF Places
  <2> QED
    BY <2>1, <2>3
<1>3. CASE WriteCount(t)
  <2>1. /\ at[t][1] \in {"added", "subtracted"} /\ UNCHANGED <<timer, timers, crashed>>
        /\ callbacksCount' = callbacksCount + (IF Is(t, "added") THEN 1 ELSE -1)
    BY <1>3 DEF WriteCount
  <2>2. Go(t, IF Is(t, "added") THEN "timer" ELSE "cancel", at[t][2])
    BY <1>3 DEF WriteCount
  <2>3. /\ at'[t][1] = IF Is(t, "added") THEN "timer" ELSE "cancel"
        /\ \A u \in Threads \ {t} : at'[u] = at[u]
    BY <2>2, Goes DEF Places
  <2> QED
    BY <1>0, <2>1, <2>3
<1>4. CASE CheckTimer(t)
  <2>1. at[t][1] = "timer" /\ UNCHANGED <<callbacksCount, timer, timers, crashed>>
    BY <1>4 DEF CheckTimer, registryVars
  <2>2. IF callbacksCount # 0 /\ timer = None THEN Go(t, "new", at[t][2]) ELSE Done(t, "registered")
    BY <1>4 DEF CheckTimer
  <2>3. /\ IF callbacksCount # 0 /\ timer = None THEN at'[t][1] = "new"
           ELSE at'[t][1] \in {"registered", "idle"}
        /\ \A u \in Threads \ {t} : at'[u] = at[u]
    BY <2>2, Goes DEF Places
  <2> QED
    BY <1>0, <2>1, <2>3
<1>5. CASE NewTimer(t)
  <2>1. /\ at[t][1] = "new" /\ UNCHANGED <<callbacksCount, crashed>>
        /\ timer' = timersMade + 1 /\ timers' = timers \cup {timersMade + 1}
    BY <1>5 DEF NewTimer
  <2>2. Go(t, "schedule", at[t][2])
    BY <1>5 DEF NewTimer
  <2>3. at'[t][1] = "schedule" /\ \A u \in Threads \ {t} : at'[u] = at[u]
    BY <2>2, Goes DEF Places
  <2> QED
    BY <1>0, <2>1, <2>3
<1>6. CASE Schedule(t)
  <2>1. at[t][1] = "schedule" /\ UNCHANGED <<callbacksCount, timer, timers>> /\ timer \in timers
    BY <1>6 DEF Schedule, registryVars
  <2>2. Done(t, "registered") /\ UNCHANGED crashed
    BY <1>6, <2>1 DEF Schedule
  <2>3. at'[t][1] \in {"registered", "idle"} /\ \A u \in Threads \ {t} : at'[u] = at[u]
    BY <2>2, Goes DEF Places
  <2> QED
    BY <1>0, <2>1, <2>2, <2>3
<1>7. CASE Unregister(t)
  <2>1. at[t][1] = "unregister" /\ UNCHANGED <<callbacksCount, timer, timers, crashed>>
    BY <1>7 DEF Unregister
  <2>2. \/ callbacks # {} /\ Go(t, "subtract", at[t][2])
        \/ Done(t, "unregistered")
    BY <1>7 DEF Unregister
  <2>3. /\ \/ callbacks # {} /\ at'[t][1] = "subtract"
           \/ at'[t][1] \in {"unregistered", "idle"}
        /\ \A u \in Threads \ {t} : at'[u] = at[u]
    BY <2>2, Goes DEF Places
  <2> QED
    BY <2>1, <2>3
<1>8. CASE CheckCancel(t)
  <2>1. at[t][1] = "cancel" /\ UNCHANGED <<callbacksCount, timer, timers, crashed>>
    BY <1>8 DEF CheckCancel, registryVars
  <2>2. IF callbacksCount = 0 /\ timer # None THEN Go(t, "cancelling", at[t][2])
        ELSE Done(t, "unregistered")
    BY <1>8 DEF CheckCancel
  <2>3. /\ IF callbacksCount = 0 /\ timer # None THEN at'[t][1] = "cancelling"
           ELSE at'[t][1] \in {"unregistered", "idle"}
        /\ \A u \in Threads \ {t} : at'[u] = at[u]
    BY <2>2, Goes DEF Places
  <2> QED
    BY <2>1, <2>3
<1>9. CASE Cancel(t)
  <2>1. at[t][1] = "cancelling" /\ UNCHANGED <<callbacksCount, timer>> /\ timers' = timers \ {timer}
    BY <1>9 DEF Cancel
  <2>2. Go(t, "clear", at[t][2]) /\ UNCHANGED crashed
    BY <1>9, <2>1 DEF Cancel
  <2>3. at'[t][1] = "clear" /\ \A u \in Threads \ {t} : at'[u] = at[u]
    BY <2>2, Goes DEF Places
  <2> QED
    BY <2>1, <2>2, <2>3
<1>10. CASE ClearTimer(t)
  <2>1. at[t][1] = "clear" /\ UNCHANGED <<callbacksCount, timers, crashed>> /\ timer' = None
    BY <1>10 DEF ClearTimer
  <2>2. Done(t, "unregistered")
    BY <1>10 DEF ClearTimer
  <2>3. at'[t][1] \in {"unregistered", "idle"} /\ \A u \in Threads \ {t} : at'[u] = at[u]
    BY <2>2, Goes DEF Places
  <2> QED
    BY <2>1, <2>3
<1> QED
  BY <1>1, <1>2, <1>3, <1>4, <1>5, <1>6, <1>7, <1>8, <1>9, <1>10 DEF RegistryStep

(* A thread outside the registry is at none of the places that matter.     *)
LEMMA Outside ==
  ASSUME NEW t \in Threads, ~InRegistry(t)
  PROVE  Placed(t) /\ at[t][1] \notin Late
BY DEF InRegistry, Placed, Late, Is

(* Clients, the binder thread and the notification move a thread that is   *)
(* outside the registry, if any, to the beginning of a call or elsewhere   *)
(* outside.                                                                *)
LEMMA OtherStep ==
  ASSUME TypeOK,
         \/ \E c \in Clients : \/ ClientRegisters(c) \/ ClientUnregisters(c) \/ ClientDies(c)
                               \/ DeathNotice(c)
         \/ BinderTakes \/ NotificationStep
  PROVE  /\ UNCHANGED <<callbacksCount, timer, timers, read, crashed>>
         /\ \A u \in Threads :
              \/ at'[u] = at[u]
              \/ ~InRegistry(u) /\ at'[u][1] \in {"idle", "register", "unregister", "listen"}
<1> DEFINE Moved(u) == \/ at'[u] = at[u]
                       \/ /\ at[u][1] \in {"idle", "registered", "unregistered", "listen"}
                          /\ at'[u][1] \in {"idle", "register", "unregister", "listen"}
<1>1. ASSUME NEW c \in Clients, ClientRegisters(c) \/ ClientUnregisters(c) \/ ClientDies(c)
             \/ DeathNotice(c)
      PROVE  UNCHANGED <<callbacksCount, timer, timers, read, crashed, at>>
  BY <1>1 DEF ClientRegisters, ClientUnregisters, ClientDies, DeathNotice, Ask, registryVars,
              threadVars
<1>2. CASE BinderTakes
  <2>1. /\ UNCHANGED <<callbacksCount, timer, timers, read, crashed>>
        /\ at' = [at EXCEPT !["binder"] = Head(queue)] /\ at["binder"][1] = "idle"
    BY <1>2 DEF BinderTakes, registryVars, Busy, Idle
  <2>2. Head(queue)[1] \in {"register", "unregister"}
    BY <1>2, HeadTailProperties DEF BinderTakes, TypeOK
  <2>3. \A u \in Threads : Moved(u)
    BY <2>1, <2>2 DEF TypeOK
  <2> QED
    BY <2>1, <2>3 DEF InRegistry
<1>3. CASE NotificationStep
  <2>1. UNCHANGED <<callbacksCount, timer, timers, read, crashed>>
    BY <1>3 DEF NotificationStep, registryVars
  <2>2. ASSUME NEW t \in Threads, NEW p \in {"idle", "register", "unregister", "listen"},
               at[t][1] \in {"idle", "registered", "unregistered", "listen"},
               at' = [at EXCEPT ![t] = <<p, Own>>]
        PROVE  \A u \in Threads : Moved(u)
    BY <2>2 DEF TypeOK
  <2>3. \A t \in Threads : ~Busy(t) => at[t][1] = "idle"
    BY DEF Busy, Idle
  <2>4. {"main", "connect", "stop"} \subseteq Threads
    BY DEF Threads
  <2>5. ASSUME UNCHANGED at PROVE \A u \in Threads : Moved(u)
    BY <2>5
  <2>6. ASSUME Construct PROVE \A u \in Threads : Moved(u)
    BY <2>2, <2>3, <2>4, <2>6 DEF Construct, Go
  <2>7. ASSUME Listen PROVE \A u \in Threads : Moved(u)
    BY <2>2, <2>4, <2>7 DEF Listen, Is, Idle
  <2>8. ASSUME ScreenChanges PROVE \A u \in Threads : Moved(u)
    BY <2>5, <2>8 DEF ScreenChanges
  <2>9. ASSUME ScreenEvent PROVE \A u \in Threads : Moved(u)
    BY <2>2, <2>3, <2>4, <2>5, <2>9 DEF ScreenEvent, Go
  <2>10. ASSUME Destroy PROVE \A u \in Threads : Moved(u)
    BY <2>2, <2>3, <2>4, <2>5, <2>10 DEF Destroy, Go
  <2>11. ASSUME NEW t \in Threads, Registered(t) \/ Unregistered(t)
         PROVE  \A u \in Threads : Moved(u)
    <3>1. at[t][1] \in {"registered", "unregistered"}
      BY <2>11 DEF Registered, Unregistered, Is
    <3>2. at' = [at EXCEPT ![t] = <<"listen", Own>>] \/ at' = [at EXCEPT ![t] = <<"idle", Own>>]
      BY <2>11 DEF Registered, Unregistered, Idle
    <3> QED
      BY <2>2, <3>1, <3>2
  <2>12. \A u \in Threads : Moved(u)
    BY <1>3, <2>6, <2>7, <2>8, <2>9, <2>10, <2>11 DEF NotificationStep
  <2> QED
    BY <2>1, <2>12 DEF InRegistry
<1> QED
  BY <1>1, <1>2, <1>3

(* Every step keeps the invariant.                                         *)
LEMMA NextTimer ==
  ASSUME IInv, TimerInv, [Next]_vars
  PROVE  TimerInv'
<1>0. TypeOK
  BY DEF IInv
<1>1. CASE UNCHANGED vars
  BY <1>1 DEF TimerInv, InRegistry, Placed, Is, Settled, Nothing, One, vars, registryVars, threadVars
<1>2. CASE Next
  <2> SUFFICES ASSUME ~overlapped'
               PROVE  /\ ~lost' /\ ~crashed' /\ callbacksCount' >= 0
                      /\ \A t, u \in Threads : InRegistry(t)' /\ InRegistry(u)' => t = u
                      /\ \A t \in Threads : Placed(t)'
                      /\ (\A t \in Threads : at'[t][1] \notin Late) => Settled'
    BY DEF TimerInv
  <2>1. /\ ~overlapped
        /\ \A t, u \in Threads : InRegistry(t)' /\ InRegistry(u)' => t = u
    BY <1>2 DEF Next
  <2>2. /\ ~lost /\ ~crashed /\ callbacksCount >= 0
        /\ \A t, u \in Threads : InRegistry(t) /\ InRegistry(u) => t = u
        /\ \A t \in Threads : Placed(t)
        /\ (\A t \in Threads : at[t][1] \notin Late) => Settled
    BY <2>1 DEF TimerInv
  <2>3. ~lost'
    <3>1. \A t \in Threads : WriteCount(t) => read[t] = callbacksCount
      BY <2>2 DEF WriteCount, Placed
    <3> QED
      BY <1>2, <2>2, <3>1 DEF Next
  <2>4. ASSUME NEW t \in Threads, RegistryStep(t)
        PROVE  /\ ~crashed' /\ callbacksCount' >= 0
               /\ \A u \in Threads : Placed(u)'
               /\ (\A u \in Threads : at'[u][1] \notin Late) => Settled'
    <3>1. InRegistry(t)
      BY <2>4 DEF RegistryStep, InRegistry, Register, ReadCount, WriteCount, CheckTimer, NewTimer,
                  Schedule, Unregister, CheckCancel, Cancel, ClearTimer, Is
    <3>2. \A u \in Threads \ {t} : ~InRegistry(u)
      BY <2>2, <3>1
    <3>3. at[t][1] \notin Late => Settled
      BY <2>2, <3>2, Outside
    <3>4. at[t][1] = "unregister" /\ callbacks # {} => callbacksCount > 0
      BY <2>2, <3>2, SomebodyCounted
    <3>5. /\ Placed(t)' /\ ~crashed' /\ callbacksCount' >= 0
          /\ at'[t][1] \notin Late => Settled'
          /\ \A u \in Threads \ {t} : at'[u] = at[u]
      BY <1>0, <2>2, <2>4, <3>3, <3>4, CallStep
    <3>6. \A u \in Threads \ {t} : Placed(u)'
      BY <3>2, <3>5 DEF InRegistry, Placed, Is
    <3> QED
      BY <3>5, <3>6
  <2>5. CASE \/ \E c \in Clients : \/ ClientRegisters(c) \/ ClientUnregisters(c) \/ ClientDies(c)
                                   \/ DeathNotice(c)
             \/ BinderTakes \/ NotificationStep
    <3>1. /\ UNCHANGED <<callbacksCount, timer, timers, read, crashed>>
          /\ \A u \in Threads :
               \/ at'[u] = at[u]
               \/ ~InRegistry(u) /\ at'[u][1] \in {"idle", "register", "unregister", "listen"}
      BY <1>0, <2>5, OtherStep
    <3>2. \A u \in Threads : Placed(u)'
      BY <2>2, <3>1 DEF Placed, Is, Nothing, One
    <3>3. (\A u \in Threads : at'[u][1] \notin Late) => \A u \in Threads : at[u][1] \notin Late
      BY <3>1, Outside
    <3>4. Settled' = Settled
      BY <3>1 DEF Settled, Nothing, One
    <3>5. ~crashed' /\ callbacksCount' >= 0
      BY <2>2, <3>1
    <3> HIDE DEF Settled, Late
    <3> QED
      BY <2>2, <2>3, <2>1, <3>2, <3>3, <3>4, <3>5
  <2> QED
    BY <1>2, <2>1, <2>3, <2>4, <2>5 DEF Next
<1> QED
  BY <1>1, <1>2

-----------------------------------------------------------------------------
(* The invariant of the timer holds beside that of the count.              *)
LEMMA SpecTimerInv == Spec => []TimerInv
<1>1. IInv /\ TimerInv /\ [Next]_vars => TimerInv'
  BY NextTimer
<1> QED
  BY <1>1, InitTimer, SpecIInv, PTL DEF Spec

(* As long as registerCallback and unregisterCallback do not overlap, one  *)
(* timer runs while the count is not zero and none otherwise, for any      *)
(* number of clients, whoever dies and whatever is registered twice.       *)
THEOREM SpecTimerFollows == Spec => []TimerFollows
<1>1. TimerInv => TimerFollows
  <2> SUFFICES ASSUME TimerInv, ~overlapped, Rest
               PROVE  timers = IF callbacksCount = 0 THEN {} ELSE {timer}
    BY DEF TimerFollows
  <2>1. Settled
    BY Outside DEF TimerInv, Rest
  <2> QED
    BY <2>1 DEF Settled, Nothing, One
<1> QED
  BY <1>1, SpecTimerInv, PTL

(* No thread finds the timer missing or cancelled under its hands, unless  *)
(* calls overlap.                                                          *)
THEOREM SpecCrashNeedsOverlap == Spec => []CrashNeedsOverlap
<1>1. TypeOK /\ TimerInv => CrashNeedsOverlap
  BY DEF TypeOK, TimerInv, CrashNeedsOverlap
<1> QED
  BY <1>1, SpecTimerInv, SpecIInv, PTL DEF IInv

=============================================================================
