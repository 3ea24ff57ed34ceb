-------------------------- MODULE VpnServiceProofs --------------------------
(***************************************************************************)
(* What is proved of VpnService, for any profiles, any executables and any *)
(* number of requests, from the lemmas about the trait: that nothing is    *)
(* lost, that one stop at a time finds what it has seen, and, with the     *)
(* types of all variables, what there is of a run at each place of a       *)
(* thread that is alone at work.                                           *)
(***************************************************************************)
EXTENDS VpnService, BaseServiceProofs

(* A connect() that has not failed.                                        *)
Working(place) == place[1] \in {"connect", "kill", "launch", "store"}

(* One stop at a time finds what it has seen.                              *)
SeenObject ==
  \A t \in Threads, r \in Resources :
    at[t] = <<"stop", r>> /\ phase[t] = "call" => field[r] # None
SeenNotification ==
  \A t \in Threads :
    at[t] = <<"stop", "notification">> /\ phase[t] = "call" => notification \in listening
SeenReceiver ==
  \A t \in Threads : at[t] = <<"stop", "receiver">> =>
    /\ phase[t] \in {"call", "clear"} => receiverFlag
    /\ phase[t] = "call" => receiver

(* A notification listens when its connect() is about to store it, which   *)
(* no stop knows yet.                                                      *)
NotificationMade ==
  /\ notification \in Nat /\ notification <= runs
  /\ \A c \in Runs : /\ Working(at[c]) => notification # c
                     /\ at[c] = <<"connect", "assign">> => c \in listening

(* The flag of the receiver says what is true, but for one that is about   *)
(* to say it.                                                              *)
FlagFits ==
  /\ receiverFlag => receiver \/ \E t \in Threads :
       at[t] = <<"stop", "receiver">> /\ phase[t] = "clear"
  /\ \A t \in Starters : at[t] = <<"start", "receiver">> /\ phase[t] \in {"call", "set"} =>
       ~receiverFlag /\ (phase[t] = "set" => receiver)

Ready == SeenObject /\ SeenNotification /\ SeenReceiver /\ NotificationMade /\ FlagFits

Orderly ==
  /\ StopsOverlap => stopsOverlapped
  /\ crashed => stopsOverlapped \/ startedDirty
  /\ ~startedDirty /\ ~stopsOverlapped => Ready

-----------------------------------------------------------------------------
(* What the VPN service has and where a connect() is to make it.           *)
LEMMA VpnPlaces ==
  /\ "vpnThread" \in Resources /\ "conn" \in Resources
  /\ "vpnThread" \in ToMake(<<"connect", "vpnThread">>)
  /\ "conn" \in ToMake(<<"connect", "establish">>)
  /\ \A x \in {"run", "establish", "fd"} : <<"connect", x>> \in RunPlaces
  /\ ToMake(<<"connect", "run">>) = Resources \ {"trafficMonitor", "vpnThread"}
  /\ ToMake(<<"connect", "vpnThread">>) = Resources \ {"trafficMonitor"}
  /\ ToMake(<<"connect", "establish">>) = Resources \ {"trafficMonitor", "vpnThread"}
  /\ ToMake(<<"connect", "fd">>) = Executables
<1>1. "vpnThread" \in Resources /\ "conn" \in Resources
  BY VpnAssumption DEF Resources
<1>2. ToMake(<<"connect", "run">>) = Resources \ {"trafficMonitor", "vpnThread"}
      /\ ToMake(<<"connect", "vpnThread">>) = Resources \ {"trafficMonitor"}
      /\ ToMake(<<"connect", "establish">>) = Resources \ {"trafficMonitor", "vpnThread"}
      /\ ToMake(<<"connect", "fd">>) = Executables
  BY Names DEF ToMake
<1>3. \A x \in {"run", "establish", "fd"} : <<"connect", x>> \in RunPlaces
  BY DEF RunPlaces
<1>4. QED
  BY <1>1, <1>2, <1>3

-----------------------------------------------------------------------------
(* The steps that the VPN service adds.                                    *)

LEMMA StartPrepareTracked ==
  ASSUME Shapes, StartPrepare, History
  PROVE  Shapes' /\ (Kept => Kept')
<1>1. at[Binder] = <<"start", "prepare">> /\ UNCHANGED <<field, live, runs>> /\ Binder \in Threads
      /\ Binder \in Starters /\ Binder \notin Runs
  BY ThreadKinds DEF StartPrepare, fieldVars
<1>2. at[Binder] \notin Starting /\ at[Binder][1] # "store" /\ at[Binder] # Idle
  BY <1>1 DEF Starting, Idle
<1>3. startedDirty => startedDirty'
  BY DEF History
<1>4. CASE Leave(Binder, BeginStop)
  <2>1. Shapes' /\ (Tracked => Tracked')
    BY <1>1, <1>2, <1>4, BeginStopFits, LeaveTracked
  <2>2. QED
    BY <1>3, <2>1 DEF Kept
<1>5. CASE GoOn(Binder, <<"start", "profile">>)
  <2> DEFINE p == <<"start", "profile">>
  <2>1. at' = [at EXCEPT ![Binder] = p] /\ phase' = [phase EXCEPT ![Binder] = "check"]
        /\ next' = next
    BY <1>5 DEF GoOn, Go
  <2>2. p \in PlacesOf(Binder)
    BY <1>1 DEF PlacesOf, StarterPlaces, Starting
  <2>3. Shapes'
    <3>1. DOMAIN phase' = Threads /\ DOMAIN next' = Starters /\ DOMAIN field' = Resources
          /\ DOMAIN live' = Resources /\ runs' \in Nat
      BY <1>1, <2>1 DEF Shapes
    <3>2. QED
      BY <1>1, <2>1, <2>2, <3>1, MoveShapes
  <2>4. at'[Binder] = p
    BY <1>1, <2>1 DEF Shapes
  <2>5. ~startedDirty' => Clean(Binder)
    BY <1>1, <2>4 DEF History
  <2>6. Clean(Binder) => Tracked'
    BY <1>1, <2>1, BeginProfileTracked
  <2>7. QED
    BY <2>3, <2>5, <2>6 DEF Kept
<1>6. QED
  BY <1>4, <1>5 DEF StartPrepare

(* A connect() makes the vpnThread, or the tunnel.                         *)
LEMMA ConnectMakesTracked ==
  ASSUME Shapes, NEW c \in Runs, NEW x, NEW p \in RunPlaces, NEW r \in Resources,
         at[c] = <<"connect", x>>, p[1] # "store", GoOn(c, p), UNCHANGED runs,
         r \in ToMake(at[c]), r \notin ToMake(p), r # "trafficMonitor",
         ToMake(p) \subseteq ToMake(at[c]),
         field' = [field EXCEPT ![r] = c], live' = [live EXCEPT ![r] = @ \cup {c}]
  PROVE  Shapes' /\ (Tracked => Tracked')
<1>1. c \in Threads /\ c \notin Starters /\ at[c] # Idle /\ at[c] \notin Starting
      /\ at[c][1] = "connect"
  <2>1. at[c][1] = "connect"
    OBVIOUS
  <2>2. QED
    BY <2>1, ConnectFits
<1>2. at' = [at EXCEPT ![c] = p] /\ phase' = [phase EXCEPT ![c] = "check"] /\ next' = next
  BY DEF GoOn, Go
<1>3. p \in PlacesOf(c) /\ Advances(c, p)
  BY <1>1 DEF PlacesOf, Advances, Continues
<1>4. Shapes'
  <2>1. DOMAIN phase' = Threads /\ DOMAIN next' = Starters /\ DOMAIN field' = Resources
        /\ DOMAIN live' = Resources /\ runs' \in Nat
    BY <1>2 DEF Shapes
  <2>2. QED
    BY <1>1, <1>2, <1>3, <2>1, MoveShapes
<1>5. ASSUME Tracked PROVE Tracked'
  <2>1. c = runs /\ Current = c /\ c # None /\ (\A d \in Runs : d # c => at[d] = Idle)
        /\ (\A u \in Starters : at[u] \notin Starting)
        /\ Ahead = {s \in Resources : s \in ToMake(at[c])}
    BY <1>1, <1>5, RunAlone DEF Tracked
  <2>2. \A u \in Threads : at'[u] = IF u = c THEN p ELSE at[u]
    BY <1>2 DEF Shapes
  <2>3. r \in Ahead /\ r \notin Ahead'
    <3>1. \A d \in Runs : r \notin ToMake(at'[d])
      BY <2>1, <2>2, ThreadKinds, IdleIs
    <3>2. \A u \in Starters : at'[u] \notin Starting
      BY <1>1, <2>1, <2>2, ThreadKinds
    <3>3. QED
      BY <2>1, <3>1, <3>2 DEF Ahead
  <2>4. \A d \in Runs : at[d] # <<"store", r>>
    BY <2>1, IdleIs
  <2>5. field' = [field EXCEPT ![r] = Current] /\ live' = [live EXCEPT ![r] = @ \cup {Current}]
    BY <2>1
  <2>6. Current # None
    BY <2>1
  <2>7. QED
    BY <1>1, <1>2, <1>3, <1>5, <2>3, <2>4, <2>5, <2>6, MakeTracked
<1>6. QED
  BY <1>4, <1>5

LEMMA ConnectVpnThreadTracked ==
  ASSUME Shapes, NEW c \in Runs, ConnectVpnThread(c)
  PROVE  Shapes' /\ (Tracked => Tracked')
<1> DEFINE p == <<"connect", "run">>
<1>1. at[c] = <<"connect", "vpnThread">> /\ GoOn(c, p) /\ UNCHANGED runs
      /\ field' = [field EXCEPT !["vpnThread"] = c]
      /\ live' = [live EXCEPT !["vpnThread"] = @ \cup {c}]
  BY DEF ConnectVpnThread, Reached
<1>2. p \in RunPlaces /\ p[1] # "store"
  BY VpnPlaces
<1>3. "vpnThread" \in ToMake(at[c]) /\ "vpnThread" \notin ToMake(p) /\ ToMake(p) \subseteq ToMake(at[c])
  BY <1>1, VpnPlaces
<1> HIDE DEF p
<1>4. QED
  BY <1>1, <1>2, <1>3, VpnPlaces, ConnectMakesTracked

LEMMA ConnectVpnThreadRunTracked ==
  ASSUME Shapes, NEW c \in Runs, ConnectVpnThreadRun(c)
  PROVE  Shapes' /\ (Tracked => Tracked')
<1>1. at[c] = <<"connect", "run">> /\ at[c][1] = "connect" /\ UNCHANGED <<field, live, runs>>
  BY DEF ConnectVpnThreadRun, fieldVars
<1>2. c \in Threads /\ at[c] # Idle /\ at[c] \notin Starting /\ at[c][1] # "store"
  BY <1>1, ConnectFits
<1>3. CASE Throw(c)
  BY <1>1, <1>2, <1>3, ThrowTracked
<1>4. CASE GoOn(c, BeginKill)
  <2>1. PICK x \in Kills : BeginKill = <<"kill", x>>
    BY ExecutablesAssumption, BeginKillFits
  <2>2. BeginKill \in RunPlaces /\ BeginKill[1] # "store"
    BY <2>1 DEF RunPlaces
  <2>3. ToMake(BeginKill) \subseteq Resources \ {"trafficMonitor", "vpnThread"}
    BY <2>1, Names DEF ToMake
  <2>4. ToMake(BeginKill) \subseteq ToMake(at[c])
    BY <1>1, <2>3, VpnPlaces
  <2>5. QED
    BY <1>1, <1>4, <2>2, <2>4, ConnectGoes
<1>5. QED
  BY <1>3, <1>4 DEF ConnectVpnThreadRun

LEMMA ConnectEstablishTracked ==
  ASSUME Shapes, NEW c \in Runs, ConnectEstablish(c)
  PROVE  Shapes' /\ (Tracked => Tracked')
<1> DEFINE p == <<"connect", "fd">>
<1>1. at[c] = <<"connect", "establish">> /\ at[c][1] = "connect" /\ GoOn(c, p) /\ UNCHANGED runs
  BY DEF ConnectEstablish, Reached
<1>2. p \in RunPlaces /\ p[1] # "store"
  BY VpnPlaces
<1>3. "conn" \in ToMake(at[c]) /\ "conn" \notin ToMake(p) /\ ToMake(p) \subseteq ToMake(at[c])
  BY <1>1, VpnPlaces, Names
<1> HIDE DEF p
<1>4. CASE field' = [field EXCEPT !["conn"] = c] /\ live' = [live EXCEPT !["conn"] = @ \cup {c}]
  BY <1>1, <1>2, <1>3, <1>4, VpnPlaces, ConnectMakesTracked
<1>5. CASE field' = [field EXCEPT !["conn"] = None] /\ UNCHANGED live
  <2>1. c \in Threads /\ c \notin Starters /\ at[c] # Idle /\ at[c][1] # "store"
    BY <1>1, ConnectFits
  <2>2. p \in PlacesOf(c) /\ Advances(c, p)
    BY <1>2, <1>3, <2>1 DEF PlacesOf, Advances, Continues
  <2>3. at' = [at EXCEPT ![c] = p] /\ phase' = [phase EXCEPT ![c] = "check"] /\ next' = next
    BY <1>1 DEF GoOn, Go
  <2>4. Shapes'
    <3>1. DOMAIN phase' = Threads /\ DOMAIN next' = Starters /\ DOMAIN field' = Resources
          /\ DOMAIN live' = Resources /\ runs' \in Nat
      BY <1>1, <1>5, <2>3 DEF Shapes
    <3>2. QED
      BY <2>1, <2>2, <2>3, <3>1, MoveShapes
  <2>5. ASSUME Tracked PROVE Tracked'
    <3>1. "conn" \in Ahead
      BY <1>3, <2>1, <2>5, VpnPlaces, RunAlone DEF Tracked
    <3>2. live["conn"] = {}
      BY <2>5, <3>1 DEF Tracked, Unmade
    <3>3. Shrinks /\ Holds(p, "check")
      BY <1>5, <3>2 DEF Shrinks, Holds, Shapes
    <3>4. QED
      BY <1>1, <2>1, <2>2, <2>3, <2>5, <3>3, MoveTracked
  <2>6. QED
    BY <2>4, <2>5
<1>6. QED
  BY <1>4, <1>5 DEF ConnectEstablish

LEMMA ConnectFdTracked ==
  ASSUME Shapes, NEW c \in Runs, ConnectFd(c)
  PROVE  Shapes' /\ (Tracked => Tracked')
<1> DEFINE p == <<"launch", Head(LaunchOrder)>>
<1>1. at[c] = <<"connect", "fd">> /\ at[c][1] = "connect" /\ UNCHANGED <<field, live, runs>>
  BY DEF ConnectFd, fieldVars
<1>2. c \in Threads /\ at[c] # Idle /\ at[c] \notin Starting /\ at[c][1] # "store"
  BY <1>1, ConnectFits
<1>3. CASE Throw(c)
  BY <1>1, <1>2, <1>3, ThrowTracked
<1>4. CASE GoOn(c, p)
  <2>1. Head(LaunchOrder) \in Executables
    BY LaunchesInOrder, FirstIn, ExecutablesAssumption
  <2>2. p \in RunPlaces /\ p[1] # "store"
    BY <2>1 DEF RunPlaces
  <2>3. ToMake(p) \subseteq Executables
    BY Names DEF ToMake
  <2>4. ToMake(p) \subseteq ToMake(at[c])
    BY <1>1, <2>3, VpnPlaces
  <2> HIDE DEF p
  <2>5. QED
    BY <1>1, <1>4, <2>2, <2>4, ConnectGoes
<1>5. QED
  BY <1>3, <1>4 DEF ConnectFd

LEMMA RevokeTracked ==
  ASSUME Shapes, Revoke
  PROVE  Shapes' /\ (Tracked => Tracked')
BY ThreadKinds, EnterStopTracked DEF Revoke, Active, fieldVars

-----------------------------------------------------------------------------
(* All steps of the VPN service.                                           *)

LEMMA NextKept ==
  ASSUME Shapes, Kept, [Next]_vars
  PROVE  Shapes' /\ Kept'
<1>1. CASE UNCHANGED vars
  <2>1. UNCHANGED <<field, live, threadVars, historyVars>>
    BY <1>1 DEF vars, baseVars, fieldVars
  <2>2. Shapes' /\ (Tracked => Tracked') /\ startedDirty' = startedDirty
    BY <2>1, HandleMessageTracked DEF historyVars
  <2>3. QED
    BY <2>2 DEF Kept
<1>2. ASSUME History, Shapes' /\ (Tracked => Tracked') PROVE Shapes' /\ Kept'
  BY <1>2 DEF History, Kept
<1>3. CASE Request
  <2>1. Use \/ Close \/ Revoke
    BY <1>3 DEF Request
  <2>2. History
    BY <1>3 DEF Request, CountUse, CountClose, CountOverlap
  <2>3. QED
    BY <1>2, <2>1, <2>2, UseTracked, CloseTracked, RevokeTracked
<1>4. ASSUME NEW t \in Threads, ThreadStep(t) PROVE Shapes' /\ Kept'
  <2>1. History
    BY <1>4 DEF ThreadStep, NoRequest
  <2>2. CASE StartPrepare
    BY <2>1, <2>2, StartPrepareTracked
  <2>3. CASE BaseStep(t)
    BY <1>2, <2>1, <2>3, BaseStepTracked
  <2>4. CASE t \in Runs /\ (ConnectVpnThread(t) \/ ConnectVpnThreadRun(t)
                              \/ ConnectEstablish(t) \/ ConnectFd(t))
    BY <1>2, <2>1, <2>4, ConnectVpnThreadTracked, ConnectVpnThreadRunTracked,
       ConnectEstablishTracked, ConnectFdTracked
  <2>5. QED
    BY <1>4, <2>2, <2>3, <2>4 DEF ThreadStep
<1>5. QED
  BY <1>1, <1>3, <1>4 DEF Next

(* However stops race with the connect() of the VPN service and with each  *)
(* other, whichever profiles are asked for how often: a guard, a thread or *)
(* a tunnel that is at work is in its field, or its connect() is about to  *)
(* store it, as long as no run started before the last one was gone.       *)
THEOREM SpecNothingLost == Spec => []NothingLost
<1>1. BaseInit => Shapes /\ Kept
  BY BaseInitShapes
<1>2. Shapes /\ Kept /\ [Next]_vars => Shapes' /\ Kept'
  BY NextKept
<1>3. Kept => NothingLost
  BY KeptFinds
<1>4. QED
  BY <1>1, <1>2, <1>3, PTL DEF Spec

-----------------------------------------------------------------------------
(* What a step of one thread, which goes to a place p and is in phase q    *)
(* there, leaves of Ready.                                                 *)

Moves(t, p, q) ==
  at' = [at EXCEPT ![t] = p] /\ phase' = [phase EXCEPT ![t] = q] /\ runs' = runs

(* A connect() that has failed does not work again.                        *)
Calm(t, p) == p # <<"connect", "assign">> /\ (Working(p) => Working(at[t]))

(* No field becomes null that another stop has seen.                       *)
Keeps(t) ==
  \A r \in Resources :
    \/ field'[r] # None \/ field[r] = None
    \/ \A u \in Threads \ {t} : at[u] # <<"stop", r>>

LEMMA MovesTo ==
  ASSUME Shapes, NEW t \in Threads, NEW p, NEW q, Moves(t, p, q)
  PROVE  /\ at'[t] = p /\ phase'[t] = q
         /\ \A u \in Threads : u # t => at'[u] = at[u] /\ phase'[u] = phase[u]
BY DEF Shapes, Moves

LEMMA ObjectFrame ==
  ASSUME Shapes, SeenObject, NEW t \in Threads, NEW p, NEW q, Moves(t, p, q), Keeps(t),
         q = "call" => \A r \in Resources : p = <<"stop", r>> => field'[r] # None
  PROVE  SeenObject'
<1> SUFFICES ASSUME NEW u \in Threads, NEW r \in Resources,
                    at'[u] = <<"stop", r>>, phase'[u] = "call"
             PROVE  field'[r] # None
  BY DEF SeenObject
<1>1. CASE u = t
  BY <1>1, MovesTo
<1>2. CASE u # t
  <2>1. at[u] = <<"stop", r>> /\ phase[u] = "call"
    BY <1>2, MovesTo
  <2>2. QED
    BY <1>2, <2>1 DEF SeenObject, Keeps
<1>3. QED
  BY <1>1, <1>2

LEMMA NotificationFrame ==
  ASSUME Shapes, SeenNotification, NotificationMade, NEW t \in Threads, NEW p, NEW q,
         Moves(t, p, q), UNCHANGED <<notification, listening>>, Calm(t, p),
         q = "call" /\ p = <<"stop", "notification">> => notification \in listening
  PROVE  SeenNotification' /\ NotificationMade'
<1>1. at'[t] = p /\ phase'[t] = q
      /\ \A u \in Threads : u # t => at'[u] = at[u] /\ phase'[u] = phase[u]
  BY MovesTo
<1>2. SeenNotification'
  BY <1>1 DEF SeenNotification
<1>3. \A c \in Runs : (Working(at'[c]) => Working(at[c]))
                        /\ (at'[c] = <<"connect", "assign">> => at[c] = <<"connect", "assign">>)
  BY <1>1, ThreadKinds DEF Calm
<1>4. NotificationMade'
  BY <1>3 DEF NotificationMade, Moves
<1>5. QED
  BY <1>2, <1>4

LEMMA ReceiverFrame ==
  ASSUME Shapes, SeenReceiver, FlagFits, NEW t \in Threads, NEW p, NEW q,
         Moves(t, p, q), UNCHANGED <<receiverFlag, receiver>>,
         p \in {<<"stop", "receiver">>, <<"start", "receiver">>} => q = "check",
         at[t] = <<"stop", "receiver">> => phase[t] # "clear"
  PROVE  SeenReceiver' /\ FlagFits'
<1>1. at'[t] = p /\ phase'[t] = q
      /\ \A u \in Threads : u # t => at'[u] = at[u] /\ phase'[u] = phase[u]
  BY MovesTo
<1>2. SeenReceiver'
  <2> SUFFICES ASSUME NEW u \in Threads, at'[u] = <<"stop", "receiver">>
               PROVE  (phase'[u] \in {"call", "clear"} => receiverFlag')
                      /\ (phase'[u] = "call" => receiver')
    BY DEF SeenReceiver
  <2>1. CASE u = t
    BY <1>1, <2>1
  <2>2. CASE u # t
    BY <1>1, <2>2 DEF SeenReceiver
  <2>3. QED
    BY <2>1, <2>2
<1>3. ASSUME receiverFlag', ~receiver'
      PROVE  \E u \in Threads : at'[u] = <<"stop", "receiver">> /\ phase'[u] = "clear"
  <2>1. PICK u \in Threads : at[u] = <<"stop", "receiver">> /\ phase[u] = "clear"
    BY <1>3 DEF FlagFits
  <2>2. QED
    BY <1>1, <2>1
<1>4. ASSUME NEW u \in Starters, at'[u] = <<"start", "receiver">>, phase'[u] \in {"call", "set"}
      PROVE  ~receiverFlag' /\ (phase'[u] = "set" => receiver')
  <2>1. u # t /\ u \in Threads
    BY <1>1, <1>4, ThreadKinds
  <2>2. QED
    BY <1>1, <1>4, <2>1 DEF FlagFits
<1>5. QED
  BY <1>2, <1>3, <1>4 DEF FlagFits

(* A thread goes on, and shows nothing.                                    *)
LEMMA GoReady ==
  ASSUME Shapes, Ready, NEW t \in Threads, NEW p, Go(t, p), UNCHANGED <<runs, displayVars>>,
         Keeps(t), Calm(t, p), at[t] = <<"stop", "receiver">> => phase[t] # "clear"
  PROVE  Ready'
<1>1. Moves(t, p, "check")
  BY DEF Go, Moves
<1>2. UNCHANGED <<notification, listening>> /\ UNCHANGED <<receiverFlag, receiver>>
  BY DEF displayVars
<1>3. SeenObject'
  BY <1>1, ObjectFrame DEF Ready
<1>4. SeenNotification' /\ NotificationMade'
  BY <1>1, <1>2, NotificationFrame DEF Ready
<1>5. SeenReceiver' /\ FlagFits'
  BY <1>1, <1>2, ReceiverFrame DEF Ready
<1>6. QED
  BY <1>3, <1>4, <1>5 DEF Ready

(* It stays where it is.                                                   *)
LEMMA PhaseReady ==
  ASSUME Shapes, Ready, NEW t \in Threads, NEW q, Phase(t, q),
         UNCHANGED <<field, runs, displayVars>>,
         q = "call" => \A r \in Resources : at[t] = <<"stop", r>> => field[r] # None,
         q = "call" /\ at[t] = <<"stop", "notification">> => notification \in listening,
         at[t] # <<"stop", "receiver">>, at[t] # <<"start", "receiver">>
  PROVE  Ready'
<1>1. Moves(t, at[t], q)
  BY DEF Phase, Moves, Shapes
<1>2. UNCHANGED <<notification, listening>> /\ UNCHANGED <<receiverFlag, receiver>>
  BY DEF displayVars
<1>3. Keeps(t)
  BY DEF Keeps
<1>4. SeenObject'
  BY <1>1, <1>3, ObjectFrame DEF Ready
<1>5. SeenNotification' /\ NotificationMade'
  <2>1. CASE at[t] # <<"connect", "assign">>
    <3>1. Calm(t, at[t])
      BY <2>1 DEF Calm
    <3>2. QED
      BY <1>1, <1>2, <3>1, NotificationFrame DEF Ready
  <2>2. CASE at[t] = <<"connect", "assign">>
    <3>1. \A u \in Threads : at'[u] = at[u] /\ (u # t => phase'[u] = phase[u])
      BY <1>1, MovesTo
    <3>2. QED
      BY <1>2, <2>2, <3>1, ThreadKinds DEF Ready, SeenNotification, NotificationMade
  <2>3. QED
    BY <2>1, <2>2
<1>6. SeenReceiver' /\ FlagFits'
  BY <1>1, <1>2, ReceiverFrame DEF Ready
<1>7. QED
  BY <1>4, <1>5, <1>6 DEF Ready

(* The places of stopRunner, and those of a start.                         *)
LEMMA CalmPlaces ==
  /\ \A p \in StopPlaces \cup StarterPlaces : \A t : Calm(t, p)
  /\ \A t, p : Working(at[t]) /\ p # <<"connect", "assign">> => Calm(t, p)
<1>1. ASSUME NEW p \in StopPlaces \cup StarterPlaces
      PROVE  p # <<"connect", "assign">> /\ ~Working(p)
  <2>1. p = <<"idle", "">> \/ (\E x : p = <<"stop", x>>) \/ (\E x : p = <<"start", x>>)
        \/ p = <<"use", "switch">>
    BY DEF StopPlaces, StarterPlaces, Starting, Idle
  <2>2. ASSUME NEW m \in {"idle", "stop", "start", "use"}, NEW x, p = <<m, x>>
        PROVE  p # <<"connect", "assign">> /\ ~Working(p)
    <3>1. p[1] = m
      BY <2>2
    <3>2. QED
      BY <3>1 DEF Working
  <2>3. QED
    BY <2>1, <2>2
<1>2. QED
  BY <1>1 DEF Calm

LEMMA OnwardCalm ==
  ASSUME Shapes, NEW t \in Threads, NEW x, at[t] \in {<<"stop", x>>, <<"kill", x>>}
  PROVE  Calm(t, Onward(t))
<1>1. Onward(t) \in PlacesOf(t)
  BY OnwardFits
<1>2. CASE at[t] = <<"stop", x>>
  <2>1. Onward(t) \in StopPlaces
    <3>1. at[t] \in StopPlaces
      <4>1. at[t] \in RunPlaces \/ at[t] \in StarterPlaces \/ at[t] \in StopPlaces
        BY DEF Shapes, PlacesOf
      <4>2. QED
        BY <1>2, <4>1 DEF RunPlaces, StarterPlaces, Starting
    <3>2. x \in Stops
      BY <1>2, <3>1 DEF StopPlaces, Idle
    <3>3. Onward(t) = After("stop", StopOrder, x, Idle)
      BY <1>2 DEF Onward, InStop
    <3>4. Onward(t) = Idle \/ \E y \in Stops : Onward(t) = <<"stop", y>>
      BY <3>2, <3>3, StopsInOrder, AfterIn
    <3>5. QED
      BY <3>4 DEF StopPlaces
  <2>2. QED
    BY <2>1, CalmPlaces
<1>3. CASE at[t] = <<"kill", x>>
  <2>1. x \in Kills
    <3>1. at[t] \notin StopPlaces /\ at[t] \notin StarterPlaces
      BY <1>3 DEF StarterPlaces, StopPlaces, Starting, Idle
    <3>2. at[t] \in RunPlaces
      BY <3>1 DEF Shapes, PlacesOf
    <3>3. QED
      BY <1>3, <3>1, <3>2 DEF RunPlaces
  <2>2. Onward(t) = After("kill", KillOrder, x, AfterKill)
    BY <1>3 DEF Onward, InStop
  <2>3. Onward(t) = AfterKill \/ \E y \in Kills : Onward(t) = <<"kill", y>>
    BY <2>1, <2>2, KillsInOrder, AfterIn
  <2>4. Onward(t) # <<"connect", "assign">>
    BY <2>3 DEF AfterKill
  <2>5. Working(at[t])
    BY <1>3 DEF Working
  <2>6. QED
    BY <2>4, <2>5, CalmPlaces
<1>4. QED
  BY <1>2, <1>3

(* A thread in stopRunner is the only one there.                           *)
LEMMA StopAlone ==
  ASSUME ~StopsOverlap, NEW t \in Threads, NEW x, at[t] = <<"stop", x>>
  PROVE  \A u \in Threads : u # t => \A r : at[u] # <<"stop", r>>
<1> SUFFICES ASSUME NEW u \in Threads, u # t, NEW r, at[u] = <<"stop", r>> PROVE FALSE
  OBVIOUS
<1>1. InStop(t) /\ InStop(u)
  BY DEF InStop
<1>2. QED
  BY <1>1 DEF StopsOverlap

(* An exception outside the start of a run.                                *)
LEMMA ThrowReady ==
  ASSUME Shapes, Ready, NEW t \in Threads, Throw(t), UNCHANGED <<field, runs, displayVars>>,
         at[t] # <<"stop", "receiver">>
  PROVE  Ready'
<1> DEFINE p == IF t \in Runs /\ ~InStop(t) THEN BeginStop ELSE Idle
<1>1. p \in StopPlaces
  BY BeginStopFits
<1>2. Go(t, p)
  BY DEF Throw, Leave
<1> HIDE DEF p
<1>3. Calm(t, p) /\ Keeps(t)
  BY <1>1, CalmPlaces DEF Keeps
<1>4. QED
  BY <1>2, <1>3, GoReady

LEMMA ReleaseReady ==
  ASSUME Shapes, Tracked, Ready, ~StopsOverlap, NEW t \in Threads, Release(t)
  PROVE  Ready'
<1>1. PICK r \in Resources : ReleaseCheck(t, r) \/ ReleaseCall(t, r) \/ ReleaseClear(t, r)
  BY DEF Release
<1>2. at[t] \in {<<"stop", r>>, <<"kill", r>>}
  BY <1>1 DEF ReleaseCheck, ReleaseCall, ReleaseClear, Releases
<1>3. at[t] # <<"stop", "receiver">> /\ at[t] # <<"stop", "notification">>
      /\ at[t] # <<"start", "receiver">>
  <2>1. r # "receiver" /\ r # "notification"
    BY ExecutablesAssumption DEF Resources
  <2>2. QED
    BY <1>2, <2>1
<1>4. Calm(t, Onward(t))
  BY <1>2, OnwardCalm
<1>5. CASE ReleaseCheck(t, r)
  <2>1. UNCHANGED <<field, runs, displayVars>>
    BY <1>5 DEF ReleaseCheck, fieldVars
  <2>2. CASE Go(t, Onward(t))
    BY <1>3, <1>4, <2>1, <2>2, GoReady DEF Keeps
  <2>3. CASE Phase(t, "call") /\ field[r] # None
    <3>1. \A s \in Resources : at[t] = <<"stop", s>> => field[s] # None
      BY <1>2, <2>3
    <3>2. QED
      BY <1>3, <2>1, <2>3, <3>1, PhaseReady
  <2>4. QED
    BY <1>5, <2>2, <2>3 DEF ReleaseCheck, GoOn
<1>6. CASE ReleaseCall(t, r)
  <2>1. UNCHANGED <<field, runs, displayVars>> /\ (Throw(t) \/ Phase(t, "clear"))
    BY <1>6 DEF ReleaseCall
  <2>2. CASE Throw(t)
    BY <1>3, <2>1, <2>2, ThrowReady
  <2>3. CASE Phase(t, "clear")
    BY <1>3, <2>1, <2>3, PhaseReady
  <2>4. QED
    BY <2>1, <2>2, <2>3
<1>7. CASE ReleaseClear(t, r)
  <2>1. UNCHANGED <<runs, displayVars>> /\ Go(t, Onward(t)) /\ field' = [field EXCEPT ![r] = None]
        /\ Releases(t, r) /\ phase[t] = "clear"
    BY <1>7 DEF ReleaseClear, GoOn
  <2>2. \A s \in Resources : s # r => field'[s] = field[s]
    BY <2>1 DEF Shapes
  <2>3. Keeps(t)
    <3>1. CASE at[t] = <<"stop", r>>
      <4>1. \A u \in Threads : u # t => \A s : at[u] # <<"stop", s>>
        BY <3>1, StopAlone
      <4>2. QED
        BY <4>1 DEF Keeps
    <3>2. CASE at[t] = <<"kill", r>>
      <4>1. r \notin Ahead
        BY <2>1 DEF Tracked, Released
      <4>2. t \in Runs /\ at[t] # Idle /\ r \in Kills
        <5>1. at[t] \notin StopPlaces /\ at[t] \notin StarterPlaces /\ at[t] # Idle
          BY <3>2 DEF StarterPlaces, StopPlaces, Starting, Idle
        <5>2. t \in Runs /\ at[t] \in RunPlaces
          BY <5>1 DEF Shapes, PlacesOf
        <5>3. QED
          BY <3>2, <5>1, <5>2 DEF RunPlaces
      <4>3. ToMake(at[t]) = Resources \ {"trafficMonitor", "vpnThread"}
        BY <3>2 DEF ToMake
      <4>4. r \in ToMake(at[t])
        BY <4>2, <4>3, Names DEF Kills
      <4>5. QED
        BY <4>1, <4>2, <4>4 DEF Ahead
    <3>3. QED
      BY <1>2, <3>1, <3>2
  <2>4. QED
    BY <1>3, <1>4, <2>1, <2>3, GoReady
<1>8. QED
  BY <1>1, <1>5, <1>6, <1>7

(* The messages of stopRunner, its end, and its notification.              *)
LEMMA StopOtherReady ==
  ASSUME Shapes, Ready, ~StopsOverlap, NEW t \in Threads,
         \/ StopPost(t) \/ StopForget(t) \/ StopNotificationCheck(t) \/ StopNotificationCall(t)
  PROVE  Ready'
<1>1. PICK x \in {"stopping", "stopped", "forget", "notification"} : at[t] = <<"stop", x>>
  BY DEF StopPost, StopForget, StopNotificationCheck, StopNotificationCall
<1>2. UNCHANGED <<field, runs>> /\ Keeps(t)
  BY DEF StopPost, StopForget, StopNotificationCheck, StopNotificationCall, fieldVars, Keeps
<1>3. at[t] # <<"stop", "receiver">> /\ at[t] # <<"start", "receiver">> /\ Calm(t, Onward(t))
  BY <1>1, OnwardCalm
<1>4. ASSUME UNCHANGED displayVars, NEW p, Go(t, p), Calm(t, p) PROVE Ready'
  BY <1>2, <1>3, <1>4, GoReady
<1>5. CASE StopPost(t)
  BY <1>3, <1>4, <1>5 DEF StopPost, GoOn
<1>6. CASE StopForget(t)
  <2>1. Calm(t, BeginStart) /\ Calm(t, Idle)
    <3>1. BeginStart \in StarterPlaces /\ Idle \in StopPlaces
      BY BeginStopFits DEF BeginStart, StarterPlaces
    <3>2. QED
      BY <3>1, CalmPlaces
  <2>2. QED
    BY <1>4, <1>6, <2>1 DEF StopForget, GoOn
<1>7. CASE StopNotificationCheck(t)
  <2>1. CASE Phase(t, "call") /\ notification \in listening
    <3>1. \A r \in Resources : at[t] # <<"stop", r>>
      BY <1>1, ExecutablesAssumption DEF Resources
    <3>2. UNCHANGED displayVars
      BY <1>7 DEF StopNotificationCheck
    <3>3. QED
      BY <1>2, <1>3, <2>1, <3>1, <3>2, PhaseReady
  <2>2. QED
    BY <1>3, <1>4, <1>7, <2>1 DEF StopNotificationCheck, GoOn
<1>8. CASE StopNotificationCall(t)
  <2>1. at[t] = <<"stop", "notification">> /\ phase[t] = "call" /\ notification \in listening
    BY <1>8 DEF StopNotificationCall, Ready, SeenNotification
  <2>2. Moves(t, Onward(t), "check") /\ UNCHANGED <<receiverFlag, receiver>>
        /\ listening' = listening \ {notification} /\ notification' = notification
    BY <1>8, <2>1 DEF StopNotificationCall, GoOn, Go, Moves
  <2>3. at'[t] = Onward(t) /\ phase'[t] = "check"
        /\ \A u \in Threads : u # t => at'[u] = at[u] /\ phase'[u] = phase[u]
    BY <2>2, MovesTo
  <2>4. SeenObject'
    BY <1>2, <2>2, ObjectFrame DEF Ready
  <2>5. SeenNotification'
    BY <2>1, <2>3, StopAlone DEF SeenNotification
  <2>6. NotificationMade'
    <3>1. \A c \in Runs : (Working(at'[c]) => Working(at[c]))
                            /\ (at'[c] = <<"connect", "assign">> => at[c] = <<"connect", "assign">>)
      BY <1>3, <2>3, ThreadKinds DEF Calm
    <3>2. notification \in Nat /\ notification <= runs
          /\ \A c \in Runs : /\ Working(at[c]) => notification # c
                             /\ at[c] = <<"connect", "assign">> => c \in listening
      BY DEF Ready, NotificationMade
    <3>3. ASSUME NEW c \in Runs, at'[c] = <<"connect", "assign">> PROVE c \in listening'
      <4>1. at[c] = <<"connect", "assign">>
        BY <3>1, <3>3
      <4>2. Working(at[c])
        BY <4>1 DEF Working
      <4>3. c # notification
        BY Zenon, <3>2, <4>2
      <4>4. c \in listening
        BY Zenon, <3>2, <4>1
      <4>5. QED
        BY <2>2, <4>3, <4>4
    <3>4. QED
      BY <2>2, <3>1, <3>2, <3>3 DEF NotificationMade, Moves
  <2>7. SeenReceiver' /\ FlagFits'
    BY <1>3, <2>2, ReceiverFrame DEF Ready
  <2>8. QED
    BY <2>4, <2>5, <2>6, <2>7 DEF Ready
<1>9. QED
  BY <1>5, <1>6, <1>7, <1>8

(* Unregistering the receiver.                                             *)
LEMMA StopReceiverReady ==
  ASSUME Shapes, Ready, ~StopsOverlap, NEW t \in Threads,
         StopReceiverCheck(t) \/ StopReceiverCall(t) \/ StopReceiverClear(t)
  PROVE  Ready'
<1>1. at[t] = <<"stop", "receiver">> /\ UNCHANGED <<field, runs, notification, listening>>
  BY DEF StopReceiverCheck, StopReceiverCall, StopReceiverClear, fieldVars, displayVars
<1>2. Keeps(t) /\ (\A r \in Resources : at[t] # <<"stop", r>>) /\ Calm(t, Onward(t)) /\ Calm(t, at[t])
  <2>1. "receiver" \notin Resources
    BY ExecutablesAssumption DEF Resources
  <2>2. QED
    BY <1>1, <2>1, OnwardCalm DEF Keeps, Calm
<1>3. \A u \in Threads : u # t => \A r : at[u] # <<"stop", r>>
  BY <1>1, StopAlone
<1>4. phase[t] = "call" => receiver
  BY <1>1 DEF Ready, SeenReceiver
<1>5. PICK p, q : /\ Moves(t, p, q)
                  /\ \/ p = Onward(t) /\ q = "check"
                     \/ p = at[t] /\ q \in {"call", "clear"}
                  /\ \/ /\ UNCHANGED <<receiverFlag, receiver>> /\ phase[t] = "check"
                        /\ receiverFlag <=> q = "call"
                        /\ q # "clear"
                     \/ phase[t] = "call" /\ q = "clear" /\ receiverFlag' = receiverFlag
                     \/ phase[t] = "clear" /\ q = "check" /\ ~receiverFlag'
  <2>1. CASE StopReceiverCheck(t)
    BY <1>1, <2>1 DEF StopReceiverCheck, displayVars, GoOn, Go, Phase, Moves, Shapes
  <2>2. CASE StopReceiverCall(t)
    <3>1. Moves(t, at[t], "clear") /\ phase[t] = "call" /\ receiverFlag' = receiverFlag
      BY <1>1, <1>4, <2>2 DEF StopReceiverCall, Phase, Moves, Shapes
    <3>2. QED
      BY <3>1
  <2>3. CASE StopReceiverClear(t)
    <3>1. Moves(t, Onward(t), "check") /\ phase[t] = "clear" /\ ~receiverFlag'
      BY <1>1, <2>3 DEF StopReceiverClear, GoOn, Go, Moves
    <3>2. QED
      BY <3>1
  <2>4. QED
    BY <2>1, <2>2, <2>3
<1>6. at'[t] = p /\ phase'[t] = q
      /\ \A u \in Threads : u # t => at'[u] = at[u] /\ phase'[u] = phase[u]
  BY <1>5, MovesTo
<1>7. SeenObject'
  BY <1>1, <1>2, <1>5, ObjectFrame DEF Ready
<1>8. SeenNotification' /\ NotificationMade'
  <2>1. p # <<"stop", "notification">> \/ q # "call"
    BY <1>1, <1>5
  <2>2. Calm(t, p)
    BY <1>2, <1>5
  <2>3. QED
    BY <1>1, <1>5, <2>1, <2>2, NotificationFrame DEF Ready
<1>9. phase[t] = "check" /\ receiverFlag => receiver
  BY <1>3 DEF Ready, FlagFits
<1>10. phase[t] = "call" => receiverFlag
  BY <1>1 DEF Ready, SeenReceiver
<1>11. receiver' = receiver \/ q # "call"
  BY <1>5
<1>12. SeenReceiver'
  <2> SUFFICES ASSUME NEW u \in Threads, at'[u] = <<"stop", "receiver">>
               PROVE  (phase'[u] \in {"call", "clear"} => receiverFlag')
                      /\ (phase'[u] = "call" => receiver')
    BY DEF SeenReceiver
  <2>1. u = t
    BY <1>3, <1>6
  <2>2. QED
    BY <1>5, <1>6, <1>9, <1>10, <2>1
<1>13. receiverFlag' => receiver' \/ \E u \in Threads :
         at'[u] = <<"stop", "receiver">> /\ phase'[u] = "clear"
  <2>1. CASE q = "clear"
    <3>1. at'[t] = <<"stop", "receiver">>
      BY <1>1, <1>5, <1>6, <2>1
    <3>2. QED
      BY <1>6, <2>1, <3>1
  <2>2. CASE q # "clear"
    <3>1. CASE UNCHANGED <<receiverFlag, receiver>> /\ phase[t] = "check"
      <4>1. receiverFlag' = receiverFlag /\ receiver' = receiver
        BY <3>1
      <4>2. ASSUME receiverFlag' PROVE receiver'
        <5>1. receiverFlag
          BY <4>1, <4>2
        <5>2. receiver
          BY <1>9, <3>1, <5>1
        <5>3. QED
          BY <4>1, <5>2
      <4>3. QED
        BY Zenon, <4>2
    <3>2. QED
      BY <1>5, <2>2, <3>1
  <2>3. QED
    BY <2>1, <2>2
<1>14. ASSUME NEW u \in Starters, at'[u] = <<"start", "receiver">>, phase'[u] \in {"call", "set"}
       PROVE  ~receiverFlag' /\ (phase'[u] = "set" => receiver')
  <2>1. u \in Threads /\ u # t
    <3>1. p = <<"start", "receiver">> => q = "check"
      BY <1>1, <1>5
    <3>2. QED
      BY <1>6, <1>14, <3>1, ThreadKinds
  <2>2. ~receiverFlag /\ (phase[u] = "set" => receiver)
    BY <1>6, <1>14, <2>1 DEF Ready, FlagFits
  <2>3. phase[t] # "clear"
    BY <1>1, <2>2 DEF Ready, SeenReceiver
  <2>4. QED
    BY <1>5, <1>6, <1>10, <2>1, <2>2, <2>3
<1>15. QED
  BY <1>7, <1>8, <1>12, <1>13, <1>14 DEF Ready, FlagFits

LEMMA StopRunnerReady ==
  ASSUME Shapes, Tracked, Ready, ~StopsOverlap, NEW t \in Threads, StopRunner(t)
  PROVE  Ready'
BY ReleaseReady, StopOtherReady, StopReceiverReady DEF StopRunner

(* A step that is only seen in the place of its thread.                    *)
LEMMA GoOnReady ==
  ASSUME Shapes, Ready, NEW t \in Threads, NEW p, Go(t, p), Calm(t, p),
         UNCHANGED <<field, runs, displayVars>>, \A x : at[t] # <<"stop", x>>
  PROVE  Ready'
<1>1. Keeps(t)
  BY DEF Keeps
<1>2. QED
  BY <1>1, GoReady

(* The start of a run.                                                     *)
LEMMA StartOtherReady ==
  ASSUME Shapes, Ready, NEW t \in Starters,
         \/ StartProfile(t) \/ StartTrafficMonitorRun(t) \/ StartPost(t) \/ StartTrafficMonitor(t)
  PROVE  Ready'
<1>1. t \in Threads /\ \A x : at[t] # <<"stop", x>>
  BY ThreadKinds DEF StartProfile, StartTrafficMonitorRun, StartPost, StartTrafficMonitor
<1>2. \A p \in Starting : Calm(t, p)
  BY CalmPlaces DEF StarterPlaces
<1>3. <<"start", "trafficMonitor">> \in Starting /\ <<"start", "run">> \in Starting
      /\ <<"start", "receiver">> \in Starting /\ <<"start", "future">> \in Starting
  BY DEF Starting
<1>4. CASE StartProfile(t) \/ StartPost(t)
  <2>1. UNCHANGED <<field, runs, displayVars>>
    BY <1>4 DEF StartProfile, StartPost, fieldVars
  <2>2. PICK p \in Starting : Go(t, p)
    BY <1>3, <1>4 DEF StartProfile, StartPost, GoOn
  <2>3. QED
    BY <1>1, <1>2, <2>1, <2>2, GoOnReady
<1>5. CASE StartTrafficMonitorRun(t)
  <2>1. UNCHANGED <<field, runs, displayVars>>
    BY <1>5 DEF StartTrafficMonitorRun, fieldVars
  <2>2. CASE Throw(t)
    BY <1>1, <2>1, <2>2, ThrowReady
  <2>3. CASE Go(t, <<"start", "receiver">>)
    BY <1>1, <1>2, <1>3, <2>1, <2>3, GoOnReady
  <2>4. QED
    BY <1>5, <2>2, <2>3 DEF StartTrafficMonitorRun, GoOn
<1>6. CASE StartTrafficMonitor(t)
  <2>1. Go(t, <<"start", "run">>) /\ UNCHANGED <<runs, displayVars>>
        /\ field' = [field EXCEPT !["trafficMonitor"] = runs + 1]
    BY <1>6 DEF StartTrafficMonitor, GoOn
  <2>2. runs + 1 # None
    BY DEF Shapes, None
  <2>3. Keeps(t)
    BY <2>1, <2>2 DEF Keeps, Shapes
  <2>4. QED
    BY <1>1, <1>2, <1>3, <2>1, <2>3, GoReady
<1>7. QED
  BY <1>4, <1>5, <1>6

(* Registering the receiver.                                               *)
LEMMA StartReceiverReady ==
  ASSUME Shapes, Tracked, Ready, NEW t \in Starters,
         StartReceiverCheck(t) \/ StartReceiverCall(t) \/ StartReceiverSet(t)
  PROVE  Ready'
<1> DEFINE o == <<"start", "connecting">>
<1>1. at[t] = <<"start", "receiver">> /\ UNCHANGED <<field, runs, notification, listening>>
      /\ t \in Threads /\ at[t] \in Starting
  BY ThreadKinds DEF StartReceiverCheck, StartReceiverCall, StartReceiverSet, fieldVars,
     displayVars, Starting
<1>2. Keeps(t) /\ (\A x : at[t] # <<"stop", x>>) /\ Calm(t, o) /\ Calm(t, at[t])
  <2>1. o \in StarterPlaces /\ at[t] \in StarterPlaces
    BY <1>1 DEF StarterPlaces, Starting
  <2>2. QED
    BY <1>1, <2>1, CalmPlaces DEF Keeps
<1>3. \A u \in Starters : at[u] = <<"start", "receiver">> => u = t
  <2>1. OneRun
    BY DEF Tracked
  <2>2. QED
    BY <1>1, <2>1, StartersAlone
<1>4. PICK p, q : /\ Moves(t, p, q)
                  /\ p \in {o, at[t]}
                  /\ \/ /\ UNCHANGED <<receiverFlag, receiver>> /\ phase[t] = "check"
                        /\ \/ p = o /\ q = "check" /\ receiverFlag
                           \/ q = "call" /\ ~receiverFlag
                     \/ phase[t] = "call" /\ q = "set" /\ receiverFlag' = receiverFlag /\ receiver'
                     \/ phase[t] = "set" /\ p = o /\ q = "check" /\ receiverFlag'
                        /\ receiver' = receiver
  <2>1. CASE StartReceiverCheck(t)
    <3>1. UNCHANGED <<receiverFlag, receiver>> /\ phase[t] = "check"
      BY <2>1 DEF StartReceiverCheck, displayVars
    <3>2. CASE receiverFlag /\ GoOn(t, o)
      <4>1. Moves(t, o, "check")
        BY <1>1, <3>2 DEF GoOn, Go, Moves
      <4>2. QED
        BY <3>1, <3>2, <4>1
    <3>3. CASE ~receiverFlag /\ Phase(t, "call")
      <4>1. Moves(t, at[t], "call")
        BY <1>1, <3>3 DEF Phase, Moves, Shapes
      <4>2. QED
        BY <3>1, <3>3, <4>1
    <3>4. QED
      BY <2>1, <3>2, <3>3 DEF StartReceiverCheck
  <2>2. CASE StartReceiverCall(t)
    <3>1. Moves(t, at[t], "set") /\ phase[t] = "call" /\ receiverFlag' = receiverFlag /\ receiver'
      BY <1>1, <2>2 DEF StartReceiverCall, Phase, Moves, Shapes
    <3>2. QED
      BY <3>1
  <2>3. CASE StartReceiverSet(t)
    <3>1. Moves(t, o, "check") /\ phase[t] = "set" /\ receiverFlag' /\ receiver' = receiver
      BY <1>1, <2>3 DEF StartReceiverSet, GoOn, Go, Moves
    <3>2. QED
      BY <3>1
  <2>4. QED
    BY <2>1, <2>2, <2>3
<1>5. at'[t] = p /\ phase'[t] = q
      /\ \A u \in Threads : u # t => at'[u] = at[u] /\ phase'[u] = phase[u]
  BY <1>1, <1>4, MovesTo
<1>6. p # <<"stop", "receiver">> /\ p # <<"stop", "notification">>
      /\ (\A r \in Resources : p # <<"stop", r>>) /\ Calm(t, p)
      /\ (p = <<"start", "receiver">> => p = at[t])
  BY <1>1, <1>2, <1>4
<1>7. SeenObject'
  BY <1>1, <1>2, <1>4, <1>6, ObjectFrame DEF Ready
<1>8. SeenNotification' /\ NotificationMade'
  BY <1>1, <1>4, <1>6, NotificationFrame DEF Ready
<1>9. phase[t] \in {"call", "set"} => ~receiverFlag /\ (phase[t] = "set" => receiver)
  BY <1>1 DEF Ready, FlagFits
<1>10. \A u \in Threads : at[u] = <<"stop", "receiver">> =>
         /\ phase[u] \in {"call", "clear"} => receiverFlag
         /\ phase[u] = "call" => receiver
  BY DEF Ready, SeenReceiver
<1>11. SeenReceiver'
  <2> SUFFICES ASSUME NEW u \in Threads, at'[u] = <<"stop", "receiver">>
               PROVE  (phase'[u] \in {"call", "clear"} => receiverFlag')
                      /\ (phase'[u] = "call" => receiver')
    BY DEF SeenReceiver
  <2>1. u # t /\ at[u] = <<"stop", "receiver">> /\ phase'[u] = phase[u]
    BY <1>5, <1>6
  <2>2. CASE UNCHANGED <<receiverFlag, receiver>>
    BY <1>10, <2>1, <2>2
  <2>3. CASE phase[t] \in {"call", "set"}
    BY <1>9, <1>10, <2>1, <2>3
  <2>4. QED
    BY <1>4, <2>2, <2>3
<1>12. ASSUME receiverFlag', ~receiver'
       PROVE  \E u \in Threads : at'[u] = <<"stop", "receiver">> /\ phase'[u] = "clear"
  <2>1. phase[t] = "check" /\ receiverFlag /\ ~receiver
    <3>1. CASE UNCHANGED <<receiverFlag, receiver>> /\ phase[t] = "check"
      BY <1>12, <3>1
    <3>2. CASE phase[t] = "set" /\ receiver' = receiver
      <4>1. receiver
        BY <1>9, <3>2
      <4>2. QED
        BY <1>12, <3>2, <4>1
    <3>3. QED
      BY <1>4, <1>12, <3>1, <3>2
  <2>2. PICK u \in Threads : at[u] = <<"stop", "receiver">> /\ phase[u] = "clear"
    BY <2>1 DEF Ready, FlagFits
  <2>3. QED
    BY <1>2, <1>5, <2>2
<1>13. ASSUME NEW u \in Starters, at'[u] = <<"start", "receiver">>, phase'[u] \in {"call", "set"}
       PROVE  ~receiverFlag' /\ (phase'[u] = "set" => receiver')
  <2>1. u = t
    BY <1>3, <1>5, <1>13, ThreadKinds
  <2>2. q \in {"call", "set"}
    BY <1>5, <1>13, <2>1
  <2>3. QED
    BY <1>4, <1>5, <1>9, <2>1, <2>2
<1>14. QED
  BY <1>7, <1>8, <1>11, <1>12, <1>13 DEF Ready, FlagFits

(* The Future of the new run gets its thread.                              *)
LEMMA StartFutureReady ==
  ASSUME Shapes, Tracked, Ready, NEW t \in Starters, StartFuture(t)
  PROVE  Ready'
<1>1. /\ at[t] = <<"start", "future">> /\ at[t] \in Starting /\ t \in Threads /\ t \notin Runs
      /\ at' = [at EXCEPT ![t] = Idle, ![runs + 1] = BeginConnect] /\ runs' = runs + 1
      /\ UNCHANGED <<field, phase, notification, listening, receiverFlag, receiver>>
  BY ThreadKinds DEF StartFuture, Starting, fieldVars, displayVars
<1>2. runs \in Nat
  BY DEF Shapes
<1>3. \A u \in Threads : at'[u] = IF u = runs + 1 THEN BeginConnect ELSE IF u = t THEN Idle ELSE at[u]
  BY <1>1, <1>2, NewRun DEF Shapes
<1>4. (\A r : BeginConnect # <<"stop", r>> /\ BeginConnect # <<"start", r>>)
      /\ BeginConnect # <<"connect", "assign">> /\ Idle # <<"connect", "assign">> /\ ~Working(Idle)
      /\ (\A r : Idle # <<"stop", r>> /\ Idle # <<"start", r>>)
  <2>1. Idle[1] = "idle"
    BY DEF Idle
  <2>2. QED
    BY <2>1 DEF BeginConnect, Working
<1>5. \A u \in Threads : \A r :
        /\ at'[u] = <<"stop", r>> => at[u] = <<"stop", r>>
        /\ at'[u] = <<"start", r>> => at[u] = <<"start", r>>
  BY <1>3, <1>4
<1>6. \A c \in Runs : at[c] = Idle
  <2>1. OneRun
    BY DEF Tracked
  <2>2. QED
    BY <1>1, <2>1, StartersAlone
<1>7. SeenObject' /\ SeenNotification' /\ SeenReceiver'
  BY <1>1, <1>5 DEF Ready, SeenObject, SeenNotification, SeenReceiver
<1>8. NotificationMade'
  <2>1. notification \in Nat /\ notification <= runs
    BY DEF Ready, NotificationMade
  <2>2. ASSUME NEW c \in Runs, Working(at'[c]) PROVE c = runs + 1
    BY <1>3, <1>4, <1>6, <2>2, ThreadKinds
  <2>3. \A c \in Runs : at'[c] # <<"connect", "assign">>
    BY <1>3, <1>4, <1>6, ThreadKinds
  <2>4. notification \in Nat /\ notification <= runs + 1 /\ notification # runs + 1
    BY <1>2, <2>1
  <2>5. QED
    BY <1>1, <2>2, <2>3, <2>4 DEF NotificationMade
<1>9. ASSUME receiverFlag', ~receiver'
      PROVE  \E u \in Threads : at'[u] = <<"stop", "receiver">> /\ phase'[u] = "clear"
  <2>1. PICK u \in Threads : at[u] = <<"stop", "receiver">> /\ phase[u] = "clear"
    BY <1>1, <1>9 DEF Ready, FlagFits
  <2>2. u # t /\ u # runs + 1
    <3>1. u \notin Runs
      BY <1>4, <1>6, <2>1
    <3>2. runs + 1 \in Threads => runs + 1 \in Runs
      BY <1>2, NewRun
    <3>3. QED
      BY <1>1, <2>1, <3>1, <3>2
  <2>3. QED
    BY <1>1, <1>3, <2>1, <2>2
<1>10. ASSUME NEW u \in Starters, at'[u] = <<"start", "receiver">>, phase'[u] \in {"call", "set"}
       PROVE  ~receiverFlag' /\ (phase'[u] = "set" => receiver')
  <2>1. at[u] = <<"start", "receiver">> /\ phase[u] = phase'[u]
    BY <1>1, <1>5, <1>10, ThreadKinds
  <2>2. QED
    BY <1>1, <1>10, <2>1 DEF Ready, FlagFits
<1>11. QED
  BY <1>7, <1>8, <1>9, <1>10 DEF Ready, FlagFits

LEMMA StartRunnerReady ==
  ASSUME Shapes, Tracked, Ready, NEW t \in Starters, StartRunner(t)
  PROVE  Ready'
BY StartOtherReady, StartReceiverReady, StartFutureReady DEF StartRunner

(* connect(), up to its notification.                                      *)
LEMMA ConnectOtherReady ==
  ASSUME Shapes, Ready, NEW c \in Runs,
         \/ ConnectRead(c) \/ ConnectFails(c) \/ ConnectLaunch(c) \/ ConnectStore(c) \/ ConnectPost(c)
  PROVE  Ready'
<1>1. PICK m \in {"connect", "launch", "store"} : at[c][1] = m
  BY DEF ConnectRead, ConnectFails, ConnectLaunch, ConnectStore, ConnectPost, Reached
<1>2. c \in Threads /\ c # None /\ Working(at[c]) /\ at[c] # <<"start", "receiver">>
      /\ \A x : at[c] # <<"stop", x>>
  BY <1>1, ConnectFits, ThreadKinds DEF Working
<1>3. UNCHANGED <<runs, displayVars>>
  BY DEF ConnectRead, ConnectFails, ConnectLaunch, ConnectStore, ConnectPost
<1>4. \A x \in Executables : LET p == After("launch", LaunchOrder, x, AfterLaunch) IN Calm(c, p)
  <2> SUFFICES ASSUME NEW x \in Executables
               PROVE  Calm(c, After("launch", LaunchOrder, x, AfterLaunch))
    BY Zenon
  <2> DEFINE p == After("launch", LaunchOrder, x, AfterLaunch)
  <2>1. x \in Executables
    OBVIOUS
  <2>2. p = AfterLaunch \/ \E y \in Executables : p = <<"launch", y>>
    BY <2>1, LaunchesInOrder, AfterIn
  <2>3. p # <<"connect", "assign">>
    BY <2>2 DEF AfterLaunch
  <2> HIDE DEF p
  <2>4. Calm(c, p)
    BY <1>2, <2>3, CalmPlaces
  <2>5. QED
    BY <2>4 DEF p
<1>5. CASE ConnectRead(c)
  <2>1. UNCHANGED field
    BY <1>5 DEF ConnectRead, fieldVars
  <2>2. CASE Throw(c)
    BY <1>2, <1>3, <2>1, <2>2, ThrowReady
  <2>3. CASE Phase(c, "call")
    BY <1>2, <1>3, <2>1, <2>3, PhaseReady
  <2>4. CASE at[c] = <<"launch", "pdnsd">>
             /\ GoOn(c, After("launch", LaunchOrder, "pdnsd", AfterLaunch))
    <3>1. "pdnsd" \in Executables
      <4>1. at[c][1] = "launch" /\ at[c][2] = "pdnsd"
        BY <2>4
      <4>2. QED
        BY <4>1, ConnectFits
    <3>2. QED
      BY <1>2, <1>3, <1>4, <2>1, <2>4, <3>1, GoOnReady DEF GoOn
  <2>5. QED
    BY <1>5, <2>2, <2>3, <2>4 DEF ConnectRead
<1>6. CASE ConnectFails(c)
  BY <1>2, <1>3, <1>6, ThrowReady DEF ConnectFails, fieldVars
<1>7. CASE ConnectLaunch(c) \/ ConnectPost(c)
  <2>1. UNCHANGED field
    BY <1>7 DEF ConnectLaunch, ConnectPost, fieldVars
  <2>2. PICK p : Go(c, p) /\ p # <<"connect", "assign">>
    BY <1>7 DEF ConnectLaunch, ConnectPost, GoOn
  <2>3. Calm(c, p)
    BY <1>2, <2>2, CalmPlaces
  <2>4. QED
    BY <1>2, <1>3, <2>1, <2>2, <2>3, GoOnReady
<1>8. CASE ConnectStore(c)
  <2> DEFINE x == at[c][2]
             p == After("launch", LaunchOrder, x, AfterLaunch)
  <2>1. Go(c, p) /\ field' = [field EXCEPT ![x] = c] /\ at[c][1] = "store"
    BY <1>8 DEF ConnectStore, GoOn
  <2>2. x \in Executables
    BY <2>1, ConnectFits
  <2>3. Calm(c, p)
    BY <1>4, <2>2
  <2> HIDE DEF p, x
  <2>4. Keeps(c)
    BY <1>2, <2>1 DEF Keeps, Shapes
  <2>5. QED
    BY <1>2, <1>3, <2>1, <2>3, <2>4, GoReady
<1>9. QED
  BY <1>5, <1>6, <1>7, <1>8

(* Its notification, which listens before the field refers to it.          *)
LEMMA ConnectNotifyReady ==
  ASSUME Shapes, Tracked, Ready, NEW c \in Runs, ConnectNotify(c) \/ ConnectAssign(c)
  PROVE  Ready'
<1>1. PICK p \in {<<"connect", "assign">>, Idle} :
        /\ Moves(c, p, "check") /\ UNCHANGED <<field, receiverFlag, receiver, runs>>
        /\ \/ p # Idle /\ at[c] = <<"connect", "notify">> /\ listening' = listening \cup {c}
              /\ notification' = notification
           \/ p = Idle /\ at[c] = <<"connect", "assign">> /\ listening' = listening
              /\ notification' = c
  <2>1. Idle # <<"connect", "assign">>
    BY DEF Idle
  <2>2. QED
    BY <2>1 DEF ConnectNotify, ConnectAssign, GoOn, Go, Moves, Reached, fieldVars
<1>2. c \in Threads /\ Working(at[c]) /\ at[c] # <<"start", "receiver">> /\ at[c] # Idle
      /\ \A x : at[c] # <<"stop", x>>
  <2>1. at[c][1] = "connect"
    BY <1>1
  <2>2. QED
    BY <2>1, ConnectFits, ThreadKinds DEF Working
<1>3. \A x : p # <<"stop", x>> /\ p # <<"start", x>>
  <2>1. CASE p = Idle
    <3>1. Idle[1] = "idle"
      BY DEF Idle
    <3>2. QED
      BY <2>1, <3>1
  <2>2. QED
    BY <1>1, <2>1
<1>4. at'[c] = p /\ \A u \in Threads : u # c => at'[u] = at[u] /\ phase'[u] = phase[u]
  BY <1>1, <1>2, MovesTo
<1>5. SeenObject'
  <2>1. Keeps(c)
    BY <1>1 DEF Keeps
  <2>2. QED
    BY <1>1, <1>2, <2>1, ObjectFrame DEF Ready
<1>6. SeenReceiver' /\ FlagFits'
  BY <1>1, <1>2, ReceiverFrame DEF Ready
<1>7. notification \in Nat /\ notification <= runs
      /\ \A d \in Runs : at[d] = <<"connect", "assign">> => d \in listening
  BY DEF Ready, NotificationMade
<1>8. SeenNotification'
  <2> SUFFICES ASSUME NEW u \in Threads, at'[u] = <<"stop", "notification">>, phase'[u] = "call"
               PROVE  notification' \in listening'
    BY DEF SeenNotification
  <2>1. notification \in listening
    BY <1>3, <1>4 DEF Ready, SeenNotification
  <2>2. QED
    BY <1>1, <1>7, <2>1
<1>9. c = runs /\ \A d \in Runs : d # c => at[d] = Idle
  BY <1>2, RunAlone DEF Tracked
<1>10. NotificationMade'
  <2>1. notification' \in Nat /\ notification' <= runs'
    BY <1>1, <1>7, <1>9, ThreadKinds
  <2>2. ~Working(Idle) /\ Idle # <<"connect", "assign">>
    <3>1. Idle[1] = "idle"
      BY DEF Idle
    <3>2. QED
      BY <3>1 DEF Working
  <2>3. \A d \in Runs : d # c => at'[d] = Idle
    BY <1>4, <1>9, ThreadKinds
  <2>4. Working(at'[c]) => notification' # c
    <3>1. notification # c
      BY <1>2 DEF Ready, NotificationMade
    <3>2. QED
      BY <1>1, <1>4, <2>2, <3>1
  <2>5. at'[c] = <<"connect", "assign">> => c \in listening'
    BY <1>1, <1>4, <2>2
  <2>6. QED
    BY <2>1, <2>2, <2>3, <2>4, <2>5 DEF NotificationMade
<1>11. QED
  BY <1>5, <1>6, <1>8, <1>10 DEF Ready

LEMMA ConnectReady ==
  ASSUME Shapes, Tracked, Ready, NEW c \in Runs, Connect(c)
  PROVE  Ready'
BY ConnectOtherReady, ConnectNotifyReady DEF Connect

(* Requests, and switching to another profile.                             *)
LEMMA UseReady ==
  ASSUME Shapes, Ready, Use \/ UseSwitch
  PROVE  Ready'
<1>1. Binder \in Threads /\ UNCHANGED <<field, runs, displayVars>>
  BY ThreadKinds DEF Use, UseStop, UseProfile, UseSwitch, fieldVars
<1>2. \A x : at[Binder] # <<"stop", x>>
  <2>1. Idle # <<"use", "switch">> /\ \A x : Idle # <<"stop", x>>
    BY IdleIs DEF Idle
  <2>2. at[Binder] = Idle \/ at[Binder] = <<"use", "switch">>
    BY DEF Use, UseStop, UseProfile, UseSwitch, Active
  <2>3. QED
    BY <2>1, <2>2
<1>3. \A p \in {Idle, BeginStop, BeginStart, <<"use", "switch">>} : Calm(Binder, p)
  <2>1. {Idle, BeginStop, BeginStart, <<"use", "switch">>} \subseteq StopPlaces \cup StarterPlaces
    BY BeginStopFits DEF BeginStart, StarterPlaces
  <2>2. QED
    BY <2>1, CalmPlaces
<1>4. ASSUME NEW p \in {Idle, BeginStop, BeginStart, <<"use", "switch">>}, Go(Binder, p) PROVE Ready'
  BY <1>1, <1>2, <1>3, <1>4, GoOnReady
<1>5. CASE Throw(Binder)
  BY <1>1, <1>2, <1>5, ThrowReady
<1>6. CASE UNCHANGED <<at, phase>>
  BY <1>1, <1>6 DEF Ready, SeenObject, SeenNotification, SeenReceiver, NotificationMade, FlagFits,
     displayVars
<1>7. QED
  BY <1>4, <1>5, <1>6 DEF Use, UseStop, UseProfile, UseSwitch, GoOn, Leave

(* The main thread enters stopRunner.                                      *)
LEMMA CloseReady ==
  ASSUME Shapes, Ready, Close \/ Revoke
  PROVE  Ready'
<1>1. Main \in Threads /\ UNCHANGED <<field, runs, displayVars>> /\ Go(Main, BeginStop)
      /\ at[Main] = Idle
  BY ThreadKinds DEF Close, Revoke, GoOn, Active, fieldVars
<1>2. Calm(Main, BeginStop) /\ \A x : at[Main] # <<"stop", x>>
  BY <1>1, CalmPlaces, BeginStopFits, IdleIs
<1>3. QED
  BY <1>1, <1>2, GoOnReady

(* A message, or nothing at all.                                           *)
LEMMA HandleMessageReady ==
  ASSUME Ready, UNCHANGED <<field, displayVars, threadVars>>
  PROVE  Ready'
BY DEF Ready, SeenObject, SeenNotification, SeenReceiver, NotificationMade, FlagFits,
   displayVars, threadVars

LEMMA BaseStepReady ==
  ASSUME Shapes, Tracked, Ready, ~StopsOverlap, NEW t \in Threads, BaseStep(t)
  PROVE  Ready'
BY StopRunnerReady, UseReady, StartRunnerReady, ConnectReady, HandleMessageReady
   DEF BaseStep, HandleMessage

(* The steps that the VPN service adds.                                    *)
LEMMA VpnStepReady ==
  ASSUME Shapes, Tracked, Ready, NEW c \in Runs,
         \/ ConnectVpnThread(c) \/ ConnectVpnThreadRun(c) \/ ConnectEstablish(c) \/ ConnectFd(c)
  PROVE  Ready'
<1>1. UNCHANGED <<runs, displayVars>> /\ at[c][1] = "connect"
  BY DEF ConnectVpnThread, ConnectVpnThreadRun, ConnectEstablish, ConnectFd, Reached
<1>2. c \in Threads /\ c # None /\ Working(at[c]) /\ at[c] # Idle /\ \A x : at[c] # <<"stop", x>>
  BY <1>1, ConnectFits, ThreadKinds DEF Working
<1>3. CASE Throw(c) /\ UNCHANGED field
  BY <1>1, <1>2, <1>3, ThrowReady
<1>4. ASSUME NEW p, GoOn(c, p), Keeps(c), p # <<"connect", "assign">> PROVE Ready'
  <2>1. Calm(c, p)
    BY <1>2, <1>4, CalmPlaces
  <2>2. QED
    BY <1>1, <1>2, <1>4, <2>1, GoReady DEF GoOn
<1>5. UNCHANGED field => Keeps(c)
  BY DEF Keeps
<1>6. CASE ConnectVpnThread(c)
  <2>1. Keeps(c)
    BY <1>2, <1>6 DEF ConnectVpnThread, Keeps, Shapes
  <2>2. <<"connect", "run">> # <<"connect", "assign">> /\ GoOn(c, <<"connect", "run">>)
    BY <1>6 DEF ConnectVpnThread
  <2>3. QED
    BY <1>4, <2>1, <2>2
<1>7. CASE ConnectVpnThreadRun(c)
  <2>1. UNCHANGED field /\ (Throw(c) \/ GoOn(c, BeginKill))
    BY <1>7 DEF ConnectVpnThreadRun, fieldVars
  <2>2. BeginKill # <<"connect", "assign">>
    BY DEF BeginKill
  <2>3. QED
    BY <1>3, <1>4, <1>5, <2>1, <2>2
<1>8. CASE ConnectEstablish(c)
  <2>1. at[c] = <<"connect", "establish">> /\ GoOn(c, <<"connect", "fd">>)
    BY <1>8 DEF ConnectEstablish, Reached
  <2>2. "conn" \in Ahead
    BY <1>2, <2>1, VpnPlaces, RunAlone DEF Tracked
  <2>3. field["conn"] = None
    BY <2>2 DEF Tracked, Unmade
  <2>4. Keeps(c)
    BY <1>8, <2>3 DEF ConnectEstablish, Keeps, Shapes
  <2>5. <<"connect", "fd">> # <<"connect", "assign">>
    OBVIOUS
  <2>6. QED
    BY <1>4, <2>1, <2>4, <2>5
<1>9. CASE ConnectFd(c)
  <2>1. UNCHANGED field /\ (Throw(c) \/ GoOn(c, <<"launch", Head(LaunchOrder)>>))
    BY <1>9 DEF ConnectFd, fieldVars
  <2>2. <<"launch", Head(LaunchOrder)>> # <<"connect", "assign">>
    OBVIOUS
  <2>3. QED
    BY <1>3, <1>4, <1>5, <2>1, <2>2
<1>10. QED
  BY <1>6, <1>7, <1>8, <1>9

LEMMA StartPrepareReady ==
  ASSUME Shapes, Ready, StartPrepare
  PROVE  Ready'
<1>1. Binder \in Threads /\ UNCHANGED <<field, runs, displayVars>>
      /\ \A x : at[Binder] # <<"stop", x>>
  BY ThreadKinds DEF StartPrepare, fieldVars
<1>2. PICK p \in StopPlaces \cup StarterPlaces : Go(Binder, p)
  <2>1. <<"start", "profile">> \in StarterPlaces
    BY DEF StarterPlaces, Starting
  <2>2. QED
    BY <2>1, BeginStopFits DEF StartPrepare, GoOn, Leave
<1>3. Calm(Binder, p)
  BY CalmPlaces
<1>4. QED
  BY <1>1, <1>2, <1>3, GoOnReady

-----------------------------------------------------------------------------
(* Exceptions on the main thread.                                          *)

(* No other thread ends the process.                                       *)
LEMMA OthersCatch ==
  ASSUME NEW t \in Threads, t # Main, Throw(t)
  PROVE  crashed' => crashed
BY VpnAssumption DEF Throw, Shells

LEMMA StopCrashes ==
  ASSUME NEW t \in Threads, StopRunner(t)
  PROVE  Throw(t) \/ crashed' = crashed
<1>1. CASE Release(t)
  BY <1>1 DEF Release, ReleaseCheck, ReleaseCall, ReleaseClear, GoOn, Phase
<1>2. CASE StopPost(t) \/ StopForget(t)
  BY <1>2 DEF StopPost, StopForget, GoOn
<1>3. CASE StopNotificationCheck(t) \/ StopNotificationCall(t)
  BY <1>3 DEF StopNotificationCheck, StopNotificationCall, GoOn, Phase
<1>4. CASE StopReceiverCheck(t) \/ StopReceiverCall(t) \/ StopReceiverClear(t)
  BY <1>4 DEF StopReceiverCheck, StopReceiverCall, StopReceiverClear, GoOn, Phase
<1>5. QED
  BY <1>1, <1>2, <1>3, <1>4 DEF StopRunner

LEMMA StartCrashes ==
  ASSUME NEW t \in Starters, StartRunner(t)
  PROVE  Throw(t) \/ crashed' = crashed
<1>1. CASE StartProfile(t) \/ StartTrafficMonitor(t) \/ StartTrafficMonitorRun(t)
  BY <1>1 DEF StartProfile, StartTrafficMonitor, StartTrafficMonitorRun, GoOn
<1>2. CASE StartReceiverCheck(t) \/ StartReceiverCall(t) \/ StartReceiverSet(t)
  BY <1>2 DEF StartReceiverCheck, StartReceiverCall, StartReceiverSet, GoOn, Phase
<1>3. CASE StartPost(t) \/ StartFuture(t)
  BY <1>3 DEF StartPost, StartFuture, GoOn
<1>4. QED
  BY <1>1, <1>2, <1>3 DEF StartRunner

LEMMA ConnectCrashes ==
  ASSUME NEW c \in Runs,
         \/ Connect(c) \/ ConnectVpnThread(c) \/ ConnectVpnThreadRun(c)
         \/ ConnectEstablish(c) \/ ConnectFd(c)
  PROVE  Throw(c) \/ crashed' = crashed
<1>1. CASE ConnectRead(c) \/ ConnectFails(c)
  BY <1>1 DEF ConnectRead, ConnectFails, GoOn, Phase
<1>2. CASE ConnectLaunch(c) \/ ConnectStore(c)
  BY <1>2 DEF ConnectLaunch, ConnectStore, GoOn
<1>3. CASE ConnectPost(c) \/ ConnectNotify(c) \/ ConnectAssign(c)
  BY <1>3 DEF ConnectPost, ConnectNotify, ConnectAssign, GoOn
<1>4. CASE ConnectVpnThread(c) \/ ConnectVpnThreadRun(c) \/ ConnectEstablish(c) \/ ConnectFd(c)
  BY <1>4 DEF ConnectVpnThread, ConnectVpnThreadRun, ConnectEstablish, ConnectFd, GoOn
<1>5. QED
  BY <1>1, <1>2, <1>3, <1>4 DEF Connect

LEMMA RequestCrashes ==
  ASSUME Use \/ Close \/ Revoke \/ UseSwitch \/ StartPrepare
  PROVE  Throw(Binder) \/ crashed' = crashed
<1>1. CASE Use
  BY <1>1 DEF Use, UseStop, UseProfile, GoOn
<1>2. CASE Close \/ Revoke
  BY <1>2 DEF Close, Revoke, GoOn
<1>3. CASE UseSwitch \/ StartPrepare
  BY <1>3 DEF UseSwitch, StartPrepare, GoOn
<1>4. QED
  BY <1>1, <1>2, <1>3

(* A stop on the main thread that is alone finds what it has seen.         *)
LEMMA MainStops ==
  ASSUME Shapes, Ready, StopRunner(Main)
  PROVE  crashed' = crashed
<1>1. Main \in Threads
  BY ThreadKinds
<1>2. \A x : at[Main] # <<"kill", x>>
  <2>1. at[Main] \in StopPlaces
    BY <1>1, ThreadKinds DEF Shapes, PlacesOf
  <2>2. QED
    BY <2>1, IdleIs DEF StopPlaces
<1>3. CASE Release(Main)
  <2>1. PICK r \in Resources :
          ReleaseCheck(Main, r) \/ ReleaseCall(Main, r) \/ ReleaseClear(Main, r)
    BY <1>3 DEF Release
  <2>2. at[Main] = <<"stop", r>>
    BY <1>2, <2>1 DEF ReleaseCheck, ReleaseCall, ReleaseClear, Releases
  <2>3. phase[Main] = "call" => field[r] # None
    BY <1>1, <2>2 DEF Ready, SeenObject
  <2>4. QED
    BY <2>1, <2>3 DEF ReleaseCheck, ReleaseCall, ReleaseClear, GoOn, Phase
<1>4. CASE StopPost(Main) \/ StopForget(Main)
  BY <1>4 DEF StopPost, StopForget, GoOn
<1>5. CASE StopNotificationCheck(Main) \/ StopNotificationCall(Main)
  <2>1. StopNotificationCall(Main) => notification \in listening
    BY <1>1 DEF StopNotificationCall, Ready, SeenNotification
  <2>2. QED
    BY <1>5, <2>1 DEF StopNotificationCheck, StopNotificationCall, GoOn, Phase
<1>6. CASE StopReceiverCheck(Main) \/ StopReceiverCall(Main) \/ StopReceiverClear(Main)
  <2>1. StopReceiverCall(Main) => receiver
    BY <1>1 DEF StopReceiverCall, Ready, SeenReceiver
  <2>2. QED
    BY <1>6, <2>1 DEF StopReceiverCheck, StopReceiverCall, StopReceiverClear, GoOn, Phase
<1>7. QED
  BY <1>3, <1>4, <1>5, <1>6 DEF StopRunner

(* Orderly, and what the proofs about the resources keep.                  *)
LEMMA NextOrderly ==
  ASSUME Shapes, Kept, Orderly, [Next]_vars
  PROVE  Orderly'
<1>1. CASE UNCHANGED vars
  <2>1. UNCHANGED <<field, displayVars, threadVars>> /\ UNCHANGED <<at, crashed>>
        /\ UNCHANGED <<startedDirty, stopsOverlapped>>
    BY <1>1 DEF vars, baseVars, fieldVars, historyVars, threadVars
  <2>2. Ready => Ready'
    BY <2>1, HandleMessageReady
  <2>3. StopsOverlap' <=> StopsOverlap
    BY <2>1 DEF StopsOverlap, InStop
  <2>4. QED
    BY <2>1, <2>2, <2>3 DEF Orderly
<1>2. CASE Next
  <2>1. History
    BY <1>2 DEF Next, Request, CountUse, CountClose, CountOverlap, ThreadStep, NoRequest
  <2>2. /\ StopsOverlap' => stopsOverlapped'
        /\ startedDirty => startedDirty'
        /\ stopsOverlapped => stopsOverlapped'
    BY <2>1 DEF History
  <2>3. CASE startedDirty' \/ stopsOverlapped'
    BY <2>2, <2>3 DEF Orderly
  <2>4. CASE ~startedDirty' /\ ~stopsOverlapped'
    <3>1. Tracked /\ Ready /\ ~crashed /\ ~StopsOverlap
      BY <2>2, <2>4 DEF Orderly, Kept
    <3>2. Ready' /\ ~crashed'
      <4>1. CASE Request
        <5>1. Use \/ Close \/ Revoke
          BY <4>1 DEF Request
        <5>2. Ready'
          BY <3>1, <5>1, UseReady, CloseReady
        <5>3. crashed' => crashed
          BY <5>1, RequestCrashes, OthersCatch, ThreadKinds
        <5>4. QED
          BY <3>1, <5>2, <5>3
      <4>2. ASSUME NEW t \in Threads, ThreadStep(t) PROVE Ready' /\ ~crashed'
        <5>1. Ready'
          BY <3>1, <4>2, BaseStepReady, StartPrepareReady, VpnStepReady DEF ThreadStep
        <5>2. CASE t # Main
          <6>1. Throw(t) \/ crashed' = crashed
            <7>1. ~HandleMessage \/ t # Main
              BY <5>2
            <7>2. QED
              BY <4>2, <5>2, StopCrashes, StartCrashes, ConnectCrashes, RequestCrashes
                 DEF ThreadStep, BaseStep
          <6>2. Throw(t) => (crashed' => crashed)
            BY <5>2, OthersCatch
          <6>3. CASE crashed' = crashed
            BY Zenon, <3>1, <5>1, <6>3
          <6>4. QED
            BY <3>1, <5>1, <6>1, <6>2, <6>3
        <5>3. CASE t = Main
          <6>1. StopRunner(Main) \/ HandleMessage
            BY <4>2, <5>3, ThreadKinds DEF ThreadStep, BaseStep
          <6>2. crashed' = crashed
            BY <3>1, <6>1, MainStops DEF HandleMessage, threadVars
          <6>3. QED
            BY Zenon, <3>1, <5>1, <6>2
        <5>4. QED
          BY <5>1, <5>2, <5>3
      <4>3. QED
        BY <1>2, <4>1, <4>2 DEF Next
    <3>3. QED
      BY <2>2, <3>2 DEF Orderly
  <2>5. QED
    BY <2>3, <2>4
<1>3. QED
  BY <1>1, <1>2

LEMMA BaseInitOrderly == BaseInit => Orderly
<1> SUFFICES ASSUME BaseInit PROVE Orderly
  OBVIOUS
<1>1. (\A t \in Threads : at[t] = Idle) /\ notification = 0 /\ runs = 0 /\ ~receiverFlag /\ ~crashed
  BY DEF BaseInit, None
<1>2. Idle[1] = "idle" /\ ~Working(Idle) /\ \A x, y : Idle # <<"stop", x>> /\ Idle # <<"start", y>>
      /\ Idle # <<"connect", "assign">>
  <2>1. Idle[1] = "idle"
    BY DEF Idle
  <2>2. QED
    BY <2>1 DEF Working
<1>3. SeenObject /\ SeenNotification /\ SeenReceiver /\ NotificationMade /\ FlagFits
  <2>1. \A t \in Starters : at[t] = Idle
    BY <1>1, ThreadKinds
  <2>2. \A c \in Runs : at[c] = Idle /\ c # 0
    BY <1>1, ThreadKinds DEF None
  <2> HIDE DEF BaseInit
  <2>3. SeenObject /\ SeenNotification /\ SeenReceiver
    BY <1>1, <1>2 DEF SeenObject, SeenNotification, SeenReceiver
  <2>4. NotificationMade
    BY <1>1, <1>2, <2>2 DEF NotificationMade
  <2>5. FlagFits
    BY <1>1, <1>2, <2>1 DEF FlagFits
  <2>6. QED
    BY <2>3, <2>4, <2>5
<1>4. ~StopsOverlap
  BY <1>1, <1>2 DEF StopsOverlap, InStop
<1>5. QED
  BY <1>1, <1>3, <1>4 DEF Orderly, Ready

LEMMA OrderlyCrashes == Orderly => CrashNeedsTwoStops
BY DEF Orderly, CrashNeedsTwoStops

(* The main thread ends the process of the VPN service only after two      *)
(* threads were in stopRunner() at once, or a run started before the last  *)
(* one was gone: a lone stop that races with startRunner() and connect()   *)
(* finds every object it has seen, the notification listens until it is    *)
(* destroyed, and the receiver is registered until it is unregistered.     *)
THEOREM SpecCrashNeedsTwoStops == Spec => []CrashNeedsTwoStops
<1>1. BaseInit => Shapes /\ Kept /\ Orderly
  BY BaseInitShapes, BaseInitOrderly
<1>2. Shapes /\ Kept /\ Orderly /\ [Next]_vars => Shapes' /\ Kept' /\ Orderly'
  BY NextKept, NextOrderly
<1>3. Orderly => CrashNeedsTwoStops
  BY OrderlyCrashes
<1>4. QED
  BY <1>1, <1>2, <1>3, PTL DEF Spec

-----------------------------------------------------------------------------
(* Every variable has a value of its type.  A run has a number among those *)
(* of Runs because each run belongs to a use() that asked for it.          *)

DataTyped ==
  /\ state \in States /\ profile \in Profiles \cup {NoProfile} /\ messages \in Seq(States)
  /\ field \in [Resources -> Runs \cup {None}] /\ live \in [Resources -> SUBSET Runs]
  /\ notification \in Runs \cup {None} /\ listening \subseteq Runs
  /\ receiverFlag \in BOOLEAN /\ receiver \in BOOLEAN

ThreadsTyped ==
  /\ next \in [Starters -> Profiles \cup {NoProfile}]
  /\ phase \in [Threads -> {"check", "call", "clear", "set"}]
  /\ crashed \in BOOLEAN

HistoryTyped ==
  /\ runs \in Runs \cup {0} /\ uses \in 0..MaxUses /\ closes \in 0..MaxCloses
  /\ overlapped \in BOOLEAN /\ stopsOverlapped \in BOOLEAN /\ startedDirty \in BOOLEAN

(* Where use() is on its way to a new run.                                 *)
ToRun == Starting \cup {<<"start", "prepare">>, <<"use", "switch">>}
Wanted == IF next[Binder] # NoProfile THEN 1 ELSE 0

UsesCover ==
  /\ runs + Wanted <= uses
  /\ at[Binder] \in ToRun => next[Binder] # NoProfile

Types == DataTyped /\ ThreadsTyped /\ HistoryTyped /\ UsesCover

LEMMA VpnStarters == Starters = {Binder} /\ Binder \in Threads /\ Binder \notin Runs
BY VpnAssumption, ThreadKinds DEF Starters, Shells

LEMMA PlacesCover == Shapes => at \in [Threads -> Places]
<1> SUFFICES ASSUME Shapes PROVE at \in [Threads -> Places]
  OBVIOUS
<1>1. \A x \in Stops : <<"stop", x>> \in Places
  <2>1. \A x \in Stops : \E i \in DOMAIN StopOrder : StopOrder[i] = x
    BY StopsInOrder DEF Orders
  <2>2. QED
    BY <2>1 DEF Places
<1>2. \A x \in Kills : <<"kill", x>> \in Places
  <2>1. \A x \in Kills : \E i \in DOMAIN KillOrder : KillOrder[i] = x
    BY KillsInOrder DEF Orders
  <2>2. QED
    BY <2>1 DEF Places
<1>3. StopPlaces \subseteq Places
  BY <1>1 DEF StopPlaces, Places
<1>4. StarterPlaces \subseteq Places
  BY <1>3 DEF StarterPlaces, Starting, Places
<1>5. RunPlaces \subseteq Places
  <2>1. \A p \in RunPlaces : p \in StopPlaces \/ (\E x \in Kills : p = <<"kill", x>>)
      \/ p \in {<<"connect", x>> : x \in {"request", "vpnThread", "run", "establish", "fd",
                                          "resolve", "rules", "connected", "notify", "assign"}}
      \/ p \in {<<m, x>> : m \in {"launch", "store"}, x \in Executables}
    BY DEF RunPlaces
  <2>2. QED
    BY <1>2, <1>3, <2>1 DEF Places
<1>6. QED
  BY <1>3, <1>4, <1>5 DEF Shapes, PlacesOf

LEMMA TypesFit == Shapes /\ Types => BaseTypeOK
<1> SUFFICES ASSUME Shapes, Types PROVE BaseTypeOK
  OBVIOUS
<1>1. at \in [Threads -> Places]
  BY PlacesCover
<1>2. {receiverFlag, receiver, crashed} \subseteq BOOLEAN
  BY DEF Types, DataTyped, ThreadsTyped
<1>3. {overlapped, stopsOverlapped, startedDirty} \subseteq BOOLEAN
  BY DEF Types, HistoryTyped
<1>4. QED
  BY <1>1, <1>2, <1>3 DEF Types, DataTyped, ThreadsTyped, HistoryTyped, BaseTypeOK

(* What a thread may do with its place, its phase and its profile.         *)
Steps(t, p, q) ==
  /\ at' = [at EXCEPT ![t] = p] /\ phase' = [phase EXCEPT ![t] = q]
  /\ crashed' \in BOOLEAN
  /\ \/ next' = next /\ (t = Binder /\ p \in ToRun => next[Binder] # NoProfile)
     \/ t = Binder /\ next' = [next EXCEPT ![t] = NoProfile] /\ p \notin ToRun

LEMMA StepsTyped ==
  ASSUME Shapes, ThreadsTyped, UsesCover, runs \in Nat, uses \in Nat,
         NEW t \in Threads, NEW p, NEW q \in {"check", "call", "clear", "set"}, Steps(t, p, q),
         UNCHANGED <<runs, uses>>
  PROVE  ThreadsTyped' /\ UsesCover'
<1>1. phase' \in [Threads -> {"check", "call", "clear", "set"}] /\ crashed' \in BOOLEAN
  BY DEF ThreadsTyped, Steps
<1>2. next' \in [Starters -> Profiles \cup {NoProfile}]
  BY DEF ThreadsTyped, Steps
<1>3. ThreadsTyped'
  BY <1>1, <1>2 DEF ThreadsTyped
<1>4. at'[Binder] = IF t = Binder THEN p ELSE at[Binder]
  BY VpnStarters DEF Shapes, Steps
<1>5. CASE next' = next /\ (t = Binder /\ p \in ToRun => next[Binder] # NoProfile)
  BY <1>3, <1>4, <1>5 DEF UsesCover, Wanted
<1>6. CASE t = Binder /\ next' = [next EXCEPT ![t] = NoProfile] /\ p \notin ToRun
  <2>1. next'[Binder] = NoProfile
    BY <1>6, VpnStarters DEF ThreadsTyped
  <2>2. Wanted' = 0 /\ Wanted \in {0, 1}
    BY <2>1 DEF Wanted
  <2>3. QED
    BY <1>3, <1>4, <1>6, <2>2 DEF UsesCover
<1>7. QED
  BY <1>5, <1>6 DEF Steps

LEMMA NotToRun ==
  /\ Idle \notin ToRun
  /\ \A x, m : m # "start" /\ m # "use" => <<m, x>> \notin ToRun
BY DEF ToRun, Starting, Idle

LEMMA GoOnSteps ==
  ASSUME ThreadsTyped, NEW t \in Threads, NEW p, GoOn(t, p),
         t = Binder /\ p \in ToRun => next[Binder] # NoProfile
  PROVE  Steps(t, p, "check")
BY DEF GoOn, Go, Steps, ThreadsTyped

LEMMA PhaseSteps ==
  ASSUME Shapes, ThreadsTyped, UsesCover, NEW t \in Threads, NEW q, Phase(t, q)
  PROVE  Steps(t, at[t], q)
<1>1. at' = [at EXCEPT ![t] = at[t]]
  BY DEF Phase, Shapes
<1>2. QED
  BY <1>1 DEF Phase, Steps, ThreadsTyped, UsesCover

LEMMA LeaveSteps ==
  ASSUME Shapes, ThreadsTyped, NEW t \in Threads, NEW p, p \notin ToRun, Leave(t, p),
         crashed' \in BOOLEAN
  PROVE  Steps(t, p, "check")
BY VpnStarters DEF Leave, Go, Steps

LEMMA ThrowSteps ==
  ASSUME Shapes, ThreadsTyped, NEW t \in Threads, Throw(t)
  PROVE  \E p : Steps(t, p, "check")
<1>1. crashed' \in BOOLEAN
  BY Zenon DEF Throw, ThreadsTyped
<1>2. BeginStop \notin ToRun /\ Idle \notin ToRun
  BY NotToRun DEF BeginStop
<1>3. QED
  BY <1>1, <1>2, LeaveSteps DEF Throw

-----------------------------------------------------------------------------
(* The order of stopRunner.                                                *)

Pos(x) == CHOOSE j \in DOMAIN StopOrder : StopOrder[j] = x

LEMMA PosIs ==
  /\ \A x \in Stops : Pos(x) \in 1..Len(StopOrder) /\ StopOrder[Pos(x)] = x
  /\ \A i \in 1..Len(StopOrder) : Pos(StopOrder[i]) = i
<1>1. DOMAIN StopOrder = 1..Len(StopOrder)
  BY StopsInOrder DEF Orders
<1>2. \A x \in Stops : \E i \in DOMAIN StopOrder : StopOrder[i] = x
  BY StopsInOrder, <1>1 DEF Orders
<1>3. \A i, j \in DOMAIN StopOrder : StopOrder[i] = StopOrder[j] => i = j
  BY StopsInOrder, <1>1 DEF Orders
<1>4. QED
  BY <1>1, <1>2, <1>3 DEF Pos

LEMMA JoinedAt ==
  ASSUME NEW S, NEW s \in Seq(S), NEW u \in Seq(S)
  PROVE  /\ s \o u \in Seq(S) /\ Len(s \o u) = Len(s) + Len(u)
         /\ \A i \in 1..Len(s) : (s \o u)[i] = s[i]
OBVIOUS

LEMMA PosEnds ==
  /\ Len(StopOrder) \in Nat /\ Len(StopOrder) >= 8
  /\ Head(StopOrder) = "vpnThread" /\ Pos("vpnThread") = 1 /\ Pos("stopping") = 3
  /\ Pos("stopped") = Len(StopOrder) - 1 /\ Pos("forget") = Len(StopOrder)
<1> DEFINE a == <<"vpnThread", "notification", "stopping">>
           b == <<"conn">>
           d == <<"receiver", "trafficMonitor", "stopped", "forget">>
           k == KillOrder
           n == Len(k)
           s == a \o k
           u == s \o b
           w == u \o d
<1>1. StopOrder = w
  BY VpnAssumption DEF StopOrder, VpnStop, BaseStop
<1>2. k \in Seq(Stops) /\ n \in Nat
  BY KillsInOrder DEF Orders, Stops
<1>3. a \in Seq(Stops) /\ Len(a) = 3 /\ a[1] = "vpnThread" /\ a[3] = "stopping"
  BY VpnAssumption DEF Stops
<1>4. b \in Seq(Stops) /\ Len(b) = 1
  BY VpnAssumption DEF Stops
<1>5. d \in Seq(Stops) /\ Len(d) = 4 /\ d[3] = "stopped" /\ d[4] = "forget"
  BY DEF Stops
<1> HIDE DEF a, b, d, k, s, u, w
<1>6. s \in Seq(Stops) /\ Len(s) = 3 + n /\ s[1] = "vpnThread" /\ s[3] = "stopping"
  <2>1. s \in Seq(Stops) /\ Len(s) = Len(a) + Len(k) /\ \A i \in 1..Len(a) : s[i] = a[i]
    BY Zenon, <1>2, <1>3, JoinedAt DEF s
  <2>2. QED
    BY <1>2, <1>3, <2>1
<1>7. u \in Seq(Stops) /\ Len(u) = 4 + n /\ u[1] = "vpnThread" /\ u[3] = "stopping"
  <2>1. u \in Seq(Stops) /\ Len(u) = Len(s) + Len(b) /\ \A i \in 1..Len(s) : u[i] = s[i]
    <3>1. s \in Seq(Stops) /\ b \in Seq(Stops)
      BY <1>4, <1>6
    <3>2. QED
      BY Zenon, <3>1, JoinedAt DEF u
  <2>2. QED
    BY <1>2, <1>4, <1>6, <2>1
<1>8. Len(StopOrder) = 8 + n /\ StopOrder[1] = "vpnThread" /\ StopOrder[3] = "stopping"
      /\ StopOrder[7 + n] = "stopped" /\ StopOrder[8 + n] = "forget"
  <2>1. /\ Len(w) = Len(u) + Len(d)
        /\ \A i \in 1..Len(u) : w[i] = u[i]
        /\ \A i \in 1..Len(d) : w[Len(u) + i] = d[i]
    <3>1. u \in Seq(Stops) /\ d \in Seq(Stops)
      BY <1>5, <1>7
    <3>2. Len(w) = Len(u) + Len(d) /\ \A i \in 1..Len(u) : w[i] = u[i]
      BY Zenon, <3>1, JoinedAt DEF w
    <3>3. \A i \in 1..Len(d) : w[Len(u) + i] = d[i]
      BY <3>1, <3>2 DEF w
    <3>4. QED
      BY <3>2, <3>3
  <2>2. w[4 + n + 3] = "stopped" /\ w[4 + n + 4] = "forget"
    BY <1>2, <1>5, <1>7, <2>1
  <2>3. 4 + n + 3 = 7 + n /\ 4 + n + 4 = 8 + n
    BY <1>2
  <2>4. QED
    BY <1>1, <1>2, <1>5, <1>7, <2>1, <2>2, <2>3
<1>9. Head(StopOrder) = StopOrder[1]
  BY StopsInOrder DEF Orders
<1>10. Pos(StopOrder[1]) = 1 /\ Pos(StopOrder[3]) = 3 /\ Pos(StopOrder[7 + n]) = 7 + n
       /\ Pos(StopOrder[8 + n]) = 8 + n
  BY <1>2, <1>8, PosIs
<1>11. QED
  BY <1>2, <1>8, <1>9, <1>10

(* Where stopRunner and killProcesses go on.                               *)
LEMMA StopOnward ==
  ASSUME Shapes, NEW t \in Threads, NEW x, at[t] = <<"stop", x>>
  PROVE  /\ x \in Stops
         /\ \/ x = "forget" /\ Onward(t) = Idle
            \/ x # "forget" /\ \E y \in Stops : Onward(t) = <<"stop", y>> /\ Pos(y) = Pos(x) + 1
<1>1. x \in Stops
  <2>1. at[t] \in RunPlaces \/ at[t] \in StarterPlaces \/ at[t] \in StopPlaces
    BY DEF Shapes, PlacesOf
  <2>2. at[t] \in StopPlaces
    BY <2>1 DEF RunPlaces, StarterPlaces, Starting
  <2>3. QED
    BY <2>2 DEF StopPlaces, Idle
<1>2. Onward(t) = After("stop", StopOrder, x, Idle)
  BY DEF Onward, InStop
<1>3. Pos(x) \in 1..Len(StopOrder) /\ StopOrder[Pos(x)] = x
  BY <1>1, PosIs
<1>4. Onward(t) = IF Pos(x) = Len(StopOrder) THEN Idle ELSE <<"stop", StopOrder[Pos(x) + 1]>>
  <2> DEFINE i == Pos(x)
  <2> HIDE DEF i
  <2>1. After("stop", StopOrder, StopOrder[i], Idle)
          = IF i = Len(StopOrder) THEN Idle ELSE <<"stop", StopOrder[i + 1]>>
    BY <1>3, StopsInOrder, AfterIs DEF i
  <2>2. QED
    BY <1>2, <1>3, <2>1 DEF i
<1>5. "forget" \in Stops
  BY DEF Stops
<1>6. x = "forget" <=> Pos(x) = Len(StopOrder)
  BY <1>1, <1>5, PosIs, PosEnds
<1>7. ASSUME x # "forget" PROVE \E y \in Stops : Onward(t) = <<"stop", y>> /\ Pos(y) = Pos(x) + 1
  <2>1. Pos(x) + 1 \in 1..Len(StopOrder)
    BY <1>3, <1>6, <1>7, PosEnds
  <2>2. StopOrder[Pos(x) + 1] \in Stops
    BY <2>1, StopsInOrder DEF Orders
  <2>3. Pos(StopOrder[Pos(x) + 1]) = Pos(x) + 1
    BY <2>1, PosIs
  <2>4. QED
    BY <1>4, <1>6, <1>7, <2>2, <2>3
<1>8. QED
  BY <1>1, <1>4, <1>6, <1>7

LEMMA KillOnward ==
  ASSUME Shapes, NEW t \in Threads, NEW x, at[t] = <<"kill", x>>
  PROVE  /\ t \in Runs /\ x \in Kills
         /\ \/ Onward(t) = <<"connect", "establish">>
            \/ \E y \in Kills : Onward(t) = <<"kill", y>>
<1>1. at[t] \in PlacesOf(t)
  BY DEF Shapes
<1>2. at[t] \notin StopPlaces /\ at[t] \notin StarterPlaces
  BY DEF StarterPlaces, StopPlaces, Starting, Idle
<1>3. t \in Runs /\ at[t] \in RunPlaces
  BY <1>1, <1>2 DEF PlacesOf
<1>4. x \in Kills
  BY <1>2, <1>3 DEF RunPlaces
<1>5. Onward(t) = After("kill", KillOrder, x, AfterKill)
  BY DEF Onward, InStop
<1>6. Onward(t) = AfterKill \/ \E y \in Kills : Onward(t) = <<"kill", y>>
  BY <1>4, <1>5, KillsInOrder, AfterIn
<1>7. QED
  BY <1>3, <1>4, <1>6, VpnAssumption DEF AfterKill

-----------------------------------------------------------------------------
(* The types of what a step changes.                                       *)

Phases == {"check", "call", "clear", "set"}

LEMMA OnwardSteps ==
  ASSUME Shapes, ThreadsTyped, NEW t \in Threads, NEW x, at[t] \in {<<"stop", x>>, <<"kill", x>>},
         GoOn(t, Onward(t))
  PROVE  Steps(t, Onward(t), "check")
<1>1. Onward(t) \notin ToRun
  <2>1. CASE at[t] = <<"stop", x>>
    BY <2>1, StopOnward, NotToRun
  <2>2. CASE at[t] = <<"kill", x>>
    BY <2>2, KillOnward, NotToRun
  <2>3. QED
    BY <2>1, <2>2
<1>2. QED
  BY <1>1, GoOnSteps

LEMMA StopSteps ==
  ASSUME Shapes, Types, NEW t \in Threads, StopRunner(t)
  PROVE  \E p : \E q \in Phases : Steps(t, p, q)
<1>1. ThreadsTyped /\ UsesCover
  BY DEF Types
<1>2. "check" \in Phases /\ "call" \in Phases /\ "clear" \in Phases
  BY DEF Phases
<1>3. CASE Throw(t)
  BY <1>1, <1>2, <1>3, ThrowSteps
<1>4. CASE Phase(t, "call") \/ Phase(t, "clear")
  BY <1>1, <1>2, <1>4, PhaseSteps
<1>5. ASSUME NEW x, at[t] \in {<<"stop", x>>, <<"kill", x>>}, GoOn(t, Onward(t))
      PROVE  \E p : \E q \in Phases : Steps(t, p, q)
  BY <1>1, <1>2, <1>5, OnwardSteps
<1>6. CASE Release(t)
  <2>1. PICK r \in Resources : ReleaseCheck(t, r) \/ ReleaseCall(t, r) \/ ReleaseClear(t, r)
    BY <1>6 DEF Release
  <2>2. at[t] \in {<<"stop", r>>, <<"kill", r>>}
    BY <2>1 DEF ReleaseCheck, ReleaseCall, ReleaseClear, Releases
  <2>3. GoOn(t, Onward(t)) \/ Phase(t, "call") \/ Phase(t, "clear") \/ Throw(t)
    BY <2>1 DEF ReleaseCheck, ReleaseCall, ReleaseClear
  <2>4. QED
    BY <1>3, <1>4, <1>5, <2>2, <2>3
<1>7. CASE StopForget(t)
  <2>1. GoOn(t, IF t = Binder /\ next[t] # NoProfile THEN BeginStart ELSE Idle)
    BY <1>7 DEF StopForget
  <2>2. Idle \notin ToRun
    BY NotToRun
  <2>3. QED
    BY <1>1, <1>2, <2>1, <2>2, GoOnSteps
<1>8. CASE StopNotificationCheck(t) \/ StopNotificationCall(t)
  <2>1. at[t] = <<"stop", "notification">>
    BY <1>8 DEF StopNotificationCheck, StopNotificationCall
  <2>2. GoOn(t, Onward(t)) \/ Phase(t, "call") \/ Throw(t)
    BY <1>8 DEF StopNotificationCheck, StopNotificationCall
  <2>3. QED
    BY <1>3, <1>4, <1>5, <2>1, <2>2
<1>9. CASE StopReceiverCheck(t) \/ StopReceiverCall(t) \/ StopReceiverClear(t)
  <2>1. at[t] = <<"stop", "receiver">>
    BY <1>9 DEF StopReceiverCheck, StopReceiverCall, StopReceiverClear
  <2>2. GoOn(t, Onward(t)) \/ Phase(t, "call") \/ Phase(t, "clear") \/ Throw(t)
    BY <1>9 DEF StopReceiverCheck, StopReceiverCall, StopReceiverClear
  <2>3. QED
    BY <1>3, <1>4, <1>5, <2>1, <2>2
<1>10. CASE StopPost(t)
  BY <1>5, <1>10 DEF StopPost
<1>11. QED
  BY <1>6, <1>7, <1>8, <1>9, <1>10 DEF StopRunner

LEMMA SameData ==
  ASSUME DataTyped, UNCHANGED <<fieldVars, displayVars, messages>>
  PROVE  DataTyped'
BY DEF DataTyped, fieldVars, displayVars

LEMMA PostData ==
  ASSUME DataTyped, NEW s \in States, Post(s), UNCHANGED <<fieldVars, displayVars>>
  PROVE  DataTyped'
<1>1. messages' \in Seq(States)
  BY DEF DataTyped, Post
<1>2. QED
  BY <1>1 DEF DataTyped, fieldVars, displayVars

LEMMA StopData ==
  ASSUME DataTyped, NEW t \in Threads, StopRunner(t)
  PROVE  DataTyped'
<1>1. ASSUME NEW r \in Resources, ReleaseCheck(t, r) PROVE DataTyped'
  BY <1>1, SameData DEF ReleaseCheck
<1>2. ASSUME NEW r \in Resources, ReleaseCall(t, r) PROVE DataTyped'
  <2>1. live' \in [Resources -> SUBSET Runs]
    BY <1>2 DEF ReleaseCall, DataTyped
  <2>2. UNCHANGED <<state, profile, messages, field, displayVars>>
    BY <1>2 DEF ReleaseCall
  <2>3. QED
    BY <2>1, <2>2 DEF DataTyped, displayVars
<1>3. ASSUME NEW r \in Resources, ReleaseClear(t, r) PROVE DataTyped'
  <2>1. field' \in [Resources -> Runs \cup {None}]
    BY <1>3 DEF ReleaseClear, DataTyped
  <2>2. UNCHANGED <<state, profile, messages, live, displayVars>>
    BY <1>3 DEF ReleaseClear
  <2>3. QED
    BY <2>1, <2>2 DEF DataTyped, displayVars
<1>4. CASE StopPost(t)
  <2>1. "STOPPING" \in States /\ "STOPPED" \in States
    BY DEF States
  <2>2. QED
    BY <1>4, <2>1, PostData DEF StopPost
<1>5. CASE StopForget(t)
  BY <1>5 DEF StopForget, DataTyped, displayVars
<1>6. CASE StopNotificationCheck(t) \/ StopReceiverCheck(t)
  BY <1>6, SameData DEF StopNotificationCheck, StopReceiverCheck
<1>7. CASE StopNotificationCall(t)
  BY <1>7 DEF StopNotificationCall, DataTyped, fieldVars
<1>8. CASE StopReceiverCall(t) \/ StopReceiverClear(t)
  BY <1>8 DEF StopReceiverCall, StopReceiverClear, DataTyped, fieldVars
<1>9. QED
  BY <1>1, <1>2, <1>3, <1>4, <1>5, <1>6, <1>7, <1>8 DEF StopRunner, Release

LEMMA ConnectSteps ==
  ASSUME Shapes, Types, NEW c \in Runs,
         \/ Connect(c) \/ ConnectVpnThread(c) \/ ConnectVpnThreadRun(c)
         \/ ConnectEstablish(c) \/ ConnectFd(c)
  PROVE  \E p : \E q \in Phases : Steps(c, p, q)
<1>1. ThreadsTyped /\ UsesCover /\ c \in Threads /\ c # Binder
  BY ThreadKinds, VpnStarters DEF Types
<1>2. "check" \in Phases /\ "call" \in Phases
  BY DEF Phases
<1>3. CASE Throw(c)
  BY <1>1, <1>2, <1>3, ThrowSteps
<1>4. CASE Phase(c, "call")
  BY <1>1, <1>2, <1>4, PhaseSteps
<1>5. ASSUME NEW p, GoOn(c, p) PROVE \E r : \E q \in Phases : Steps(c, r, q)
  BY <1>1, <1>2, <1>5, GoOnSteps
<1>6. Throw(c) \/ Phase(c, "call") \/ \E p : GoOn(c, p)
  <2>1. CASE ConnectRead(c)
    BY <2>1 DEF ConnectRead
  <2>2. CASE ConnectFails(c) \/ ConnectLaunch(c) \/ ConnectStore(c)
    BY <2>2 DEF ConnectFails, ConnectLaunch, ConnectStore
  <2>3. CASE ConnectPost(c) \/ ConnectNotify(c) \/ ConnectAssign(c)
    BY <2>3 DEF ConnectPost, ConnectNotify, ConnectAssign
  <2>4. CASE ConnectVpnThread(c) \/ ConnectVpnThreadRun(c)
    BY <2>4 DEF ConnectVpnThread, ConnectVpnThreadRun
  <2>5. CASE ConnectEstablish(c) \/ ConnectFd(c)
    BY <2>5 DEF ConnectEstablish, ConnectFd
  <2>6. QED
    BY <2>1, <2>2, <2>3, <2>4, <2>5 DEF Connect
<1>7. QED
  BY <1>3, <1>4, <1>5, <1>6

LEMMA ConnectData ==
  ASSUME DataTyped, NEW c \in Runs,
         \/ Connect(c) \/ ConnectVpnThread(c) \/ ConnectVpnThreadRun(c)
         \/ ConnectEstablish(c) \/ ConnectFd(c)
  PROVE  DataTyped'
<1>1. CASE ConnectRead(c) \/ ConnectFails(c) \/ ConnectVpnThreadRun(c) \/ ConnectFd(c)
  BY <1>1, SameData DEF ConnectRead, ConnectFails, ConnectVpnThreadRun, ConnectFd
<1>2. CASE ConnectLaunch(c)
  <2>1. live' \in [Resources -> SUBSET Runs]
    BY <1>2 DEF ConnectLaunch, DataTyped
  <2>2. QED
    BY <1>2, <2>1 DEF ConnectLaunch, DataTyped, displayVars
<1>3. CASE ConnectStore(c)
  <2>1. field' \in [Resources -> Runs \cup {None}]
    BY <1>3 DEF ConnectStore, DataTyped
  <2>2. QED
    BY <1>3, <2>1 DEF ConnectStore, DataTyped, displayVars
<1>4. CASE ConnectPost(c)
  BY <1>4, PostData DEF ConnectPost, States
<1>5. CASE ConnectNotify(c) \/ ConnectAssign(c)
  BY <1>5 DEF ConnectNotify, ConnectAssign, DataTyped, fieldVars
<1>6. CASE ConnectVpnThread(c) \/ ConnectEstablish(c)
  <2>1. field' \in [Resources -> Runs \cup {None}] /\ live' \in [Resources -> SUBSET Runs]
    BY <1>6 DEF ConnectVpnThread, ConnectEstablish, DataTyped
  <2>2. UNCHANGED <<state, profile, displayVars, messages>>
    BY <1>6 DEF ConnectVpnThread, ConnectEstablish
  <2>3. QED
    BY <2>1, <2>2 DEF DataTyped, displayVars
<1>7. QED
  BY <1>1, <1>2, <1>3, <1>4, <1>5, <1>6 DEF Connect

(* There is a run left for one that is wanted.                             *)
LEMMA RunLeft ==
  ASSUME Types, at[Binder] \in ToRun
  PROVE  runs + 1 \in Runs /\ runs + 1 <= uses /\ runs \in Nat /\ next[Binder] # NoProfile
<1>1. next[Binder] # NoProfile /\ runs + 1 <= uses
  BY DEF Types, UsesCover, Wanted
<1>2. runs \in Runs \cup {0} /\ uses \in 0..MaxUses
  BY DEF Types, HistoryTyped
<1>3. QED
  BY <1>1, <1>2, BoundsAssumption DEF Runs

LEMMA StartPlaces ==
  \A x \in {"prepare", "profile", "trafficMonitor", "run", "receiver", "connecting", "future"} :
    <<"start", x>> \in ToRun
BY DEF ToRun, Starting

LEMMA StartSteps ==
  ASSUME Shapes, Types, StartRunner(Binder), ~StartFuture(Binder)
  PROVE  \E p : \E q \in Phases : Steps(Binder, p, q)
<1>1. ThreadsTyped /\ UsesCover /\ Binder \in Threads
  BY VpnStarters DEF Types
<1>2. \A q \in {"check", "call", "set"} : q \in Phases
  BY DEF Phases
<1>3. at[Binder] \in ToRun
  BY StartPlaces DEF StartRunner, StartProfile, StartTrafficMonitor, StartTrafficMonitorRun,
     StartReceiverCheck, StartReceiverCall, StartReceiverSet, StartPost
<1>4. next[Binder] # NoProfile
  BY <1>1, <1>3 DEF UsesCover
<1>5. Throw(Binder) \/ Phase(Binder, "call") \/ Phase(Binder, "set") \/ \E p : GoOn(Binder, p)
  <2>1. CASE StartProfile(Binder) \/ StartTrafficMonitor(Binder) \/ StartTrafficMonitorRun(Binder)
    BY <2>1 DEF StartProfile, StartTrafficMonitor, StartTrafficMonitorRun
  <2>2. CASE \/ StartReceiverCheck(Binder) \/ StartReceiverCall(Binder)
             \/ StartReceiverSet(Binder) \/ StartPost(Binder)
    BY <2>2 DEF StartReceiverCheck, StartReceiverCall, StartReceiverSet, StartPost
  <2>3. QED
    BY <2>1, <2>2 DEF StartRunner
<1>6. CASE Throw(Binder)
  BY <1>1, <1>2, <1>6, ThrowSteps
<1>7. CASE Phase(Binder, "call") \/ Phase(Binder, "set")
  BY <1>1, <1>2, <1>7, PhaseSteps
<1>8. CASE \E p : GoOn(Binder, p)
  BY <1>1, <1>2, <1>4, <1>8, GoOnSteps
<1>9. QED
  BY <1>5, <1>6, <1>7, <1>8

LEMMA StartData ==
  ASSUME Types, StartRunner(Binder)
  PROVE  DataTyped'
<1>1. DataTyped
  BY DEF Types
<1>2. CASE StartProfile(Binder)
  <2>1. next[Binder] \in Profiles \cup {NoProfile}
    BY VpnStarters DEF Types, ThreadsTyped
  <2>2. QED
    BY <1>1, <1>2, <2>1 DEF StartProfile, DataTyped, displayVars
<1>3. CASE StartTrafficMonitor(Binder)
  <2>1. runs + 1 \in Runs
    BY <1>3, StartPlaces, RunLeft DEF StartTrafficMonitor
  <2>2. field' \in [Resources -> Runs \cup {None}] /\ live' \in [Resources -> SUBSET Runs]
    BY <1>1, <1>3, <2>1 DEF StartTrafficMonitor, DataTyped
  <2>3. QED
    BY <1>1, <1>3, <2>2 DEF StartTrafficMonitor, DataTyped, displayVars
<1>4. CASE StartTrafficMonitorRun(Binder) \/ StartReceiverCheck(Binder) \/ StartFuture(Binder)
  BY <1>1, <1>4, SameData DEF StartTrafficMonitorRun, StartReceiverCheck, StartFuture
<1>5. CASE StartReceiverCall(Binder) \/ StartReceiverSet(Binder)
  BY <1>1, <1>5 DEF StartReceiverCall, StartReceiverSet, DataTyped, fieldVars
<1>6. CASE StartPost(Binder)
  BY <1>1, <1>6, PostData DEF StartPost, States
<1>7. QED
  BY <1>2, <1>3, <1>4, <1>5, <1>6 DEF StartRunner

(* The run that begins is one of a use().                                  *)
LEMMA StartFutureTyped ==
  ASSUME Shapes, Types, StartFuture(Binder), uses' = uses
  PROVE  ThreadsTyped' /\ UsesCover' /\ runs' \in Runs
<1>1. runs' = runs + 1 /\ runs + 1 \in Runs /\ runs + 1 <= uses /\ runs \in Nat
  BY StartPlaces, RunLeft DEF StartFuture
<1>2. ThreadsTyped /\ Binder \in Starters /\ Binder # runs + 1
  BY <1>1, VpnStarters DEF Types
<1>3. next' = [next EXCEPT ![Binder] = NoProfile] /\ phase' = phase /\ crashed' = crashed
  BY DEF StartFuture
<1>4. ThreadsTyped'
  <2>1. crashed' \in BOOLEAN
    BY Zenon, <1>2, <1>3 DEF ThreadsTyped
  <2>2. QED
    BY <1>2, <1>3, <2>1 DEF ThreadsTyped
<1>5. next'[Binder] = NoProfile
  BY <1>2, <1>3 DEF ThreadsTyped
<1>6. at'[Binder] = Idle
  BY <1>2, VpnStarters DEF StartFuture, Shapes
<1>7. UsesCover'
  <2>1. Wanted' = 0
    BY <1>5 DEF Wanted
  <2>2. QED
    BY <1>1, <1>6, <2>1, NotToRun DEF UsesCover
<1>8. QED
  BY <1>1, <1>4, <1>7

LEMMA StepTyped ==
  ASSUME Shapes, Types, NEW t \in Threads, ThreadStep(t)
  PROVE  DataTyped' /\ ThreadsTyped' /\ UsesCover' /\ runs' \in Runs \cup {0}
<1>1. DataTyped /\ ThreadsTyped /\ UsesCover /\ uses' = uses
      /\ runs \in Runs \cup {0} /\ runs \in Nat /\ uses \in Nat
  BY BoundsAssumption DEF Types, HistoryTyped, ThreadStep, NoRequest, Runs
<1>2. \A q : q \in Phases <=> q \in {"check", "call", "clear", "set"}
  BY DEF Phases
<1>3. ASSUME \E p : \E q \in Phases : Steps(t, p, q), runs' = runs
      PROVE  ThreadsTyped' /\ UsesCover' /\ runs' \in Runs \cup {0}
  BY <1>1, <1>2, <1>3, StepsTyped
<1>4. CASE StopRunner(t)
  <2>1. runs' = runs
    BY <1>4 DEF StopRunner, Release, ReleaseCheck, ReleaseCall, ReleaseClear, StopPost, StopForget,
       StopNotificationCheck, StopNotificationCall, StopReceiverCheck, StopReceiverCall,
       StopReceiverClear
  <2>2. QED
    BY <1>1, <1>3, <1>4, <2>1, StopSteps, StopData
<1>5. CASE t = Binder /\ StartRunner(t)
  <2>1. DataTyped'
    BY <1>5, StartData
  <2>2. CASE StartFuture(t)
    BY <1>1, <1>5, <2>1, <2>2, StartFutureTyped
  <2>3. CASE ~StartFuture(t)
    <3>1. runs' = runs
      BY <1>5, <2>3 DEF StartRunner, StartProfile, StartTrafficMonitor, StartTrafficMonitorRun,
         StartReceiverCheck, StartReceiverCall, StartReceiverSet, StartPost
    <3>2. QED
      BY <1>3, <1>5, <2>1, <2>3, <3>1, StartSteps
  <2>4. QED
    BY <2>2, <2>3
<1>6. CASE t \in Runs /\ (Connect(t) \/ ConnectVpnThread(t) \/ ConnectVpnThreadRun(t)
                            \/ ConnectEstablish(t) \/ ConnectFd(t))
  <2>1. runs' = runs
    BY <1>6 DEF Connect, ConnectRead, ConnectFails, ConnectLaunch, ConnectStore, ConnectPost,
       ConnectNotify, ConnectAssign, ConnectVpnThread, ConnectVpnThreadRun, ConnectEstablish,
       ConnectFd
  <2>2. QED
    BY <1>1, <1>3, <1>6, <2>1, ConnectSteps, ConnectData
<1>7. CASE t = Binder /\ StartPrepare
  <2>1. DataTyped' /\ runs' = runs
    BY <1>1, <1>7, SameData DEF StartPrepare
  <2>2. next[Binder] # NoProfile
    BY <1>7, StartPlaces, RunLeft DEF StartPrepare
  <2>3. BeginStop \notin ToRun
    BY NotToRun DEF BeginStop
  <2>4. CASE GoOn(Binder, <<"start", "profile">>)
    <3>1. Steps(t, <<"start", "profile">>, "check")
      BY <1>1, <1>7, <2>2, <2>4, GoOnSteps
    <3>2. QED
      BY <1>2, <1>3, <2>1, <3>1
  <2>5. CASE Leave(Binder, BeginStop) /\ UNCHANGED crashed
    <3>1. crashed' \in BOOLEAN
      BY Zenon, <1>1, <2>5 DEF ThreadsTyped
    <3>2. Steps(t, BeginStop, "check")
      BY <1>1, <1>7, <2>3, <2>5, <3>1, LeaveSteps
    <3>3. QED
      BY <1>2, <1>3, <2>1, <3>2
  <2>6. QED
    BY <1>7, <2>4, <2>5 DEF StartPrepare
<1>8. CASE t = Binder /\ UseSwitch
  <2>1. DataTyped' /\ runs' = runs
    BY <1>1, <1>8, SameData DEF UseSwitch
  <2>2. BeginStop \notin ToRun /\ Idle \notin ToRun
    BY NotToRun DEF BeginStop
  <2>3. CASE Throw(Binder)
    BY <1>1, <1>2, <1>3, <1>8, <2>1, <2>3, ThrowSteps
  <2>4. ASSUME NEW p \in {BeginStop, Idle}, Leave(Binder, p), UNCHANGED crashed
        PROVE  ThreadsTyped' /\ UsesCover' /\ runs' \in Runs \cup {0}
    <3>1. crashed' \in BOOLEAN
      BY Zenon, <1>1, <2>4 DEF ThreadsTyped
    <3>2. Steps(t, p, "check")
      BY <1>1, <1>8, <2>2, <2>4, <3>1, LeaveSteps
    <3>3. QED
      BY <1>2, <1>3, <2>1, <3>2
  <2>5. CASE GoOn(Binder, BeginStop)
    <3>1. Steps(t, BeginStop, "check")
      BY <1>1, <1>8, <2>2, <2>5, GoOnSteps
    <3>2. QED
      BY <1>2, <1>3, <2>1, <3>1
  <2>6. QED
    BY <1>8, <2>1, <2>3, <2>4, <2>5 DEF UseSwitch
<1>9. CASE t = Main /\ HandleMessage
  <2>1. state' \in States /\ messages' \in Seq(States)
    BY <1>1, <1>9 DEF HandleMessage, DataTyped
  <2>2. DataTyped'
    BY <1>1, <1>9, <2>1 DEF HandleMessage, DataTyped, displayVars
  <2>3. UNCHANGED <<at, phase, next, runs, crashed>>
    BY <1>9 DEF HandleMessage, threadVars
  <2>4. ThreadsTyped'
    BY Zenon, <1>1, <2>3 DEF ThreadsTyped
  <2>5. QED
    BY <1>1, <2>2, <2>3, <2>4 DEF UsesCover, Wanted
<1>10. t \in Starters => t = Binder
  BY VpnStarters
<1>11. QED
  BY <1>4, <1>5, <1>6, <1>7, <1>8, <1>9, <1>10 DEF ThreadStep, BaseStep

LEMMA RequestTyped ==
  ASSUME Shapes, Types, Request
  PROVE  DataTyped' /\ ThreadsTyped' /\ UsesCover' /\ runs' \in Runs \cup {0}
<1>1. DataTyped /\ ThreadsTyped /\ UsesCover /\ Binder \in Threads /\ Main \in Threads
      /\ Binder \in Starters
  BY VpnStarters, ThreadKinds DEF Types
<1>2. runs \in Runs \cup {0} /\ runs \in Nat /\ uses \in Nat
  BY BoundsAssumption DEF Types, HistoryTyped, Runs
<1>3. UNCHANGED <<fieldVars, displayVars, messages, runs>>
  BY DEF Request, Use, UseStop, UseProfile, Close, Revoke
<1>4. DataTyped'
  BY <1>1, <1>3, SameData
<1>5. uses' \in Nat /\ uses <= uses'
  BY <1>2 DEF Request, CountUse, CountClose
<1>6. runs + Wanted <= uses /\ Wanted \in {0, 1}
  BY <1>1 DEF UsesCover, Wanted
<1>7. ASSUME NEW t \in {Binder, Main}, GoOn(t, BeginStop)
      PROVE  ThreadsTyped' /\ UsesCover'
  <2>1. BeginStop \notin ToRun
    BY NotToRun DEF BeginStop
  <2>2. Steps(t, BeginStop, "check")
    BY <1>1, <1>7, <2>1, GoOnSteps
  <2>3. ThreadsTyped'
    BY <1>1, <2>2 DEF Steps, ThreadsTyped
  <2>4. at'[Binder] = at[Binder] \/ at'[Binder] = BeginStop
    BY <1>1, <2>2 DEF Steps, Shapes
  <2>5. next' = next /\ Wanted' = Wanted
    BY <1>7 DEF GoOn, Wanted
  <2>6. QED
    BY <1>1, <1>2, <1>3, <1>5, <1>6, <2>1, <2>3, <2>4, <2>5 DEF UsesCover
<1>8. ASSUME NEW p \in Profiles, UseProfile(p), uses' = uses + 1
      PROVE  ThreadsTyped' /\ UsesCover'
  <2>1. CASE GoOn(Binder, BeginStop)
    BY <1>7, <2>1
  <2>2. CASE UNCHANGED <<at, phase, next, crashed>>
    <3>1. ThreadsTyped'
      BY Zenon, <1>1, <2>2 DEF ThreadsTyped
    <3>2. QED
      BY <1>1, <1>2, <1>3, <1>5, <1>6, <2>2, <3>1 DEF UsesCover, Wanted
  <2>3. ASSUME NEW q, Go(Binder, q), next' = [next EXCEPT ![Binder] = p], UNCHANGED crashed
        PROVE  ThreadsTyped' /\ UsesCover'
    <3>1. crashed' \in BOOLEAN
      BY Zenon, <1>1, <2>3 DEF ThreadsTyped
    <3>2. ThreadsTyped'
      BY <1>1, <2>3, <3>1 DEF Go, ThreadsTyped
    <3>3. next'[Binder] = p /\ p # NoProfile
      BY <1>1, <2>3, ProfilesAssumption DEF ThreadsTyped
    <3>4. Wanted' = 1
      BY <3>3 DEF Wanted
    <3>5. QED
      BY <1>2, <1>3, <1>6, <1>8, <3>2, <3>3, <3>4 DEF UsesCover
  <2>4. QED
    BY <1>8, <2>1, <2>2, <2>3 DEF UseProfile
<1>9. ThreadsTyped' /\ UsesCover'
  BY <1>7, <1>8 DEF Request, Use, UseStop, Close, Revoke, CountUse
<1>10. QED
  BY <1>2, <1>3, <1>4, <1>9

LEMMA NextTyped ==
  ASSUME Shapes, Types, [Next]_vars
  PROVE  Types'
<1>1. CASE UNCHANGED vars
  <2>1. /\ UNCHANGED <<state, profile, messages, field, live, notification, listening>>
        /\ UNCHANGED <<receiverFlag, receiver, next, phase, crashed, runs, uses, closes, at>>
        /\ UNCHANGED <<overlapped, stopsOverlapped, startedDirty>>
    BY <1>1 DEF vars, baseVars, fieldVars, displayVars, threadVars, historyVars
  <2>2. DataTyped'
    BY Zenon, <2>1 DEF DataTyped, Types
  <2>3. ThreadsTyped'
    BY Zenon, <2>1 DEF ThreadsTyped, Types
  <2>4. HistoryTyped'
    BY Zenon, <2>1 DEF HistoryTyped, Types
  <2>5. QED
    BY <2>1, <2>2, <2>3, <2>4 DEF Types, UsesCover, Wanted
<1>2. CASE Next
  <2>1. DataTyped' /\ ThreadsTyped' /\ UsesCover' /\ runs' \in Runs \cup {0}
    BY <1>2, RequestTyped, StepTyped DEF Next
  <2>2. HistoryTyped
    BY DEF Types
  <2>3. History
    BY <1>2 DEF Next, Request, CountUse, CountClose, CountOverlap, ThreadStep, NoRequest
  <2>4. stopsOverlapped' \in BOOLEAN /\ startedDirty' \in BOOLEAN
    BY Zenon, <2>2, <2>3 DEF History, HistoryTyped
  <2>5. overlapped' \in BOOLEAN
    <3>1. overlapped' = overlapped \/ overlapped' = (overlapped \/ ~Quiet)
      BY <1>2 DEF Next, Request, CountUse, CountClose, CountOverlap, ThreadStep, NoRequest
    <3>2. QED
      BY Zenon, <2>2, <3>1 DEF HistoryTyped
  <2>6. uses' \in 0..MaxUses /\ closes' \in 0..MaxCloses
    <3>1. uses \in 0..MaxUses /\ closes \in 0..MaxCloses
      BY <2>2 DEF HistoryTyped
    <3>2. CASE UNCHANGED <<uses, closes>>
      BY <3>1, <3>2
    <3>3. CASE CountUse \/ CountClose
      BY <3>1, <3>3, BoundsAssumption DEF CountUse, CountClose
    <3>4. QED
      BY <1>2, <3>2, <3>3 DEF Next, Request, ThreadStep, NoRequest
  <2>7. QED
    BY <2>1, <2>4, <2>5, <2>6 DEF Types, HistoryTyped
<1>3. QED
  BY <1>1, <1>2

LEMMA BaseInitTyped == BaseInit => Types
<1> SUFFICES ASSUME BaseInit PROVE Types
  OBVIOUS
<1>1. DataTyped
  <2>1. receiverFlag \in BOOLEAN /\ receiver \in BOOLEAN
    BY Zenon DEF BaseInit
  <2>2. state \in States /\ messages \in Seq(States) /\ profile \in Profiles \cup {NoProfile}
        /\ notification \in Runs \cup {None} /\ listening \subseteq Runs
    BY DEF BaseInit, States
  <2>3. field \in [Resources -> Runs \cup {None}] /\ live \in [Resources -> SUBSET Runs]
    BY DEF BaseInit
  <2>4. QED
    BY <2>1, <2>2, <2>3 DEF DataTyped
<1>2. ThreadsTyped
  BY DEF BaseInit, ThreadsTyped
<1>3. HistoryTyped
  <2>1. overlapped \in BOOLEAN /\ stopsOverlapped \in BOOLEAN /\ startedDirty \in BOOLEAN
    BY Zenon DEF BaseInit
  <2>2. runs \in Runs \cup {0} /\ uses \in 0..MaxUses /\ closes \in 0..MaxCloses
    BY BoundsAssumption DEF BaseInit
  <2>3. QED
    BY <2>1, <2>2 DEF HistoryTyped
<1>4. UsesCover
  <2>1. next[Binder] = NoProfile /\ at[Binder] = Idle /\ runs = 0 /\ uses = 0
    BY VpnStarters DEF BaseInit
  <2>2. QED
    BY <2>1, NotToRun DEF UsesCover, Wanted
<1>5. QED
  BY <1>1, <1>2, <1>3, <1>4 DEF Types

-----------------------------------------------------------------------------
(* Requests that are worked off one at a time.  One thread is at work, or  *)
(* none, and the place it is at tells what there is of the last run, and   *)
(* which state was posted last.                                            *)

Gone(r) == field[r] = None /\ live[r] = {}
There(r, c) == c # None /\ field[r] = c /\ live[r] = {c}
Left(r) == Gone(r) \/ There(r, runs)

Silent == listening = {}
Shown == runs # None /\ notification = runs /\ listening = {runs}

Registered == receiverFlag /\ receiver
Unregistered == ~receiverFlag /\ ~receiver

Posted == IF messages = <<>> THEN state ELSE messages[Len(messages)]

(* The steps of the state that PublishedOrder admits, but for stuttering.  *)
Turns ==
  {<<"STOPPED", "CONNECTING">>, <<"CONNECTING", "CONNECTED">>,
   <<"CONNECTING", "STOPPING">>, <<"CONNECTED", "STOPPING">>,
   <<"STOPPED", "STOPPING">>, <<"STOPPING", "STOPPED">>}

InOrder ==
  /\ messages # <<>> => <<state, messages[1]>> \in Turns
  /\ \A i \in 1..Len(messages) : i # 1 => <<messages[i - 1], messages[i]>> \in Turns

Full == runs # None /\ EverythingWorks
AtRest ==
  \/ Posted = "STOPPED" /\ NothingLeft
  \/ Posted = "CONNECTED" /\ Full

AtSwitch(t) ==
  t = Binder /\ at[t] = <<"use", "switch">> /\ Posted = "CONNECTED" /\ Full

(* startRunner: one thing after the other.                                 *)
AtStart(t) ==
  /\ t = Binder
  /\ at[t] \in {<<"start", x>> : x \in {"prepare", "profile", "trafficMonitor", "run", "receiver",
                                         "connecting", "future"}}
  /\ Posted = IF at[t][2] = "future" THEN "CONNECTING" ELSE "STOPPED"
  /\ profile = NoProfile <=> at[t][2] \in {"prepare", "profile"}
  /\ \A r \in Resources \ {"trafficMonitor"} : Gone(r)
  /\ IF at[t][2] \in {"prepare", "profile", "trafficMonitor"}
       THEN Gone("trafficMonitor") ELSE There("trafficMonitor", runs + 1)
  /\ Silent
  /\ at[t][2] \in {"prepare", "profile", "trafficMonitor", "run"} => Unregistered
  /\ at[t][2] = "receiver" => ~receiverFlag /\ (phase[t] \in {"check", "call"} => ~receiver)
                               /\ (phase[t] = "set" => receiver)
  /\ at[t][2] \in {"connecting", "future"} => Registered

(* connect: what is still to make is not there, and what was to be made    *)
(* is, but pdnsd when the profile does without it, an executable that is   *)
(* not stored yet, and a tunnel that establish did not deliver.            *)
Settled(c, r) == IF r \in Needed THEN There(r, c) ELSE Gone(r)
Made(c, r) ==
  \/ at[c] = <<"store", r>> /\ r \in Needed /\ field[r] = None /\ live[r] = {c}
  \/ at[c] = <<"connect", "fd">> /\ r = "conn" /\ Gone(r)
  \/ at[c] # <<"store", r>> /\ Settled(c, r)

AtConnect(c) ==
  /\ c \in Runs /\ c = runs /\ Working(at[c])
  /\ Posted = IF at[c] \in {<<"connect", "notify">>, <<"connect", "assign">>}
                THEN "CONNECTED" ELSE "CONNECTING"
  /\ profile # NoProfile
  /\ \A r \in ToMake(at[c]) : Gone(r)
  /\ \A r \in Resources \ ToMake(at[c]) : Made(c, r)
  /\ at[c][1] = "launch" /\ phase[c] = "call" => at[c][2] \in Needed
  /\ at[c][1] = "kill" => phase[c] = "check"
  /\ listening = IF at[c] = <<"connect", "assign">> THEN {c} ELSE {}
  /\ Registered

(* stopRunner: what it has passed is gone, and the rest is there or not.   *)
StopPosted(x) ==
  IF Pos(x) <= Pos("stopping") THEN Posted \in {"STOPPED", "CONNECTING", "CONNECTED"}
  ELSE IF x = "forget" THEN Posted = "STOPPED" ELSE Posted = "STOPPING"

StopResources(t, x) ==
  \A r \in Resources :
    /\ Pos(r) < Pos(x) => Gone(r)
    /\ r # x \/ phase[t] = "check" => Left(r)
    /\ r = x /\ phase[t] = "call" => There(r, runs)
    /\ r = x /\ phase[t] = "clear" => live[r] = {}

StopNotification(t, x) ==
  /\ Pos("notification") < Pos(x) => Silent
  /\ Silent \/ Shown
  /\ x = "notification" /\ phase[t] = "call" => Shown

StopReceiver(t, x) ==
  /\ Pos("receiver") < Pos(x) => Unregistered
  /\ x # "receiver" \/ phase[t] = "check" => Registered \/ Unregistered
  /\ x = "receiver" /\ phase[t] = "call" => Registered
  /\ x = "receiver" /\ phase[t] = "clear" => ~receiver

AtStop(t) ==
  \E x \in Stops :
    /\ at[t] = <<"stop", x>>
    /\ StopPosted(x) /\ StopResources(t, x) /\ StopNotification(t, x) /\ StopReceiver(t, x)

OneAtATime ==
  /\ ~crashed
  /\ InOrder
  /\ \A t, u \in Threads : Active(t) /\ Active(u) => t = u
  /\ (\A t \in Threads : ~Active(t)) => AtRest
  /\ \A t \in Threads : Active(t) => AtSwitch(t) \/ AtStart(t) \/ AtConnect(t) \/ AtStop(t)

Sequential == ~overlapped => OneAtATime

-----------------------------------------------------------------------------
(* The messages, and what was posted last.                                 *)

LEMMA PostTurns ==
  ASSUME messages \in Seq(States), InOrder, NEW s \in States, <<Posted, s>> \in Turns, Post(s),
         state' = state
  PROVE  InOrder' /\ Posted' = s
<1> DEFINE n == Len(messages)
<1>1. n \in Nat /\ messages' = Append(messages, s) /\ messages' \in Seq(States)
  BY DEF Post
<1>2. Len(messages') = n + 1 /\ messages'[n + 1] = s /\ messages' # <<>>
      /\ \A i \in 1..n : messages'[i] = messages[i]
  BY <1>1
<1>3. messages = <<>> <=> n = 0
  OBVIOUS
<1> HIDE DEF n
<1>4. Posted' = s
  BY <1>2 DEF Posted
<1>5. n # 0 => Posted = messages[n]
  BY <1>3 DEF Posted, n
<1>6. n = 0 => Posted = state
  BY <1>3 DEF Posted
<1>7. <<state', messages'[1]>> \in Turns
  <2>1. CASE n = 0
    BY <1>2, <1>6, <2>1
  <2>2. CASE n # 0
    <3>1. messages'[1] = messages[1]
      BY <1>1, <1>2, <2>2
    <3>2. <<state, messages[1]>> \in Turns
      BY <1>3, <2>2 DEF InOrder
    <3>3. QED
      BY <3>1, <3>2
  <2>3. QED
    BY <2>1, <2>2
<1>8. ASSUME NEW i \in 1..(n + 1), i # 1 PROVE <<messages'[i - 1], messages'[i]>> \in Turns
  <2>1. i - 1 \in 1..n
    BY <1>1, <1>8
  <2>2. messages'[i - 1] = messages[i - 1]
    BY <1>2, <2>1
  <2>3. CASE i = n + 1
    BY <1>1, <1>2, <1>5, <2>1, <2>2, <2>3
  <2>4. CASE i # n + 1
    <3>1. i \in 1..n
      BY <1>1, <1>8, <2>4
    <3>2. <<messages[i - 1], messages[i]>> \in Turns
      BY <1>8, <3>1 DEF InOrder, n
    <3>3. QED
      BY <1>2, <2>2, <3>1, <3>2
  <2>5. QED
    BY <2>3, <2>4
<1>9. QED
  BY <1>2, <1>4, <1>7, <1>8 DEF InOrder

LEMMA EmptyIs == \A m \in Seq(States) : m = <<>> <=> Len(m) = 0
OBVIOUS

LEMMA HandleTurns ==
  ASSUME messages \in Seq(States), InOrder, messages # <<>>, state' = Head(messages),
         messages' = Tail(messages)
  PROVE  InOrder' /\ Posted' = Posted /\ <<state, state'>> \in Turns
<1> DEFINE n == Len(messages)
<1>1. n \in Nat /\ n >= 1 /\ Len(messages') = n - 1 /\ state' = messages[1]
      /\ \A i \in 1..(n - 1) : messages'[i] = messages[i + 1]
  OBVIOUS
<1>2. messages' = <<>> <=> n = 1
  <2>1. messages' \in Seq(States)
    OBVIOUS
  <2>2. messages' = <<>> <=> Len(messages') = 0
    BY <2>1, EmptyIs
  <2>3. QED
    BY <1>1, <2>2
<1>3. <<state, state'>> \in Turns
  BY <1>1 DEF InOrder
<1>4. \A i \in 1..n : i # 1 => <<messages[i - 1], messages[i]>> \in Turns
  BY DEF InOrder
<1>5. Posted = messages[n]
  BY DEF Posted
<1> HIDE DEF n
<1>6. Posted' = Posted
  BY <1>1, <1>2, <1>5 DEF Posted
<1>7. messages' # <<>> => <<state', messages'[1]>> \in Turns
  <2>1. SUFFICES ASSUME n # 1 PROVE <<messages[1], messages[2]>> \in Turns
    BY <1>1, <1>2
  <2>2. 2 \in 1..n /\ 2 - 1 = 1
    BY <1>1, <2>1
  <2>3. QED
    BY <1>4, <2>2
<1>8. ASSUME NEW i \in 1..(n - 1), i # 1 PROVE <<messages'[i - 1], messages'[i]>> \in Turns
  <2>1. i - 1 \in 1..(n - 1) /\ i + 1 \in 1..n /\ i + 1 # 1 /\ i + 1 - 1 = i /\ i - 1 + 1 = i
    BY <1>1, <1>8
  <2>2. QED
    BY <1>1, <1>4, <2>1
<1>9. QED
  BY <1>1, <1>3, <1>6, <1>7, <1>8 DEF InOrder

LEMMA SamePosted ==
  ASSUME UNCHANGED <<state, messages>>
  PROVE  Posted' = Posted /\ (InOrder => InOrder')
BY DEF Posted, InOrder

-----------------------------------------------------------------------------
(* One thread at a time.                                                   *)

Alone(t) == \A u \in Threads : u # t => ~Active(u)

LEMMA AtWorkAlone ==
  ASSUME OneAtATime, NEW t \in Threads, Active(t)
  PROVE  Alone(t)
BY DEF OneAtATime, Alone

(* A thread at work, or one that begins when all are idle, takes a step.   *)
LEMMA AloneMoves ==
  ASSUME Shapes, NEW t \in Threads, Alone(t), NEW p, NEW q, Moves(t, p, q), ~crashed', InOrder',
         p = Idle => AtRest',
         p # Idle => (AtSwitch(t) \/ AtStart(t) \/ AtConnect(t) \/ AtStop(t))'
  PROVE  OneAtATime'
<1>1. at'[t] = p /\ \A u \in Threads : u # t => at'[u] = at[u]
  BY MovesTo
<1>2. \A u \in Threads : u # t => ~Active(u)'
  BY <1>1 DEF Alone, Active
<1>3. Active(t)' <=> p # Idle
  BY <1>1 DEF Active
<1>4. \A u, v \in Threads : Active(u)' /\ Active(v)' => u = v
  BY <1>2
<1>5. (\A u \in Threads : ~Active(u)') => AtRest'
  BY <1>3
<1>6. \A u \in Threads : Active(u)' => (AtSwitch(u) \/ AtStart(u) \/ AtConnect(u) \/ AtStop(u))'
  BY <1>2, <1>3
<1>7. QED
  BY <1>4, <1>5, <1>6 DEF OneAtATime

-----------------------------------------------------------------------------
(* stopRunner.                                                             *)

LEMMA StopNames ==
  /\ Resources \subseteq Stops /\ Resources = Executables \cup {"trafficMonitor", "vpnThread", "conn"}
  /\ {"notification", "receiver", "stopping", "stopped", "forget"} \subseteq Stops
  /\ \A x \in {"notification", "receiver", "stopping", "stopped", "forget"} : x \notin Resources
BY VpnAssumption, ExecutablesAssumption DEF Resources, Stops, Kills

LEMMA PosOrder ==
  /\ \A x \in Stops : Pos(x) \in Nat /\ Pos(x) <= Len(StopOrder)
  /\ \A x, y \in Stops : Pos(x) = Pos(y) => x = y
  /\ \A x \in Stops : x # "forget" => Pos(x) < Pos("forget")
<1>1. \A x \in Stops : Pos(x) \in 1..Len(StopOrder) /\ StopOrder[Pos(x)] = x
  BY PosIs
<1>2. Len(StopOrder) \in Nat /\ Pos("forget") = Len(StopOrder)
  BY PosEnds
<1>3. \A x, y \in Stops : Pos(x) = Pos(y) => x = y
  BY <1>1
<1>4. "forget" \in Stops
  BY StopNames
<1>5. \A x \in Stops : x # "forget" => Pos(x) # Len(StopOrder)
  BY <1>2, <1>3, <1>4
<1>6. QED
  BY <1>1, <1>2, <1>3, <1>5

StopsAt(t, x) ==
  StopPosted(x) /\ StopResources(t, x) /\ StopNotification(t, x) /\ StopReceiver(t, x)

LEMMA AtStopIs ==
  ASSUME OneAtATime, NEW t \in Threads, NEW x, at[t] = <<"stop", x>>
  PROVE  StopsAt(t, x) /\ Alone(t) /\ ~crashed /\ InOrder
<1>1. Active(t)
  BY DEF Active, Idle
<1>2. Alone(t) /\ ~crashed /\ InOrder
  BY <1>1, AtWorkAlone DEF OneAtATime
<1>3. ~AtSwitch(t)
  BY DEF AtSwitch
<1>4. ~AtStart(t)
  BY DEF AtStart
<1>5. ~AtConnect(t)
  BY DEF AtConnect, Working
<1>6. AtStop(t)
  BY <1>1, <1>3, <1>4, <1>5 DEF OneAtATime
<1>7. QED
  BY <1>2, <1>6 DEF AtStop, StopsAt

LEMMA StopLands ==
  ASSUME Shapes, NEW t \in Threads, Alone(t), NEW y \in Stops, NEW q, Moves(t, <<"stop", y>>, q),
         ~crashed', InOrder', StopsAt(t, y)'
  PROVE  OneAtATime'
<1>1. at'[t] = <<"stop", y>>
  BY MovesTo
<1>2. AtStop(t)'
  BY <1>1 DEF AtStop, StopsAt
<1>3. <<"stop", y>> # Idle
  BY DEF Idle
<1>4. QED
  BY <1>2, <1>3, AloneMoves

(* What a place has dealt with is gone, and the rest is as it was.         *)
Deals(x) ==
  /\ \A r \in Resources : IF r = x THEN Gone(r)' ELSE field'[r] = field[r] /\ live'[r] = live[r]
  /\ IF x = "notification" THEN Silent' ELSE UNCHANGED <<notification, listening>>
  /\ IF x = "receiver" THEN Unregistered' ELSE UNCHANGED <<receiverFlag, receiver>>
  /\ Posted' = IF x = "stopping" THEN "STOPPING" ELSE IF x = "stopped" THEN "STOPPED" ELSE Posted

LEMMA StopPasses ==
  ASSUME Shapes, OneAtATime, NEW t \in Threads, NEW x, x # "forget", at[t] = <<"stop", x>>,
         Moves(t, Onward(t), "check"), ~crashed', InOrder', Deals(x),
         StopsAt(t, x)
  PROVE  OneAtATime'
<1>1. x \in Stops
  BY StopOnward
<1>2. PICK y \in Stops : Onward(t) = <<"stop", y>> /\ Pos(y) = Pos(x) + 1
  BY StopOnward
<1>3. phase'[t] = "check" /\ runs' = runs
  BY MovesTo DEF Moves
<1>4. \A r \in Stops : /\ Pos(r) \in Nat /\ Pos(y) \in Nat /\ Pos(x) \in Nat
                       /\ Pos(r) < Pos(y) <=> (Pos(r) < Pos(x) \/ r = x)
  BY <1>1, <1>2, PosOrder
<1>5. StopPosted(y)'
  <2>1. /\ Pos("stopping") = 3 /\ Pos("stopped") = Len(StopOrder) - 1
        /\ Pos("forget") = Len(StopOrder) /\ Len(StopOrder) \in Nat /\ Len(StopOrder) >= 8
        /\ {"stopping", "stopped", "forget"} \subseteq Stops
    BY PosEnds, StopNames
  <2>2. y = "forget" <=> x = "stopped"
    BY <1>1, <1>2, <1>4, <2>1, PosOrder
  <2>3. Pos(y) <= Pos("stopping") <=> Pos(x) < Pos("stopping")
    BY <1>2, <1>4, <2>1
  <2>4. Pos(x) = Pos("stopping") <=> x = "stopping"
    BY <1>1, <2>1, PosOrder
  <2>5. CASE Pos(x) < Pos("stopping")
    <3>1. x # "stopping" /\ x # "stopped" /\ Posted' = Posted
      BY <2>1, <2>5, <1>4 DEF Deals
    <3>2. Posted \in {"STOPPED", "CONNECTING", "CONNECTED"}
      BY <1>4, <2>1, <2>5 DEF StopsAt, StopPosted
    <3>3. QED
      BY <2>3, <2>5, <3>1, <3>2 DEF StopPosted
  <2>6. CASE x = "stopping"
    <3>1. Posted' = "STOPPING" /\ x # "stopped"
      BY <2>6 DEF Deals
    <3>2. ~(Pos(y) <= Pos("stopping"))
      BY <2>1, <2>3, <2>6
    <3>3. QED
      BY <2>2, <3>1, <3>2 DEF StopPosted
  <2>7. CASE Pos(x) > Pos("stopping")
    <3>1. ~(Pos(y) <= Pos("stopping")) /\ x # "stopping"
      BY <1>4, <2>1, <2>3, <2>7
    <3>2. Posted = "STOPPING"
      <4>1. ~(Pos(x) <= Pos("stopping"))
        BY <1>4, <2>1, <2>7
      <4>2. QED
        BY <4>1 DEF StopsAt, StopPosted
    <3>3. Posted' = IF y = "forget" THEN "STOPPED" ELSE "STOPPING"
      BY <2>2, <3>1, <3>2 DEF Deals
    <3>4. QED
      BY <3>1, <3>3 DEF StopPosted
  <2>8. QED
    BY <1>4, <2>1, <2>4, <2>5, <2>6, <2>7
<1>6. StopResources(t, y)'
  <2>1. SUFFICES ASSUME NEW r \in Resources
                 PROVE  (Pos(r) < Pos(y) => Gone(r)') /\ Left(r)'
    BY <1>3 DEF StopResources
  <2>2. CASE r = x
    BY <2>2 DEF Deals, Left
  <2>3. CASE r # x
    <3>1. Left(r) /\ (Pos(r) < Pos(x) => Gone(r))
      BY <2>3 DEF StopsAt, StopResources
    <3>2. field'[r] = field[r] /\ live'[r] = live[r]
      BY <2>3 DEF Deals
    <3>3. r \in Stops
      BY StopNames
    <3>4. QED
      BY <1>3, <1>4, <2>3, <3>1, <3>2, <3>3 DEF Left, Gone, There
  <2>4. QED
    BY <2>2, <2>3
<1>7. StopNotification(t, y)'
  <2>1. "notification" \in Stops
    BY StopNames
  <2>2. Pos("notification") < Pos(y) <=> (Pos("notification") < Pos(x) \/ x = "notification")
    BY <1>4, <2>1
  <2>3. CASE x = "notification"
    BY <1>3, <2>3 DEF Deals, StopNotification
  <2>4. CASE x # "notification"
    <3>1. UNCHANGED <<notification, listening>>
      BY <2>4 DEF Deals
    <3>2. QED
      BY <1>3, <2>2, <2>4, <3>1 DEF StopsAt, StopNotification, Silent, Shown
  <2>5. QED
    BY <2>3, <2>4
<1>8. StopReceiver(t, y)'
  <2>1. "receiver" \in Stops
    BY StopNames
  <2>2. Pos("receiver") < Pos(y) <=> (Pos("receiver") < Pos(x) \/ x = "receiver")
    BY <1>4, <2>1
  <2>3. CASE x = "receiver"
    BY <1>3, <2>3 DEF Deals, StopReceiver
  <2>4. CASE x # "receiver"
    <3>1. UNCHANGED <<receiverFlag, receiver>>
      BY <2>4 DEF Deals
    <3>2. (Pos("receiver") < Pos(x) => Unregistered) /\ (Registered \/ Unregistered)
      BY <2>4 DEF StopsAt, StopReceiver
    <3>3. (Registered' <=> Registered) /\ (Unregistered' <=> Unregistered)
      BY Zenon, <3>1 DEF Registered, Unregistered
    <3>4. QED
      BY <1>3, <2>2, <2>4, <3>2, <3>3 DEF StopReceiver
  <2>5. QED
    BY <2>3, <2>4
<1>9. Alone(t)
  BY AtStopIs
<1>10. QED
  BY <1>2, <1>5, <1>6, <1>7, <1>8, <1>9, StopLands DEF StopsAt

(* A thread looks, or acts, and stays where it is.                         *)
LEMMA StopStays ==
  ASSUME Shapes, OneAtATime, NEW t \in Threads, NEW x, at[t] = <<"stop", x>>, NEW q, Phase(t, q),
         runs' = runs, UNCHANGED <<state, messages>>,
         (StopResources(t, x) /\ StopNotification(t, x) /\ StopReceiver(t, x))'
  PROVE  OneAtATime'
<1>1. x \in Stops
  BY StopOnward
<1>2. StopsAt(t, x) /\ Alone(t) /\ ~crashed /\ InOrder
  BY AtStopIs
<1>3. Moves(t, <<"stop", x>>, q)
  BY DEF Phase, Moves, Shapes
<1>4. crashed' = crashed
  BY DEF Phase
<1>5. ~crashed'
  BY Zenon, <1>2, <1>4
<1>6. InOrder' /\ Posted' = Posted
  BY <1>2, SamePosted
<1>7. StopPosted(x)'
  BY <1>2, <1>6 DEF StopsAt, StopPosted
<1>8. QED
  BY <1>1, <1>2, <1>3, <1>5, <1>6, <1>7, StopLands DEF StopsAt

LEMMA StopGoes ==
  ASSUME Shapes, OneAtATime, NEW t \in Threads, NEW x, x # "forget", at[t] = <<"stop", x>>,
         GoOn(t, Onward(t)), runs' = runs, InOrder', Deals(x)
  PROVE  OneAtATime'
<1>1. StopsAt(t, x) /\ ~crashed
  BY AtStopIs
<1>2. Moves(t, Onward(t), "check") /\ crashed' = crashed
  BY DEF GoOn, Go, Moves
<1>3. ~crashed'
  BY Zenon, <1>1, <1>2
<1>4. QED
  BY <1>1, <1>2, <1>3, StopPasses

LEMMA StopReleases ==
  ASSUME Shapes, OneAtATime, NEW t \in Threads, NEW x \in Resources, at[t] = <<"stop", x>>,
         ReleaseCheck(t, x) \/ ReleaseCall(t, x) \/ ReleaseClear(t, x)
  PROVE  OneAtATime'
<1>1. StopsAt(t, x) /\ x \in Stops /\ InOrder
  BY AtStopIs, StopOnward
<1>2. x \notin {"notification", "receiver", "stopping", "stopped", "forget"}
  BY StopNames
<1>3. /\ phase[t] = "check" => Left(x)
      /\ phase[t] = "call" => There(x, runs)
      /\ phase[t] = "clear" => live[x] = {}
  BY <1>1 DEF StopsAt, StopResources
<1>4. UNCHANGED <<displayVars, state, messages, runs>>
  BY DEF ReleaseCheck, ReleaseCall, ReleaseClear, fieldVars
<1>5. UNCHANGED <<notification, listening>> /\ UNCHANGED <<receiverFlag, receiver>>
  BY <1>4 DEF displayVars
<1>6. Posted' = Posted /\ InOrder'
  BY <1>1, <1>4, SamePosted
<1>7. ASSUME \A r \in Resources : IF r = x THEN Gone(r)'
                                   ELSE field'[r] = field[r] /\ live'[r] = live[r]
      PROVE  Deals(x)
  BY <1>2, <1>5, <1>6, <1>7 DEF Deals
<1>8. ASSUME \A r \in Resources : r # x => field'[r] = field[r] /\ live'[r] = live[r],
             NEW q, Phase(t, q), q # "check", q = "call" => There(x, runs)',
             q = "clear" => live'[x] = {}
      PROVE  OneAtATime'
  <2>1. phase'[t] = q /\ runs' = runs
    BY <1>4, <1>8 DEF Phase, Shapes
  <2>2. StopResources(t, x)'
    <3>1. SUFFICES ASSUME NEW r \in Resources
                   PROVE  /\ (Pos(r) < Pos(x) => Gone(r))' /\ (r # x => Left(r)')
                          /\ (r = x /\ q = "call" => There(r, runs)')
                          /\ (r = x /\ q = "clear" => live'[r] = {})
      BY <1>8, <2>1 DEF StopResources
    <3>2. CASE r # x
      <4>1. Left(r) /\ (Pos(r) < Pos(x) => Gone(r))
        BY <1>1, <3>2 DEF StopsAt, StopResources
      <4>2. QED
        BY <1>8, <2>1, <3>2, <4>1 DEF Left, Gone, There
    <3>3. CASE r = x
      <4>1. ~(Pos(x) < Pos(x))
        BY <1>1, PosOrder
      <4>2. QED
        BY <1>8, <3>3, <4>1
    <3>4. QED
      BY <3>2, <3>3
  <2>3. StopNotification(t, x)'
    BY <1>1, <1>2, <1>5, <2>1 DEF StopsAt, StopNotification, Silent, Shown
  <2>4. StopReceiver(t, x)'
    <3>1. (Registered' <=> Registered) /\ (Unregistered' <=> Unregistered)
      BY Zenon, <1>5 DEF Registered, Unregistered
    <3>2. QED
      BY <1>1, <1>2, <3>1 DEF StopsAt, StopReceiver
  <2>5. QED
    BY <1>4, <1>8, <2>1, <2>2, <2>3, <2>4, StopStays
<1>9. CASE ReleaseCheck(t, x)
  <2>1. phase[t] = "check" /\ UNCHANGED <<field, live>> /\ Left(x)
    BY <1>3, <1>9 DEF ReleaseCheck, fieldVars
  <2>2. CASE field[x] = None
    <3>1. GoOn(t, Onward(t)) /\ Gone(x)
      BY <1>9, <2>1, <2>2 DEF ReleaseCheck, Left, There, Gone
    <3>2. Deals(x)
      BY <1>7, <2>1, <3>1 DEF Gone
    <3>3. QED
      BY <1>2, <1>4, <1>6, <2>1, <3>1, <3>2, StopGoes
  <2>3. CASE field[x] # None
    <3>1. Phase(t, "call") /\ There(x, runs)'
      BY <1>4, <1>9, <2>1, <2>3 DEF ReleaseCheck, Left, There, Gone
    <3>2. QED
      BY <1>8, <2>1, <3>1
  <2>4. QED
    BY <2>2, <2>3
<1>10. CASE ReleaseCall(t, x)
  <2>1. There(x, runs) /\ field' = field /\ live' = [live EXCEPT ![x] = @ \ {field[x]}]
    BY <1>3, <1>10 DEF ReleaseCall
  <2>2. Phase(t, "clear")
    BY <1>10, <2>1 DEF ReleaseCall, There
  <2>3. live'[x] = {} /\ \A r \in Resources : r # x => field'[r] = field[r] /\ live'[r] = live[r]
    BY <2>1 DEF There, Shapes
  <2>4. QED
    BY <1>8, <2>2, <2>3
<1>11. CASE ReleaseClear(t, x)
  <2>1. live[x] = {} /\ field' = [field EXCEPT ![x] = None] /\ live' = live
    BY <1>3, <1>11 DEF ReleaseClear
  <2>2. Deals(x)
    <3>1. \A r \in Resources : IF r = x THEN Gone(r)' ELSE field'[r] = field[r] /\ live'[r] = live[r]
      BY <2>1 DEF Gone, Shapes
    <3>2. QED
      BY <1>7, <3>1
  <2>3. GoOn(t, Onward(t))
    BY <1>11 DEF ReleaseClear
  <2>4. QED
    BY <1>2, <1>4, <1>6, <2>2, <2>3, StopGoes
<1>12. QED
  BY <1>9, <1>10, <1>11

LEMMA StopNotifies ==
  ASSUME Shapes, OneAtATime, NEW t \in Threads, StopNotificationCheck(t) \/ StopNotificationCall(t)
  PROVE  OneAtATime'
<1> DEFINE x == "notification"
<1>1. at[t] = <<"stop", x>> /\ UNCHANGED <<field, live, state, messages, runs, notification>>
      /\ UNCHANGED <<receiverFlag, receiver>>
  BY DEF StopNotificationCheck, StopNotificationCall, fieldVars, displayVars
<1>2. StopsAt(t, x) /\ x \in Stops /\ x # "forget" /\ InOrder
  BY <1>1, AtStopIs, StopOnward
<1>3. Posted' = Posted /\ InOrder'
  BY <1>1, <1>2, SamePosted
<1>4. Silent' /\ UNCHANGED <<field, live>> => Deals(x)
  BY <1>1, <1>3, StopNames DEF Deals
<1>5. ASSUME Silent', GoOn(t, Onward(t)) PROVE OneAtATime'
  BY <1>1, <1>2, <1>3, <1>4, <1>5, StopGoes
<1>6. CASE StopNotificationCheck(t)
  <2>1. listening' = listening /\ (Silent \/ Shown)
    BY <1>2, <1>6 DEF StopNotificationCheck, displayVars, StopsAt, StopNotification
  <2>2. CASE notification \in listening
    <3>1. Phase(t, "call") /\ Shown
      BY <1>6, <2>1, <2>2 DEF StopNotificationCheck, Silent
    <3>2. phase'[t] = "call"
      BY <3>1 DEF Phase, Shapes
    <3>3. StopNotification(t, x)'
      <4>1. ~(Pos(x) < Pos(x))
        BY <1>2, PosOrder
      <4>2. QED
        BY <1>1, <2>1, <3>1, <4>1 DEF StopNotification, Silent, Shown
    <3>4. StopResources(t, x)'
      <4>1. \A r \in Resources : r # x
        BY StopNames
      <4>2. QED
        BY <1>1, <1>2, <4>1 DEF StopsAt, StopResources, Left, Gone, There
    <3>5. StopReceiver(t, x)'
      <4>1. (Registered' <=> Registered) /\ (Unregistered' <=> Unregistered)
        BY Zenon, <1>1 DEF Registered, Unregistered
      <4>2. QED
        BY <1>2, <4>1 DEF StopsAt, StopReceiver
    <3>6. QED
      BY <1>1, <3>1, <3>3, <3>4, <3>5, StopStays
  <2>3. CASE notification \notin listening
    BY <1>5, <1>6, <2>1, <2>3 DEF StopNotificationCheck, Silent, Shown
  <2>4. QED
    BY <2>2, <2>3
<1>7. CASE StopNotificationCall(t)
  <2>1. Shown
    BY <1>2, <1>7 DEF StopNotificationCall, StopsAt, StopNotification
  <2>2. Silent' /\ GoOn(t, Onward(t))
    BY <1>7, <2>1 DEF StopNotificationCall, Silent, Shown
  <2>3. QED
    BY <1>5, <2>2
<1>8. QED
  BY <1>6, <1>7

LEMMA StopUnregisters ==
  ASSUME Shapes, OneAtATime, NEW t \in Threads,
         StopReceiverCheck(t) \/ StopReceiverCall(t) \/ StopReceiverClear(t)
  PROVE  OneAtATime'
<1> DEFINE x == "receiver"
<1>1. at[t] = <<"stop", x>> /\ UNCHANGED <<field, live, state, messages, runs>>
      /\ UNCHANGED <<notification, listening>>
  BY DEF StopReceiverCheck, StopReceiverCall, StopReceiverClear, fieldVars, displayVars
<1>2. StopsAt(t, x) /\ x \in Stops /\ x # "forget" /\ InOrder
  BY <1>1, AtStopIs, StopOnward
<1>3. Posted' = Posted /\ InOrder'
  BY <1>1, <1>2, SamePosted
<1>4. /\ phase[t] = "check" => Registered \/ Unregistered
      /\ phase[t] = "call" => Registered
      /\ phase[t] = "clear" => ~receiver
  BY <1>2 DEF StopsAt, StopReceiver
<1>5. ASSUME Unregistered', GoOn(t, Onward(t)) PROVE OneAtATime'
  <2>1. Deals(x)
    BY <1>1, <1>3, <1>5, StopNames DEF Deals
  <2>2. QED
    BY <1>1, <1>2, <1>3, <1>5, <2>1, StopGoes
<1>6. ASSUME NEW q, Phase(t, q), q # "check", q = "call" => Registered', q = "clear" => ~receiver'
      PROVE  OneAtATime'
  <2>1. phase'[t] = q
    BY <1>6 DEF Phase, Shapes
  <2>2. ~(Pos(x) < Pos(x))
    BY <1>2, PosOrder
  <2>3. StopReceiver(t, x)'
    BY <1>6, <2>1, <2>2 DEF StopReceiver
  <2>4. StopNotification(t, x)'
    BY <1>1, <1>2 DEF StopsAt, StopNotification, Silent, Shown
  <2>5. StopResources(t, x)'
    <3>1. \A r \in Resources : r # x
      BY StopNames
    <3>2. QED
      BY <1>1, <1>2, <3>1 DEF StopsAt, StopResources, Left, Gone, There
  <2>6. QED
    BY <1>1, <1>6, <2>3, <2>4, <2>5, StopStays
<1>7. CASE StopReceiverCheck(t)
  <2>1. phase[t] = "check" /\ UNCHANGED <<receiverFlag, receiver>> /\ (Registered \/ Unregistered)
    BY <1>4, <1>7 DEF StopReceiverCheck, displayVars
  <2>2. CASE receiverFlag
    <3>1. Phase(t, "call") /\ Registered
      BY <1>7, <2>1, <2>2 DEF StopReceiverCheck, Registered, Unregistered
    <3>2. Registered'
      BY Zenon, <2>1, <3>1 DEF Registered
    <3>3. QED
      BY <1>6, <3>1, <3>2
  <2>3. CASE ~receiverFlag
    <3>1. GoOn(t, Onward(t)) /\ Unregistered
      BY <1>7, <2>1, <2>3 DEF StopReceiverCheck, Registered, Unregistered
    <3>2. Unregistered'
      BY Zenon, <2>1, <3>1 DEF Unregistered
    <3>3. QED
      BY <1>5, <3>1, <3>2
  <2>4. QED
    BY <2>2, <2>3
<1>8. CASE StopReceiverCall(t)
  <2>1. receiver
    BY <1>4, <1>8 DEF StopReceiverCall, Registered
  <2>2. Phase(t, "clear") /\ ~receiver'
    BY <1>8, <2>1 DEF StopReceiverCall
  <2>3. QED
    BY <1>6, <2>2
<1>9. CASE StopReceiverClear(t)
  <2>1. ~receiverFlag' /\ receiver' = receiver /\ ~receiver /\ GoOn(t, Onward(t))
    BY <1>4, <1>9 DEF StopReceiverClear
  <2>2. Unregistered'
    BY Zenon, <2>1 DEF Unregistered
  <2>3. QED
    BY <1>5, <2>1, <2>2
<1>10. QED
  BY <1>7, <1>8, <1>9

LEMMA StopPosts ==
  ASSUME Shapes, Types, OneAtATime, NEW t \in Threads, StopPost(t)
  PROVE  OneAtATime'
<1>1. UNCHANGED <<field, live, state, runs>> /\ UNCHANGED <<notification, listening>>
      /\ UNCHANGED <<receiverFlag, receiver>> /\ GoOn(t, Onward(t))
  BY DEF StopPost, fieldVars, displayVars
<1>2. messages \in Seq(States) /\ "STOPPING" \in States /\ "STOPPED" \in States
  BY DEF Types, DataTyped, States
<1>3. ASSUME NEW x \in {"stopping", "stopped"}, at[t] = <<"stop", x>>
      PROVE  OneAtATime'
  <2> DEFINE s == IF x = "stopping" THEN "STOPPING" ELSE "STOPPED"
  <2>1. StopPosted(x) /\ InOrder
    BY <1>3, AtStopIs DEF StopsAt
  <2>2. <<Posted, s>> \in Turns
    <3>1. CASE x = "stopping"
      <4>1. Pos(x) <= Pos("stopping")
        BY <3>1, StopNames, PosOrder
      <4>2. Posted \in {"STOPPED", "CONNECTING", "CONNECTED"}
        BY <2>1, <4>1 DEF StopPosted
      <4>3. QED
        BY <3>1, <4>2 DEF Turns
    <3>2. CASE x = "stopped"
      <4>1. ~(Pos(x) <= Pos("stopping"))
        BY <3>2, PosEnds
      <4>2. Posted = "STOPPING"
        BY <2>1, <3>2, <4>1 DEF StopPosted
      <4>3. QED
        BY <3>2, <4>2 DEF Turns
    <3>3. QED
      BY <1>3, <3>1, <3>2
  <2>3. Post(s)
    BY <1>3 DEF StopPost
  <2>4. InOrder' /\ Posted' = s
    <3>1. s \in States
      BY <1>2
    <3> HIDE DEF s
    <3>2. QED
      BY <1>1, <1>2, <2>1, <2>2, <2>3, <3>1, PostTurns
  <2>5. Deals(x)
    <3>1. x \notin Resources /\ x # "notification" /\ x # "receiver"
      BY <1>3, StopNames
    <3>2. QED
      BY <1>1, <1>3, <2>4, <3>1 DEF Deals
  <2>6. QED
    BY <1>1, <1>3, <2>4, <2>5, StopGoes
<1>4. QED
  BY <1>3 DEF StopPost

(* What stopRunner leaves when it ends.                                    *)
LEMMA StopForgets ==
  ASSUME Shapes, OneAtATime, NEW t \in Threads, StopForget(t)
  PROVE  OneAtATime'
<1>1. at[t] = <<"stop", "forget">> /\ UNCHANGED <<field, live, state, messages, runs>>
      /\ UNCHANGED <<notification, listening>> /\ UNCHANGED <<receiverFlag, receiver>>
      /\ profile' = NoProfile
  BY DEF StopForget, displayVars
<1>2. StopsAt(t, "forget") /\ Alone(t) /\ ~crashed /\ InOrder
  BY <1>1, AtStopIs
<1>3. Posted' = "STOPPED" /\ InOrder'
  <2>1. ~(Pos("forget") <= Pos("stopping"))
    BY PosEnds
  <2>2. Posted = "STOPPED"
    BY <1>2, <2>1 DEF StopsAt, StopPosted
  <2>3. QED
    BY <1>1, <1>2, <2>2, SamePosted
<1>4. \A r \in Resources : Gone(r)'
  <2>1. SUFFICES ASSUME NEW r \in Resources PROVE Gone(r)
    BY <1>1 DEF Gone
  <2>2. Pos(r) < Pos("forget")
    BY StopNames, PosOrder
  <2>3. QED
    BY <1>2, <2>2 DEF StopsAt, StopResources
<1>5. Silent'
  <2>1. Pos("notification") < Pos("forget")
    BY StopNames, PosOrder
  <2>2. QED
    BY <1>1, <1>2, <2>1 DEF StopsAt, StopNotification, Silent
<1>6. Unregistered'
  <2>1. Pos("receiver") < Pos("forget")
    BY StopNames, PosOrder
  <2>2. Unregistered
    BY <1>2, <2>1 DEF StopsAt, StopReceiver
  <2>3. QED
    BY Zenon, <1>1, <2>2 DEF Unregistered
<1> DEFINE p == IF t = Binder /\ next[t] # NoProfile THEN BeginStart ELSE Idle
<1>7. Moves(t, p, "check") /\ crashed' = crashed
  BY <1>1 DEF StopForget, GoOn, Go, Moves
<1>8. ~crashed'
  BY Zenon, <1>2, <1>7
<1>9. AtRest'
  BY <1>1, <1>3, <1>4, <1>5, <1>6 DEF AtRest, NothingLeft, Gone, Silent, Unregistered
<1>10. ASSUME p # Idle PROVE AtStart(t)'
  <2>1. t = Binder /\ p = <<"start", "prepare">>
    BY <1>10, VpnAssumption DEF BeginStart
  <2>2. at'[t] = <<"start", "prepare">>
    BY <1>7, <2>1, MovesTo
  <2>3. "trafficMonitor" \in Resources
    BY StopNames
  <2>4. QED
    BY <1>1, <1>3, <1>4, <1>5, <1>6, <2>1, <2>2, <2>3 DEF AtStart
<1> HIDE DEF p
<1>11. QED
  BY <1>2, <1>3, <1>7, <1>8, <1>9, <1>10, AloneMoves

-----------------------------------------------------------------------------
(* killProcesses of a connect(), which finds nothing to kill.              *)

LEMMA IdleWorksNot == ~Working(Idle)
<1>1. Idle[1] = "idle"
  BY DEF Idle
<1>2. QED
  BY <1>1 DEF Working

LEMMA AtConnectIs ==
  ASSUME OneAtATime, NEW c \in Runs, Working(at[c])
  PROVE  AtConnect(c) /\ Alone(c) /\ ~crashed /\ InOrder /\ c \in Threads
<1>1. c \in Threads /\ c # Binder
  BY ThreadKinds, VpnStarters
<1>2. Active(c)
  BY IdleWorksNot DEF Active
<1>3. Alone(c) /\ ~crashed /\ InOrder
  BY <1>1, <1>2, AtWorkAlone DEF OneAtATime
<1>4. ~AtSwitch(c) /\ ~AtStart(c)
  BY <1>1 DEF AtSwitch, AtStart
<1>5. ~AtStop(c)
  BY DEF AtStop, Working
<1>6. QED
  BY <1>1, <1>2, <1>3, <1>4, <1>5 DEF OneAtATime

LEMMA ConnectLands ==
  ASSUME Shapes, NEW c \in Runs, Alone(c), NEW p, NEW q, Moves(c, p, q), Working(p),
         ~crashed', InOrder', AtConnect(c)'
  PROVE  OneAtATime'
<1>1. p # Idle
  BY IdleWorksNot
<1>2. c \in Threads
  BY ThreadKinds
<1>3. QED
  BY <1>1, <1>2, AloneMoves

LEMMA KillStage ==
  ASSUME NEW x
  PROVE  ToMake(<<"kill", x>>) = ToMake(<<"connect", "establish">>)
BY DEF ToMake

LEMMA KillReleases ==
  ASSUME Shapes, OneAtATime, NEW c \in Threads, NEW x \in Resources, at[c] = <<"kill", x>>,
         ReleaseCheck(c, x) \/ ReleaseCall(c, x) \/ ReleaseClear(c, x)
  PROVE  OneAtATime'
<1>1. c \in Runs /\ x \in Kills /\ Working(at[c])
  BY KillOnward DEF Working
<1>2. AtConnect(c) /\ Alone(c) /\ ~crashed /\ InOrder
  BY <1>1, AtConnectIs
<1>3. phase[c] = "check"
  BY <1>2 DEF AtConnect
<1>4. x \in Executables
  BY <1>1, VpnAssumption DEF Kills
<1>5. x \in ToMake(at[c])
  BY <1>4, Names, VpnPlaces, KillStage
<1>6. field[x] = None
  BY <1>2, <1>5 DEF AtConnect, Gone
<1>7. GoOn(c, Onward(c)) /\ UNCHANGED <<fieldVars, displayVars, messages, runs>>
  BY <1>3, <1>6 DEF ReleaseCheck, ReleaseCall, ReleaseClear
<1>8. PICK p : p = Onward(c)
  OBVIOUS
<1>9. p = <<"connect", "establish">> \/ \E y \in Kills : p = <<"kill", y>>
  BY <1>8, KillOnward
<1>10. ToMake(p) = ToMake(at[c]) /\ Working(p)
  BY <1>9, KillStage DEF Working
<1>11. Moves(c, p, "check") /\ crashed' = crashed
  BY <1>7, <1>8 DEF GoOn, Go, Moves
<1>12. at'[c] = p /\ phase'[c] = "check"
  BY <1>11, MovesTo
<1>13. ~crashed'
  BY Zenon, <1>2, <1>11
<1>14. Posted' = Posted /\ InOrder'
  BY <1>2, <1>7, SamePosted DEF fieldVars
<1>15. UNCHANGED <<field, live, profile, listening, receiverFlag, receiver, runs>>
  BY <1>7 DEF fieldVars, displayVars
<1>16. AtConnect(c)'
  <2>1. at[c] \notin {<<"connect", "notify">>, <<"connect", "assign">>}
        /\ p \notin {<<"connect", "notify">>, <<"connect", "assign">>} /\ p[1] # "launch"
    BY <1>9
  <2>2. c = runs /\ profile # NoProfile /\ Posted = "CONNECTING" /\ Silent
    BY <1>2, <2>1 DEF AtConnect, Silent
  <2>3. Registered'
    <3>1. Registered
      BY <1>2 DEF AtConnect
    <3>2. QED
      BY Zenon, <1>15, <3>1 DEF Registered
  <2>4. \A r \in ToMake(p) : Gone(r)'
    BY <1>2, <1>10, <1>15 DEF AtConnect, Gone
  <2>5. \A r \in Resources \ ToMake(p) : Made(c, r)'
    <3>1. SUFFICES ASSUME NEW r \in Resources \ ToMake(p) PROVE Made(c, r)'
      OBVIOUS
    <3>2. Made(c, r)
      BY <1>2, <1>10 DEF AtConnect
    <3>3. Settled(c, r)
      BY <3>2 DEF Made, Settled
    <3>4. Needed' = Needed
      BY <1>15 DEF Needed
    <3>5. at'[c] # <<"store", r>>
      BY <1>9, <1>12
    <3>6. QED
      BY <1>15, <3>3, <3>4, <3>5 DEF Made, Settled, There, Gone
  <2>6. QED
    BY <1>1, <1>10, <1>12, <1>14, <1>15, <2>1, <2>2, <2>3, <2>4, <2>5 DEF AtConnect, Silent
<1>17. QED
  BY <1>1, <1>2, <1>10, <1>11, <1>13, <1>14, <1>16, ConnectLands

LEMMA StopRunnerSequential ==
  ASSUME Shapes, Types, OneAtATime, NEW t \in Threads, StopRunner(t)
  PROVE  OneAtATime'
<1>1. ASSUME NEW r \in Resources, ReleaseCheck(t, r) \/ ReleaseCall(t, r) \/ ReleaseClear(t, r)
      PROVE  OneAtATime'
  <2>1. at[t] \in {<<"stop", r>>, <<"kill", r>>}
    BY <1>1 DEF ReleaseCheck, ReleaseCall, ReleaseClear, Releases
  <2>2. QED
    BY <1>1, <2>1, StopReleases, KillReleases
<1>2. QED
  BY <1>1, StopPosts, StopForgets, StopNotifies, StopUnregisters DEF StopRunner, Release

-----------------------------------------------------------------------------
(* Into stopRunner, from wherever.                                         *)

LEMMA StopBegins ==
  ASSUME Shapes, NEW t \in Threads, Alone(t), Moves(t, BeginStop, "check"), ~crashed', InOrder',
         Posted' \in {"STOPPED", "CONNECTING", "CONNECTED"}, \A r \in Resources : Left(r)',
         Silent' \/ Shown', Registered' \/ Unregistered'
  PROVE  OneAtATime'
<1> DEFINE x == "vpnThread"
<1>1. BeginStop = <<"stop", x>>
  BY PosEnds DEF BeginStop
<1>2. x \in Stops /\ x # "notification" /\ x # "receiver"
  BY StopNames
<1>3. phase'[t] = "check"
  BY MovesTo
<1>4. \A y \in Stops : ~(Pos(y) < Pos(x))
  <2>1. SUFFICES ASSUME NEW y \in Stops PROVE ~(Pos(y) < 1)
    BY PosEnds
  <2>2. Pos(y) \in 1..Len(StopOrder)
    BY PosIs
  <2>3. QED
    BY <2>2, PosEnds
<1>5. StopPosted(x)'
  <2>1. Pos(x) <= Pos("stopping")
    BY PosEnds
  <2>2. QED
    BY <2>1 DEF StopPosted
<1>6. StopResources(t, x)'
  BY <1>3, <1>4, StopNames DEF StopResources
<1>7. StopNotification(t, x)'
  <2>1. ~(Pos("notification") < Pos(x))
    BY <1>4, StopNames
  <2>2. QED
    BY <1>2, <2>1 DEF StopNotification
<1>8. StopReceiver(t, x)'
  <2>1. ~(Pos("receiver") < Pos(x))
    BY <1>4, StopNames
  <2>2. QED
    BY <1>2, <2>1 DEF StopReceiver
<1>9. QED
  BY <1>1, <1>2, <1>5, <1>6, <1>7, <1>8, StopLands DEF StopsAt

-----------------------------------------------------------------------------
(* startRunner.                                                            *)

LEMMA AtStartIs ==
  ASSUME OneAtATime, NEW x, at[Binder] = <<"start", x>>
  PROVE  AtStart(Binder) /\ Alone(Binder) /\ ~crashed /\ InOrder
<1>1. Binder \in Threads /\ Binder \notin Runs
  BY VpnStarters
<1>2. Active(Binder)
  BY DEF Active, Idle
<1>3. Alone(Binder) /\ ~crashed /\ InOrder
  BY <1>1, <1>2, AtWorkAlone DEF OneAtATime
<1>4. ~AtSwitch(Binder) /\ ~AtConnect(Binder) /\ ~AtStop(Binder)
  BY <1>1 DEF AtSwitch, AtConnect, AtStop
<1>5. QED
  BY <1>1, <1>2, <1>3, <1>4 DEF OneAtATime

LEMMA StartLands ==
  ASSUME Shapes, Alone(Binder), NEW x, NEW q, Moves(Binder, <<"start", x>>, q), ~crashed', InOrder',
         AtStart(Binder)'
  PROVE  OneAtATime'
<1>1. <<"start", x>> # Idle /\ Binder \in Threads
  BY VpnStarters DEF Idle
<1>2. QED
  BY <1>1, AloneMoves

(* A start that has not made anything can be given up.                     *)
LEMMA StartPrepares ==
  ASSUME Shapes, OneAtATime, StartPrepare
  PROVE  OneAtATime'
<1>1. at[Binder] = <<"start", "prepare">> /\ UNCHANGED <<field, live, state, profile, messages, runs>>
      /\ UNCHANGED <<notification, listening>> /\ UNCHANGED <<receiverFlag, receiver>>
  BY DEF StartPrepare, fieldVars, displayVars
<1>2. AtStart(Binder) /\ Alone(Binder) /\ ~crashed /\ InOrder /\ Binder \in Threads
  BY <1>1, AtStartIs, VpnStarters
<1>3. Posted' = Posted /\ InOrder' /\ Posted = "STOPPED"
  BY <1>1, <1>2, SamePosted DEF AtStart
<1>4. profile = NoProfile /\ (\A r \in Resources : Gone(r)) /\ Silent /\ Unregistered
  BY <1>1, <1>2 DEF AtStart
<1>5. Unregistered'
  BY Zenon, <1>1, <1>4 DEF Unregistered
<1>6. Silent' /\ \A r \in Resources : Gone(r)'
  BY <1>1, <1>4 DEF Silent, Gone
<1>7. crashed' = crashed
  BY DEF StartPrepare, GoOn
<1>8. ~crashed'
  BY Zenon, <1>2, <1>7
<1>9. CASE Leave(Binder, BeginStop)
  <2>1. Moves(Binder, BeginStop, "check")
    BY <1>1, <1>9 DEF Leave, Go, Moves
  <2>2. QED
    BY <1>2, <1>3, <1>5, <1>6, <1>8, <2>1, StopBegins DEF Left
<1>10. CASE GoOn(Binder, <<"start", "profile">>)
  <2>1. Moves(Binder, <<"start", "profile">>, "check")
    BY <1>1, <1>10 DEF GoOn, Go, Moves
  <2>2. at'[Binder] = <<"start", "profile">>
    BY <1>2, <2>1, MovesTo
  <2>3. AtStart(Binder)'
    BY <1>1, <1>3, <1>4, <1>5, <1>6, <2>2, StopNames DEF AtStart
  <2>4. QED
    BY <1>2, <1>3, <1>8, <2>1, <2>3, StartLands
<1>11. QED
  BY <1>9, <1>10 DEF StartPrepare

LEMMA StartMakes ==
  ASSUME Shapes, Types, OneAtATime,
         \/ StartProfile(Binder) \/ StartTrafficMonitor(Binder) \/ StartTrafficMonitorRun(Binder)
  PROVE  OneAtATime'
<1>1. UNCHANGED <<state, messages, runs>> /\ UNCHANGED <<notification, listening>>
      /\ UNCHANGED <<receiverFlag, receiver>> /\ at[Binder] \in ToRun
      /\ \E x : at[Binder] = <<"start", x>>
  BY StartPlaces DEF StartProfile, StartTrafficMonitor, StartTrafficMonitorRun, fieldVars, displayVars
<1>2. AtStart(Binder) /\ Alone(Binder) /\ ~crashed /\ InOrder /\ Binder \in Threads
  BY <1>1, AtStartIs, VpnStarters
<1>3. next[Binder] # NoProfile /\ runs + 1 # None /\ runs + 1 \in Nat
  BY <1>1, RunLeft DEF Runs, None
<1>4. Posted' = Posted /\ InOrder'
  BY <1>1, <1>2, SamePosted
<1>5. (Silent' <=> Silent) /\ (Unregistered' <=> Unregistered)
  BY Zenon, <1>1 DEF Silent, Unregistered
<1>6. ASSUME NEW x \in {"trafficMonitor", "run", "receiver"},
             GoOn(Binder, <<"start", x>>),
             AtStart(Binder)'
      PROVE  OneAtATime'
  <2>1. Moves(Binder, <<"start", x>>, "check") /\ crashed' = crashed
    BY <1>1, <1>6 DEF GoOn, Go, Moves
  <2>2. ~crashed'
    BY Zenon, <1>2, <2>1
  <2>3. QED
    BY <1>2, <1>4, <1>6, <2>1, <2>2, StartLands
<1>7. ASSUME NEW x, GoOn(Binder, <<"start", x>>)
      PROVE  at'[Binder] = <<"start", x>> /\ phase'[Binder] = "check"
  BY <1>2, <1>7 DEF GoOn, Go, Shapes
<1>8. CASE StartProfile(Binder)
  <2>1. at[Binder] = <<"start", "profile">> /\ profile' = next[Binder] /\ UNCHANGED <<field, live>>
        /\ GoOn(Binder, <<"start", "trafficMonitor">>)
    BY <1>8 DEF StartProfile
  <2>2. (\A r \in Resources \ {"trafficMonitor"} : Gone(r)) /\ Gone("trafficMonitor")
        /\ Silent /\ Unregistered /\ Posted = "STOPPED"
    BY <1>2, <2>1 DEF AtStart
  <2>3. at'[Binder] = <<"start", "trafficMonitor">>
    BY <1>7, <2>1
  <2>4. AtStart(Binder)'
    BY <1>3, <1>4, <1>5, <2>1, <2>2, <2>3 DEF AtStart, Gone
  <2>5. QED
    BY <1>6, <2>1, <2>4
<1>9. CASE StartTrafficMonitor(Binder)
  <2> DEFINE m == "trafficMonitor"
  <2>1. at[Binder] = <<"start", "trafficMonitor">> /\ profile' = profile
        /\ field' = [field EXCEPT ![m] = runs + 1] /\ live' = [live EXCEPT ![m] = @ \cup {runs + 1}]
        /\ GoOn(Binder, <<"start", "run">>)
    BY <1>9 DEF StartTrafficMonitor
  <2>2. (\A r \in Resources \ {m} : Gone(r)) /\ Gone(m) /\ profile # NoProfile
        /\ Silent /\ Unregistered /\ Posted = "STOPPED"
    BY <1>2, <2>1 DEF AtStart
  <2>3. at'[Binder] = <<"start", "run">>
    BY <1>7, <2>1
  <2>4. m \in Resources
    BY StopNames
  <2>5. There(m, runs + 1)' /\ \A r \in Resources \ {m} : Gone(r)'
    BY <1>1, <1>3, <2>1, <2>2, <2>4 DEF There, Gone, Shapes
  <2>6. AtStart(Binder)'
    BY <1>4, <1>5, <2>1, <2>2, <2>3, <2>5 DEF AtStart
  <2>7. QED
    BY <1>6, <2>1, <2>6
<1>10. CASE StartTrafficMonitorRun(Binder)
  <2> DEFINE m == "trafficMonitor"
  <2>1. at[Binder] = <<"start", "run">> /\ UNCHANGED <<profile, field, live>>
    BY <1>10 DEF StartTrafficMonitorRun, fieldVars
  <2>2. (\A r \in Resources \ {m} : Gone(r)) /\ There(m, runs + 1) /\ profile # NoProfile
        /\ Silent /\ Unregistered /\ Posted = "STOPPED"
    BY <1>2, <2>1 DEF AtStart
  <2>3. GoOn(Binder, <<"start", "receiver">>)
    BY <1>10, <2>2 DEF StartTrafficMonitorRun, There
  <2>4. at'[Binder] = <<"start", "receiver">> /\ phase'[Binder] = "check"
    BY <1>7, <2>3
  <2>5. There(m, runs + 1)' /\ \A r \in Resources \ {m} : Gone(r)'
    BY <1>1, <2>1, <2>2 DEF There, Gone
  <2>6. ~receiverFlag' /\ ~receiver'
    BY Zenon, <1>5, <2>2 DEF Unregistered
  <2>7. AtStart(Binder)'
    BY <1>4, <1>5, <2>1, <2>2, <2>4, <2>5, <2>6 DEF AtStart
  <2>8. QED
    BY <1>6, <2>3, <2>7
<1>11. QED
  BY <1>8, <1>9, <1>10

LEMMA StartRegisters ==
  ASSUME Shapes, Types, OneAtATime,
         \/ StartReceiverCheck(Binder) \/ StartReceiverCall(Binder) \/ StartReceiverSet(Binder)
  PROVE  OneAtATime'
<1> DEFINE m == "trafficMonitor"
           p == <<"start", "receiver">>
<1>1. at[Binder] = p /\ UNCHANGED <<field, live, profile, state, messages, runs>>
      /\ UNCHANGED <<notification, listening>>
  BY DEF StartReceiverCheck, StartReceiverCall, StartReceiverSet, fieldVars, displayVars
<1>2. AtStart(Binder) /\ Alone(Binder) /\ ~crashed /\ InOrder /\ Binder \in Threads
  BY <1>1, AtStartIs, VpnStarters
<1>3. Posted' = Posted /\ InOrder'
  BY <1>1, <1>2, SamePosted
<1>4. /\ \A r \in Resources \ {m} : Gone(r)
      /\ There(m, runs + 1) /\ profile # NoProfile /\ Silent /\ Posted = "STOPPED" /\ ~receiverFlag
      /\ phase[Binder] \in {"check", "call"} => ~receiver
      /\ phase[Binder] = "set" => receiver
  BY <1>1, <1>2 DEF AtStart
<1>5. (\A r \in Resources \ {m} : Gone(r)') /\ There(m, runs + 1)' /\ Silent'
  BY <1>1, <1>4 DEF Gone, There, Silent
<1>6. ASSUME NEW q, Moves(Binder, p, q), ~receiverFlag', crashed' = crashed,
             q \in {"check", "call"} => ~receiver', q = "set" => receiver'
      PROVE  OneAtATime'
  <2>1. at'[Binder] = p /\ phase'[Binder] = q
    BY <1>2, <1>6, MovesTo
  <2>2. AtStart(Binder)'
    BY <1>1, <1>3, <1>4, <1>5, <1>6, <2>1 DEF AtStart
  <2>3. ~crashed'
    BY Zenon, <1>2, <1>6
  <2>4. QED
    BY <1>2, <1>3, <1>6, <2>2, <2>3, StartLands
<1>7. at = [at EXCEPT ![Binder] = p]
  BY <1>1 DEF Shapes
<1>8. CASE StartReceiverCheck(Binder)
  <2>1. Phase(Binder, "call") /\ ~receiver /\ UNCHANGED <<receiverFlag, receiver>>
    BY <1>4, <1>8 DEF StartReceiverCheck, displayVars
  <2>2. Moves(Binder, p, "call") /\ crashed' = crashed
    BY <1>1, <1>7, <2>1 DEF Phase, Moves
  <2>3. ~receiverFlag' /\ ~receiver'
    BY Zenon, <1>4, <2>1
  <2>4. QED
    BY <1>6, <2>2, <2>3
<1>9. CASE StartReceiverCall(Binder)
  <2>1. Phase(Binder, "set") /\ receiver' /\ receiverFlag' = receiverFlag
    BY <1>9 DEF StartReceiverCall
  <2>2. Moves(Binder, p, "set") /\ crashed' = crashed
    BY <1>1, <1>7, <2>1 DEF Phase, Moves
  <2>3. ~receiverFlag'
    BY Zenon, <1>4, <2>1
  <2>4. QED
    BY <1>6, <2>1, <2>2, <2>3
<1>10. CASE StartReceiverSet(Binder)
  <2>1. receiverFlag' /\ receiver' = receiver /\ receiver /\ GoOn(Binder, <<"start", "connecting">>)
    BY <1>4, <1>10 DEF StartReceiverSet
  <2>2. Registered'
    BY Zenon, <2>1 DEF Registered
  <2>3. Moves(Binder, <<"start", "connecting">>, "check") /\ crashed' = crashed
    BY <1>1, <2>1 DEF GoOn, Go, Moves
  <2>4. at'[Binder] = <<"start", "connecting">>
    BY <1>2, <2>3, MovesTo
  <2>5. AtStart(Binder)'
    BY <1>1, <1>3, <1>4, <1>5, <2>2, <2>4 DEF AtStart
  <2>6. ~crashed'
    BY Zenon, <1>2, <2>3
  <2>7. QED
    BY <1>2, <1>3, <2>3, <2>5, <2>6, StartLands
<1>11. QED
  BY <1>8, <1>9, <1>10

LEMMA StartPosts ==
  ASSUME Shapes, Types, OneAtATime, StartPost(Binder)
  PROVE  OneAtATime'
<1> DEFINE m == "trafficMonitor"
           p == <<"start", "future">>
<1>1. at[Binder] = <<"start", "connecting">> /\ UNCHANGED <<field, live, profile, state, runs>>
      /\ UNCHANGED <<notification, listening>> /\ UNCHANGED <<receiverFlag, receiver>>
      /\ Post("CONNECTING") /\ GoOn(Binder, p)
  BY DEF StartPost, fieldVars, displayVars
<1>2. AtStart(Binder) /\ Alone(Binder) /\ ~crashed /\ InOrder /\ Binder \in Threads
  BY <1>1, AtStartIs, VpnStarters
<1>3. /\ \A r \in Resources \ {m} : Gone(r)
      /\ There(m, runs + 1) /\ profile # NoProfile /\ Silent /\ Posted = "STOPPED" /\ Registered
  BY <1>1, <1>2 DEF AtStart
<1>4. InOrder' /\ Posted' = "CONNECTING"
  <2>1. messages \in Seq(States) /\ "CONNECTING" \in States
    BY DEF Types, DataTyped, States
  <2>2. <<Posted, "CONNECTING">> \in Turns
    BY <1>3 DEF Turns
  <2>3. QED
    BY <1>1, <1>2, <2>1, <2>2, PostTurns
<1>5. Moves(Binder, p, "check") /\ crashed' = crashed
  BY <1>1 DEF GoOn, Go, Moves
<1>6. at'[Binder] = p
  BY <1>2, <1>5, MovesTo
<1>7. (\A r \in Resources \ {m} : Gone(r)') /\ There(m, runs + 1)' /\ Silent'
  BY <1>1, <1>3 DEF Gone, There, Silent
<1>8. Registered' /\ ~crashed'
  BY Zenon, <1>1, <1>2, <1>3, <1>5 DEF Registered
<1>9. AtStart(Binder)'
  BY <1>1, <1>3, <1>4, <1>6, <1>7, <1>8 DEF AtStart
<1>10. QED
  BY <1>2, <1>4, <1>5, <1>8, <1>9, StartLands

(* connect() takes over.                                                   *)
LEMMA StartHandsOver ==
  ASSUME Shapes, Types, OneAtATime, StartFuture(Binder)
  PROVE  OneAtATime'
<1> DEFINE m == "trafficMonitor"
           p == <<"connect", "vpnThread">>
<1>0. PICK c \in Runs : c = runs + 1
  BY StartPlaces, RunLeft DEF StartFuture
<1>1. at[Binder] = <<"start", "future">> /\ UNCHANGED <<field, live, profile, state, messages>>
      /\ UNCHANGED <<notification, listening>> /\ UNCHANGED <<receiverFlag, receiver>>
      /\ runs' = c /\ crashed' = crashed /\ at' = [at EXCEPT ![Binder] = Idle, ![c] = p]
  BY <1>0, VpnAssumption DEF StartFuture, fieldVars, displayVars, BeginConnect
<1>2. AtStart(Binder) /\ Alone(Binder) /\ ~crashed /\ InOrder /\ Binder \in Threads
  BY <1>1, AtStartIs, VpnStarters
<1>3. /\ \A r \in Resources \ {m} : Gone(r)
      /\ There(m, c) /\ profile # NoProfile /\ Silent /\ Posted = "CONNECTING" /\ Registered
  BY <1>0, <1>1, <1>2 DEF AtStart
<1>4. Posted' = Posted /\ InOrder'
  BY <1>1, <1>2, SamePosted
<1>5. c \in Threads /\ c # Binder
  BY ThreadKinds, VpnStarters
<1>6. at'[c] = p /\ at'[Binder] = Idle /\ \A u \in Threads : u \notin {Binder, c} => at'[u] = at[u]
  BY <1>1, <1>2, <1>5 DEF Shapes
<1>7. \A u \in Threads : Active(u)' => u = c
  BY <1>2, <1>6 DEF Alone, Active
<1>8. p # Idle /\ Working(p)
  BY DEF Idle, Working
<1>9. Active(c)'
  BY <1>6, <1>8 DEF Active
<1>10. ToMake(p) = Resources \ {m} /\ m \in Resources
  BY VpnPlaces, StopNames
<1>11. (\A r \in ToMake(p) : Gone(r)') /\ There(m, c)' /\ listening' = {}
  BY <1>1, <1>3, <1>10 DEF Gone, There, Silent
<1>12. \A r \in Resources \ ToMake(p) : Made(c, r)'
  <2>1. m \in Needed'
    BY <1>10 DEF Needed
  <2>2. Made(c, m)'
    BY <1>6, <1>11, <2>1 DEF Made, Settled
  <2>3. QED
    BY <1>10, <2>2
<1>13. Registered' /\ ~crashed'
  BY Zenon, <1>1, <1>2, <1>3 DEF Registered
<1>14. AtConnect(c)'
  <2>1. p \notin {<<"connect", "notify">>, <<"connect", "assign">>} /\ p[1] = "connect"
    OBVIOUS
  <2>2. Posted' = "CONNECTING" /\ profile' # NoProfile /\ runs' = c /\ Registered'
    BY <1>1, <1>3, <1>4, <1>13
  <2> HIDE DEF p
  <2>3. QED
    BY <1>0, <1>6, <1>8, <1>11, <1>12, <2>1, <2>2 DEF AtConnect
<1>15. QED
  BY <1>4, <1>5, <1>7, <1>9, <1>13, <1>14 DEF OneAtATime

LEMMA StartRunnerSequential ==
  ASSUME Shapes, Types, OneAtATime, StartRunner(Binder)
  PROVE  OneAtATime'
BY StartMakes, StartRegisters, StartPosts, StartHandsOver DEF StartRunner

-----------------------------------------------------------------------------
(* connect.                                                                *)

(* connect() goes on, or reads what it needs.                              *)
LEMMA ConnectGoesOn ==
  ASSUME Shapes, OneAtATime, NEW c \in Runs, Working(at[c]), NEW p, NEW q, Moves(c, p, q), Working(p),
         UNCHANGED <<crashed, profile>>, UNCHANGED <<receiverFlag, receiver>>, InOrder',
         Posted' = IF p \in {<<"connect", "notify">>, <<"connect", "assign">>}
                     THEN "CONNECTED" ELSE "CONNECTING",
         ToMake(p) \subseteq ToMake(at[c]),
         \A r \in ToMake(p) : field'[r] = field[r] /\ live'[r] = live[r],
         \A r \in Resources \ ToMake(p) : Made(c, r)',
         p[1] = "launch" /\ q = "call" => p[2] \in Needed,
         p[1] = "kill" => q = "check",
         listening' = IF p = <<"connect", "assign">> THEN {c} ELSE {}
  PROVE  OneAtATime'
<1>1. AtConnect(c) /\ Alone(c) /\ ~crashed /\ c \in Threads
  BY AtConnectIs
<1>2. at'[c] = p /\ phase'[c] = q /\ runs' = runs
  BY <1>1, MovesTo DEF Moves
<1>3. ~crashed' /\ Registered'
  <2>1. Registered
    BY <1>1 DEF AtConnect
  <2>2. QED
    BY Zenon, <1>1, <2>1 DEF Registered
<1>4. Needed' = Needed
  BY DEF Needed
<1>5. \A r \in ToMake(p) : Gone(r)'
  BY <1>1 DEF AtConnect, Gone
<1>6. c = runs /\ profile # NoProfile
  BY <1>1 DEF AtConnect
<1>7. AtConnect(c)'
  BY <1>2, <1>3, <1>4, <1>5, <1>6 DEF AtConnect
<1>8. QED
  BY <1>1, <1>3, <1>7, ConnectLands

(* What was made stays.                                                    *)
LEMMA StaysMade ==
  ASSUME NEW c \in Runs, AtConnect(c), NEW r \in Resources, r \notin ToMake(at[c]),
         field'[r] = field[r], live'[r] = live[r], profile' = profile,
         at[c] # <<"store", r>>, at'[c] # <<"store", r>>,
         at[c] # <<"connect", "fd">> \/ r # "conn" \/ field[r] # None
  PROVE  Made(c, r)'
<1>1. Made(c, r)
  BY DEF AtConnect
<1>2. Settled(c, r)
  BY <1>1 DEF Made, Gone
<1>3. Settled(c, r)'
  BY <1>2 DEF Settled, There, Gone, Needed
<1>4. QED
  BY <1>3 DEF Made

(* connect() fails, and stops what it has made so far.                     *)
LEMMA ConnectThrows ==
  ASSUME Shapes, OneAtATime, NEW c \in Runs, Working(at[c]), at[c][1] # "store", Throw(c),
         at[c] \notin {<<"connect", "notify">>, <<"connect", "assign">>},
         UNCHANGED <<fieldVars, displayVars, messages, runs>>
  PROVE  OneAtATime'
<1>1. AtConnect(c) /\ Alone(c) /\ ~crashed /\ InOrder /\ c \in Threads
  BY AtConnectIs
<1>2. UNCHANGED <<field, live, state, messages, runs>> /\ UNCHANGED <<notification, listening>>
      /\ UNCHANGED <<receiverFlag, receiver>>
  BY DEF fieldVars, displayVars
<1>3. Moves(c, BeginStop, "check")
  <2>1. ~InStop(c)
    BY DEF InStop, Working
  <2>2. QED
    BY <1>2, <2>1 DEF Throw, Leave, Go, Moves
<1>4. ~crashed'
  <2>1. crashed' => crashed
    BY <1>1, ThreadKinds, OthersCatch
  <2>2. QED
    BY <1>1, <2>1
<1>5. Posted' = "CONNECTING" /\ InOrder'
  BY <1>1, <1>2, SamePosted DEF AtConnect
<1>6. \A r \in Resources : Left(r)'
  <2>1. SUFFICES ASSUME NEW r \in Resources PROVE Gone(r) \/ There(r, runs)
    BY <1>2 DEF Left, Gone, There
  <2>2. CASE r \in ToMake(at[c])
    BY <1>1, <2>2 DEF AtConnect
  <2>3. CASE r \notin ToMake(at[c])
    <3>1. Made(c, r) /\ c = runs
      BY <1>1, <2>3 DEF AtConnect
    <3>2. at[c] # <<"store", r>>
      OBVIOUS
    <3>3. QED
      BY <3>1, <3>2 DEF Made, Settled
  <2>4. QED
    BY <2>2, <2>3
<1>7. Silent'
  BY <1>1, <1>2 DEF AtConnect, Silent
<1>8. Registered'
  <2>1. Registered
    BY <1>1 DEF AtConnect
  <2>2. QED
    BY Zenon, <1>2, <2>1 DEF Registered
<1>9. QED
  BY <1>1, <1>3, <1>4, <1>5, <1>6, <1>7, <1>8, StopBegins

LEMMA LaunchStages ==
  /\ \A x : ToMake(<<"launch", x>>) = {r \in Executables : Rank(x) <= Rank(r)}
  /\ \A x : ToMake(<<"store", x>>) = {r \in Executables : Rank(x) < Rank(r)}
  /\ \A x \in Executables : Rank(x) \in Nat
  /\ \A x, y \in Executables : Rank(x) = Rank(y) => x = y
<1>1. \A x : ToMake(<<"launch", x>>) = {r \in Executables : Rank(x) <= Rank(r)}
  BY Names DEF ToMake
<1>2. \A x : ToMake(<<"store", x>>) = {r \in Executables : Rank(x) < Rank(r)}
  BY Names DEF ToMake
<1>3. QED
  BY <1>1, <1>2, RankIs

LEMMA LastStages ==
  \A x \in {"connected", "notify", "assign"} : ToMake(<<"connect", x>>) = {}
BY DEF ToMake

LEMMA LaunchOnward ==
  ASSUME NEW x \in Executables
  PROVE  LET p == After("launch", LaunchOrder, x, AfterLaunch) IN
         /\ p = <<"connect", "connected">> \/ \E y \in Executables : p = <<"launch", y>>
         /\ ToMake(p) = {r \in Executables : Rank(x) < Rank(r)}
<1> DEFINE p == After("launch", LaunchOrder, x, AfterLaunch)
<1>1. p = AfterLaunch \/ \E y \in Executables : p = <<"launch", y>>
  BY LaunchesInOrder, AfterIn
<1>2. ToMake(p) = {r \in Executables : Rank(x) < Rank(r)}
  BY NextLaunch
<1>3. QED
  BY <1>1, <1>2, VpnAssumption DEF AfterLaunch

(* An executable is done with, and the next one is looked at.              *)
LEMMA ConnectNext ==
  ASSUME Shapes, OneAtATime, NEW c \in Runs, NEW x \in Executables,
         at[c] \in {<<"launch", x>>, <<"store", x>>},
         GoOn(c, After("launch", LaunchOrder, x, AfterLaunch)),
         UNCHANGED <<state, profile, displayVars, messages, runs>>,
         \A r \in Resources \ {x} : field'[r] = field[r] /\ live'[r] = live[r],
         Settled(c, x)'
  PROVE  OneAtATime'
<1>1. PICK p : p = After("launch", LaunchOrder, x, AfterLaunch)
  OBVIOUS
<1>2. (p = <<"connect", "connected">> \/ \E y \in Executables : p = <<"launch", y>>)
      /\ ToMake(p) = {r \in Executables : Rank(x) < Rank(r)}
  BY <1>1, LaunchOnward
<1>3. Working(at[c]) /\ Working(p) /\ p \notin {<<"connect", "notify">>, <<"connect", "assign">>}
      /\ (\A r : p # <<"store", r>>) /\ p[1] # "kill"
  BY <1>2 DEF Working
<1>4. AtConnect(c) /\ InOrder /\ c \in Threads
  BY <1>3, AtConnectIs
<1>5. Moves(c, p, "check") /\ crashed' = crashed
  BY <1>1 DEF GoOn, Go, Moves
<1>6. at'[c] = p
  BY <1>4, <1>5, MovesTo
<1>7. UNCHANGED <<receiverFlag, receiver>> /\ listening' = listening
  BY DEF displayVars
<1>8. Posted' = "CONNECTING" /\ InOrder' /\ listening' = {}
  BY <1>4, <1>7, SamePosted DEF AtConnect
<1>9. ToMake(p) \subseteq ToMake(at[c]) /\ x \notin ToMake(p)
      /\ \A r \in Resources : r # x /\ r \notin ToMake(p) => r \notin ToMake(at[c])
  BY <1>2, LaunchStages
<1>10. \A r \in ToMake(p) : field'[r] = field[r] /\ live'[r] = live[r]
  BY <1>2, <1>9, Names
<1>11. \A r \in Resources \ ToMake(p) : Made(c, r)'
  <2>1. SUFFICES ASSUME NEW r \in Resources, r \notin ToMake(p) PROVE Made(c, r)'
    OBVIOUS
  <2>2. CASE r = x
    BY <1>3, <1>6, <2>2 DEF Made
  <2>3. CASE r # x
    <3>1. at[c] # <<"store", r>> /\ at[c] # <<"connect", "fd">> /\ at'[c] # <<"store", r>>
      BY <1>3, <1>6, <2>3
    <3>2. r \notin ToMake(at[c])
      BY <1>9, <2>1, <2>3
    <3>3. QED
      BY <1>4, <2>3, <3>1, <3>2, StaysMade
  <2>4. QED
    BY <2>2, <2>3
<1>12. QED
  BY <1>3, <1>5, <1>7, <1>8, <1>9, <1>10, <1>11, ConnectGoesOn

LEMMA ConnectReads ==
  ASSUME Shapes, OneAtATime, NEW c \in Runs, ConnectRead(c)
  PROVE  OneAtATime'
<1>1. at[c][1] \in {"connect", "launch"} /\ Reads(at[c])
      /\ UNCHANGED <<fieldVars, displayVars, messages, runs>>
  BY DEF ConnectRead
<1>2. Working(at[c]) /\ at[c] # <<"connect", "fd">> /\ \A r : at[c] # <<"store", r>>
  BY <1>1 DEF Working, Reads
<1>3. AtConnect(c) /\ InOrder /\ c \in Threads
  BY <1>2, AtConnectIs
<1>4. profile # NoProfile
  BY <1>3 DEF AtConnect
<1>5. UNCHANGED <<field, live, state, messages, profile, runs>> /\ UNCHANGED <<receiverFlag, receiver>>
      /\ listening' = listening
  BY <1>1 DEF fieldVars, displayVars
<1>6. CASE at[c] = <<"launch", "pdnsd">> /\ profile \in UdpDns
           /\ GoOn(c, After("launch", LaunchOrder, "pdnsd", AfterLaunch))
  <2>1. "pdnsd" \in Executables
    BY <1>6, ConnectFits
  <2>2. "pdnsd" \in ToMake(at[c])
    BY <1>6, <2>1, LaunchStages
  <2>3. Gone("pdnsd")
    BY <1>3, <2>2 DEF AtConnect
  <2>4. Settled(c, "pdnsd")'
    BY <1>5, <1>6, <2>3 DEF Settled, Needed, Gone
  <2>5. QED
    BY <1>1, <1>5, <1>6, <2>1, <2>4, ConnectNext
<1>7. CASE Phase(c, "call") /\ ~(at[c] = <<"launch", "pdnsd">> /\ profile \in UdpDns)
  <2>1. PICK p : p = at[c]
    OBVIOUS
  <2>2. Moves(c, p, "call") /\ crashed' = crashed
    BY <1>5, <1>7, <2>1 DEF Phase, Moves, Shapes
  <2>3. Posted' = Posted /\ InOrder'
    BY <1>3, <1>5, SamePosted
  <2>4. p[1] = "launch" => p[2] \in Needed
    BY <1>7, <2>1, ConnectFits, Names DEF Needed
  <2>5. at'[c] = p
    BY <1>3, <2>2, MovesTo
  <2>6. \A r \in Resources \ ToMake(p) : Made(c, r)'
    BY <1>2, <1>3, <1>5, <2>1, <2>5, StaysMade
  <2>7. /\ Posted' = IF p \in {<<"connect", "notify">>, <<"connect", "assign">>}
                       THEN "CONNECTED" ELSE "CONNECTING"
        /\ listening' = IF p = <<"connect", "assign">> THEN {c} ELSE {}
    BY <1>3, <1>5, <2>1, <2>3 DEF AtConnect
  <2>8. Working(p) /\ p[1] # "kill" /\ ToMake(p) = ToMake(at[c])
    BY <1>1, <1>2, <2>1
  <2>9. QED
    BY <1>2, <1>5, <2>2, <2>3, <2>4, <2>6, <2>7, <2>8, ConnectGoesOn
<1>8. QED
  BY <1>4, <1>6, <1>7 DEF ConnectRead

LEMMA ConnectFailures ==
  ASSUME Shapes, OneAtATime, NEW c \in Runs, ConnectFails(c)
  PROVE  OneAtATime'
<1>1. at[c][1] \in {"connect", "launch"} /\ MayFail(at[c]) /\ Throw(c)
      /\ UNCHANGED <<fieldVars, displayVars, messages, runs>>
  BY DEF ConnectFails
<1>2. at[c] \notin {<<"connect", "notify">>, <<"connect", "assign">>}
  BY <1>1 DEF MayFail
<1>3. Working(at[c]) /\ at[c][1] # "store"
  BY <1>1 DEF Working
<1>4. QED
  BY <1>1, <1>2, <1>3, ConnectThrows

LEMMA ConnectLaunches ==
  ASSUME Shapes, OneAtATime, NEW c \in Runs, ConnectLaunch(c)
  PROVE  OneAtATime'
<1> DEFINE x == at[c][2]
<1>1. at[c] = <<"launch", x>> /\ x \in Executables /\ phase[c] = "call"
  BY ConnectFits DEF ConnectLaunch, Reached, Reads
<1>2. PICK e \in Executables : at[c] = <<"launch", e>> /\ e = at[c][2]
  BY <1>1
<1> DEFINE p == <<"store", e>>
<1>3. /\ live' = [live EXCEPT ![e] = @ \cup {c}] /\ UNCHANGED <<field, state, profile, messages, runs>>
      /\ UNCHANGED <<receiverFlag, receiver>> /\ listening' = listening
      /\ Moves(c, p, "check") /\ crashed' = crashed
  BY <1>2 DEF ConnectLaunch, displayVars, GoOn, Go, Moves
<1>4. Working(at[c]) /\ Working(p)
  BY <1>2 DEF Working
<1>5. AtConnect(c) /\ InOrder /\ c \in Threads
  BY <1>4, AtConnectIs
<1>6. at'[c] = p
  BY <1>3, <1>5, MovesTo
<1>7. ToMake(p) = {r \in Executables : Rank(e) < Rank(r)}
      /\ ToMake(at[c]) = {r \in Executables : Rank(e) <= Rank(r)}
  BY <1>2, LaunchStages
<1>8. ToMake(p) \subseteq ToMake(at[c]) /\ e \notin ToMake(p) /\ e \in ToMake(at[c])
      /\ \A r \in Resources : r # e /\ r \notin ToMake(p) => r \notin ToMake(at[c])
  BY <1>7, LaunchStages
<1>9. Gone(e) /\ e \in Needed
  BY <1>1, <1>2, <1>5, <1>8 DEF AtConnect
<1>10. e \in Resources /\ \A r \in Resources : r # e => live'[r] = live[r]
  BY <1>3, Names DEF Shapes
<1>11. live'[e] = {c} /\ field'[e] = None
  BY <1>3, <1>9, <1>10 DEF Gone, Shapes
<1>12. \A r \in Resources \ ToMake(p) : Made(c, r)'
  <2>1. SUFFICES ASSUME NEW r \in Resources, r \notin ToMake(p) PROVE Made(c, r)'
    OBVIOUS
  <2>2. CASE r = e
    <3>1. e \in Needed'
      BY <1>3, <1>9 DEF Needed
    <3>2. QED
      BY <1>6, <1>11, <2>2, <3>1 DEF Made
  <2>3. CASE r # e
    <3>1. at[c] # <<"store", r>> /\ at[c] # <<"connect", "fd">> /\ at'[c] # <<"store", r>>
      BY <1>2, <1>6, <2>3
    <3>2. r \notin ToMake(at[c])
      BY <1>8, <2>1, <2>3
    <3>3. QED
      BY <1>3, <1>5, <1>10, <2>3, <3>1, <3>2, StaysMade
  <2>4. QED
    BY <2>2, <2>3
<1>13. \A r \in ToMake(p) : field'[r] = field[r] /\ live'[r] = live[r]
  BY <1>3, <1>7, <1>8, <1>10, Names
<1>14. Posted' = "CONNECTING" /\ InOrder' /\ listening' = {}
  <2>1. at[c] \notin {<<"connect", "notify">>, <<"connect", "assign">>}
    BY <1>2
  <2>2. QED
    BY <1>3, <1>5, <2>1, SamePosted DEF AtConnect
<1>15. p \notin {<<"connect", "notify">>, <<"connect", "assign">>} /\ p[1] = "store"
  OBVIOUS
<1> HIDE DEF p
<1>16. QED
  BY <1>3, <1>4, <1>8, <1>12, <1>13, <1>14, <1>15, ConnectGoesOn

LEMMA ConnectStores ==
  ASSUME Shapes, OneAtATime, NEW c \in Runs, ConnectStore(c)
  PROVE  OneAtATime'
<1>1. at[c] = <<"store", at[c][2]>> /\ at[c][2] \in Executables
  BY ConnectFits DEF ConnectStore
<1>2. PICK e \in Executables : at[c] = <<"store", e>> /\ e = at[c][2]
  BY <1>1
<1>3. /\ field' = [field EXCEPT ![e] = c] /\ UNCHANGED <<live, state, profile, displayVars, messages, runs>>
      /\ GoOn(c, After("launch", LaunchOrder, e, AfterLaunch))
  BY <1>2 DEF ConnectStore
<1>4. Working(at[c])
  BY <1>2 DEF Working
<1>5. AtConnect(c)
  BY <1>4, AtConnectIs
<1>6. e \notin ToMake(at[c]) /\ e \in Resources
  BY <1>2, LaunchStages, Names
<1>7. Made(c, e)
  BY <1>5, <1>6 DEF AtConnect
<1>8. e \in Needed /\ live[e] = {c}
  BY <1>2, <1>7 DEF Made
<1>9. field'[e] = c /\ \A r \in Resources : r # e => field'[r] = field[r]
  BY <1>3, <1>6 DEF Shapes
<1>10. Settled(c, e)'
  <2>1. c # None
    BY ThreadKinds
  <2>2. e \in Needed'
    BY <1>3, <1>8 DEF Needed
  <2>3. QED
    BY <1>3, <1>8, <1>9, <2>1, <2>2 DEF Settled, There
<1>11. QED
  BY <1>2, <1>3, <1>9, <1>10, ConnectNext

(* What is there of a run at work, and what a step leaves of it.           *)
LEMMA ConnectAt ==
  ASSUME OneAtATime, NEW c \in Runs, NEW x, at[c] = <<"connect", x>>
  PROVE  /\ Working(at[c]) /\ AtConnect(c) /\ Alone(c) /\ InOrder /\ ~crashed /\ c \in Threads
         /\ c = runs /\ profile # NoProfile /\ \A r : at[c] # <<"store", r>>
         /\ Posted = IF x \in {"notify", "assign"} THEN "CONNECTED" ELSE "CONNECTING"
         /\ listening = IF x = "assign" THEN {c} ELSE {}
<1>1. Working(at[c]) /\ \A r : at[c] # <<"store", r>>
  BY DEF Working
<1>2. AtConnect(c) /\ Alone(c) /\ InOrder /\ ~crashed /\ c \in Threads
  BY <1>1, AtConnectIs
<1>3. QED
  BY <1>1, <1>2 DEF AtConnect

LEMMA ConnectPosts ==
  ASSUME Shapes, Types, OneAtATime, NEW c \in Runs, ConnectPost(c)
  PROVE  OneAtATime'
<1> DEFINE p == <<"connect", "notify">>
<1>1. at[c] = <<"connect", "connected">> /\ UNCHANGED <<field, live, profile, state, runs>>
      /\ UNCHANGED <<receiverFlag, receiver>> /\ listening' = listening
      /\ Post("CONNECTED") /\ Moves(c, p, "check") /\ UNCHANGED <<crashed, profile>>
  BY DEF ConnectPost, Reached, fieldVars, displayVars, GoOn, Go, Moves
<1>2. /\ Working(at[c]) /\ AtConnect(c) /\ InOrder /\ c \in Threads
      /\ Posted = "CONNECTING" /\ listening = {} /\ \A r : at[c] # <<"store", r>>
  BY <1>1, ConnectAt
<1>3. InOrder' /\ Posted' = "CONNECTED"
  <2>1. messages \in Seq(States) /\ "CONNECTED" \in States
    BY DEF Types, DataTyped, States
  <2>2. <<Posted, "CONNECTED">> \in Turns
    BY <1>2 DEF Turns
  <2>3. QED
    BY <1>1, <1>2, <2>1, <2>2, PostTurns
<1>4. ToMake(at[c]) = {} /\ ToMake(p) = {}
  BY <1>1, LastStages
<1>5. at'[c] = p
  BY <1>1, <1>2, MovesTo
<1>6. \A r \in Resources : Made(c, r)'
  <2>1. \A r : at'[c] # <<"store", r>> /\ at[c] # <<"connect", "fd">>
    BY <1>1, <1>5
  <2> HIDE DEF p
  <2>2. QED
    BY <1>1, <1>2, <1>4, <2>1, StaysMade
<1>7. Working(p) /\ p[1] = "connect" /\ p # <<"connect", "assign">> /\ p = <<"connect", "notify">>
  BY DEF Working
<1> HIDE DEF p
<1>8. QED
  BY <1>1, <1>2, <1>3, <1>4, <1>6, <1>7, ConnectGoesOn

LEMMA ConnectNotifies ==
  ASSUME Shapes, OneAtATime, NEW c \in Runs, ConnectNotify(c)
  PROVE  OneAtATime'
<1> DEFINE p == <<"connect", "assign">>
<1>1. at[c] = <<"connect", "notify">> /\ UNCHANGED <<field, live, profile, state, messages, runs>>
      /\ UNCHANGED <<receiverFlag, receiver>> /\ listening' = listening \cup {c}
      /\ Moves(c, p, "check") /\ UNCHANGED <<crashed, profile>>
  BY DEF ConnectNotify, Reached, fieldVars, GoOn, Go, Moves
<1>2. /\ Working(at[c]) /\ AtConnect(c) /\ InOrder /\ c \in Threads
      /\ Posted = "CONNECTED" /\ listening = {} /\ \A r : at[c] # <<"store", r>>
  BY <1>1, ConnectAt
<1>3. InOrder' /\ Posted' = "CONNECTED" /\ listening' = {c}
  BY <1>1, <1>2, SamePosted
<1>4. ToMake(at[c]) = {} /\ ToMake(p) = {}
  BY <1>1, LastStages
<1>5. at'[c] = p
  BY <1>1, <1>2, MovesTo
<1>6. \A r \in Resources : Made(c, r)'
  <2>1. \A r : at'[c] # <<"store", r>> /\ at[c] # <<"connect", "fd">>
    BY <1>1, <1>5
  <2> HIDE DEF p
  <2>2. QED
    BY <1>1, <1>2, <1>4, <2>1, StaysMade
<1>7. Working(p) /\ p[1] = "connect" /\ p = <<"connect", "assign">>
  BY DEF Working
<1> HIDE DEF p
<1>8. QED
  BY <1>1, <1>2, <1>3, <1>4, <1>6, <1>7, ConnectGoesOn

(* The run is complete.                                                    *)
LEMMA ConnectAssigns ==
  ASSUME Shapes, OneAtATime, NEW c \in Runs, ConnectAssign(c)
  PROVE  OneAtATime'
<1>1. at[c] = <<"connect", "assign">> /\ UNCHANGED <<field, live, profile, state, messages, runs>>
      /\ UNCHANGED <<receiverFlag, receiver>> /\ listening' = listening /\ notification' = c
      /\ Moves(c, Idle, "check") /\ crashed' = crashed
  BY DEF ConnectAssign, fieldVars, GoOn, Go, Moves
<1>2. /\ AtConnect(c) /\ Alone(c) /\ InOrder /\ ~crashed /\ c \in Threads /\ c = runs
      /\ Posted = "CONNECTED" /\ listening = {c} /\ profile # NoProfile
      /\ \A r : at[c] # <<"store", r>>
  BY <1>1, ConnectAt
<1>3. InOrder' /\ Posted' = "CONNECTED"
  BY <1>1, <1>2, SamePosted
<1>4. ToMake(at[c]) = {}
  BY <1>1, LastStages
<1>5. \A r \in Resources : Settled(c, r)
  <2>1. \A r \in Resources : Made(c, r)
    BY <1>2, <1>4 DEF AtConnect
  <2>2. at[c] # <<"connect", "fd">>
    BY <1>1
  <2>3. QED
    BY <1>2, <2>1, <2>2 DEF Made
<1>6. Needed \subseteq Resources /\ Needed' = Needed
  BY <1>1 DEF Needed
<1>7. /\ \A r \in Needed : field'[r] = c /\ live'[r] = {c}
      /\ \A r \in Resources \ Needed : field'[r] = None /\ live'[r] = {}
  BY <1>1, <1>5, <1>6 DEF Settled, There, Gone
<1>8. Registered' /\ ~crashed'
  <2>1. Registered
    BY <1>2 DEF AtConnect
  <2>2. QED
    BY Zenon, <1>1, <1>2, <2>1 DEF Registered
<1>9. runs' = c /\ c # None /\ profile' # NoProfile /\ notification' = c /\ listening' = {c}
  BY <1>1, <1>2, ThreadKinds
<1>10. receiverFlag' /\ receiver'
  BY Zenon, <1>8 DEF Registered
<1>11. EverythingWorks'
  BY <1>6, <1>7, <1>9, <1>10 DEF EverythingWorks
<1>12. AtRest'
  BY <1>3, <1>9, <1>11 DEF AtRest, Full
<1>13. QED
  BY <1>1, <1>2, <1>3, <1>8, <1>12, AloneMoves

-----------------------------------------------------------------------------
(* What connect() of the VPN service adds.                                 *)

LEMMA ConnectProtects ==
  ASSUME Shapes, OneAtATime, NEW c \in Runs, ConnectVpnThread(c)
  PROVE  OneAtATime'
<1> DEFINE p == <<"connect", "run">>
           v == "vpnThread"
<1>1. at[c] = <<"connect", "vpnThread">> /\ UNCHANGED <<profile, state, messages, runs>>
      /\ UNCHANGED <<receiverFlag, receiver>> /\ listening' = listening
      /\ Moves(c, p, "check") /\ UNCHANGED <<crashed, profile>>
      /\ field' = [field EXCEPT ![v] = c] /\ live' = [live EXCEPT ![v] = @ \cup {c}]
  BY DEF ConnectVpnThread, Reached, displayVars, GoOn, Go, Moves
<1>2. /\ Working(at[c]) /\ AtConnect(c) /\ InOrder /\ c \in Threads
      /\ Posted = "CONNECTING" /\ listening = {} /\ \A r : at[c] # <<"store", r>>
  BY <1>1, ConnectAt
<1>3. InOrder' /\ Posted' = "CONNECTING" /\ listening' = {}
  BY <1>1, <1>2, SamePosted
<1>4. /\ ToMake(at[c]) = Resources \ {"trafficMonitor"} /\ v \in Resources /\ v # "pdnsd"
      /\ ToMake(p) = Resources \ {"trafficMonitor", v}
  BY <1>1, VpnPlaces
<1>5. /\ at'[c] = p /\ field'[v] = c /\ live'[v] = live[v] \cup {c}
      /\ \A r \in Resources : r # v => field'[r] = field[r] /\ live'[r] = live[r]
  <2>1. at'[c] = p
    BY <1>1, <1>2, MovesTo
  <2>2. QED
    BY <1>1, <1>4, <2>1 DEF Shapes
<1>6. Made(c, v)'
  <2>1. Gone(v)
    BY <1>2, <1>4 DEF AtConnect
  <2>2. live'[v] = {c} /\ c # None
    BY <1>5, <2>1, ThreadKinds DEF Gone
  <2>3. v \in Needed'
    BY <1>4 DEF Needed
  <2>4. \A r : at'[c] # <<"store", r>>
    BY <1>5
  <2>5. QED
    BY <1>5, <2>2, <2>3, <2>4 DEF Made, Settled, There
<1>7. \A r \in Resources \ ToMake(p) : Made(c, r)'
  <2>1. SUFFICES ASSUME NEW r \in Resources, r \notin ToMake(p), r # v PROVE Made(c, r)'
    BY <1>6
  <2>2. r \notin ToMake(at[c]) /\ field'[r] = field[r] /\ live'[r] = live[r]
    BY <1>4, <1>5, <2>1
  <2>3. at[c] # <<"connect", "fd">> /\ at[c] # <<"store", r>> /\ at'[c] # <<"store", r>>
    BY <1>1, <1>5
  <2>4. QED
    BY <1>1, <1>2, <2>2, <2>3, StaysMade
<1>8. Working(p) /\ p[1] = "connect" /\ p \notin {<<"connect", "assign">>, <<"connect", "notify">>}
  BY DEF Working
<1>9. \A r \in ToMake(p) : field'[r] = field[r] /\ live'[r] = live[r]
  BY <1>4, <1>5
<1>10. ToMake(p) \subseteq ToMake(at[c])
  BY <1>4
<1> HIDE DEF p
<1>11. QED
  BY <1>1, <1>2, <1>3, <1>7, <1>8, <1>9, <1>10, ConnectGoesOn

(* killProcesses(), which finds nothing.                                   *)
LEMMA ConnectKills ==
  ASSUME Shapes, OneAtATime, NEW c \in Runs, ConnectVpnThreadRun(c)
  PROVE  OneAtATime'
<1> DEFINE v == "vpnThread"
<1>1. at[c] = <<"connect", "run">> /\ UNCHANGED <<field, live, profile, state, messages, runs>>
      /\ UNCHANGED <<receiverFlag, receiver>> /\ listening' = listening
  BY DEF ConnectVpnThreadRun, fieldVars, displayVars
<1>2. /\ Working(at[c]) /\ AtConnect(c) /\ InOrder /\ c \in Threads
      /\ Posted = "CONNECTING" /\ listening = {} /\ \A r : at[c] # <<"store", r>>
  BY <1>1, ConnectAt
<1>3. InOrder' /\ Posted' = "CONNECTING" /\ listening' = {}
  BY <1>1, <1>2, SamePosted
<1>4. ToMake(at[c]) = Resources \ {"trafficMonitor", v} /\ v \in Resources /\ v # "pdnsd"
  BY <1>1, VpnPlaces
<1>5. field[v] # None
  <2>1. Made(c, v)
    BY <1>2, <1>4 DEF AtConnect
  <2>2. v \in Needed
    BY <1>4 DEF Needed
  <2>3. QED
    BY <1>1, <1>2, <2>1, <2>2 DEF Made, Settled, There
<1>6. PICK x \in Kills : BeginKill = <<"kill", x>>
  BY ExecutablesAssumption, BeginKillFits
<1>7. PICK p : p = <<"kill", x>>
  OBVIOUS
<1>8. Moves(c, p, "check") /\ UNCHANGED <<crashed, profile>>
  BY <1>1, <1>5, <1>6, <1>7 DEF ConnectVpnThreadRun, GoOn, Go, Moves
<1>9. at'[c] = p
  BY <1>2, <1>8, MovesTo
<1>10. ToMake(p) = ToMake(at[c])
  <2>1. ToMake(p) = ToMake(<<"connect", "establish">>)
    BY <1>7, KillStage
  <2>2. QED
    BY <1>4, <2>1, VpnPlaces
<1>11. \A r \in Resources \ ToMake(p) : Made(c, r)'
  <2>1. SUFFICES ASSUME NEW r \in Resources, r \notin ToMake(p) PROVE Made(c, r)'
    OBVIOUS
  <2>2. at[c] # <<"connect", "fd">> /\ at[c] # <<"store", r>> /\ at'[c] # <<"store", r>>
    BY <1>1, <1>7, <1>9
  <2>3. QED
    BY <1>1, <1>2, <1>10, <2>1, <2>2, StaysMade
<1>12. Working(p) /\ p[1] = "kill" /\ p \notin {<<"connect", "assign">>, <<"connect", "notify">>}
  BY <1>7 DEF Working
<1>13. QED
  BY <1>1, <1>2, <1>3, <1>8, <1>10, <1>11, <1>12, ConnectGoesOn

(* With the tunnel or without it.                                          *)
LEMMA ConnectEstablishes ==
  ASSUME Shapes, OneAtATime, NEW c \in Runs, ConnectEstablish(c)
  PROVE  OneAtATime'
<1> DEFINE p == <<"connect", "fd">>
           v == "conn"
<1>1. at[c] = <<"connect", "establish">> /\ UNCHANGED <<profile, state, messages, runs>>
      /\ UNCHANGED <<receiverFlag, receiver>> /\ listening' = listening
      /\ Moves(c, p, "check") /\ UNCHANGED <<crashed, profile>>
  BY DEF ConnectEstablish, Reached, displayVars, GoOn, Go, Moves
<1>2. /\ Working(at[c]) /\ AtConnect(c) /\ InOrder /\ c \in Threads
      /\ Posted = "CONNECTING" /\ listening = {} /\ \A r : at[c] # <<"store", r>>
  BY <1>1, ConnectAt
<1>3. InOrder' /\ Posted' = "CONNECTING" /\ listening' = {}
  BY <1>1, <1>2, SamePosted
<1>4. /\ ToMake(at[c]) = Resources \ {"trafficMonitor", "vpnThread"} /\ v \in Resources /\ v # "pdnsd"
      /\ ToMake(p) = Executables /\ v \notin Executables
      /\ Resources = Executables \cup {"trafficMonitor", "vpnThread", v}
      /\ "vpnThread" \notin Executables /\ "trafficMonitor" \notin Executables
  BY <1>1, VpnPlaces, Names, StopNames
<1>5. Gone(v)
  BY <1>2, <1>4 DEF AtConnect
<1>6. at'[c] = p
  BY <1>1, <1>2, MovesTo
<1>7. /\ \A r \in Resources : r # v => field'[r] = field[r] /\ live'[r] = live[r]
      /\ \/ field'[v] = c /\ live'[v] = {c}
         \/ field'[v] = None /\ live'[v] = {}
  BY <1>4, <1>5 DEF ConnectEstablish, Shapes, Gone
<1>8. Made(c, v)'
  <2>1. c # None /\ v \in Needed'
    BY <1>4, ThreadKinds DEF Needed
  <2>2. \A r : at'[c] # <<"store", r>>
    BY <1>6
  <2>3. CASE field'[v] = c /\ live'[v] = {c}
    BY <2>1, <2>2, <2>3 DEF Made, Settled, There
  <2>4. CASE field'[v] = None /\ live'[v] = {}
    BY <1>6, <2>4 DEF Made, Gone
  <2>5. QED
    BY <1>7, <2>3, <2>4
<1>9. \A r \in Resources \ ToMake(p) : Made(c, r)'
  <2>1. SUFFICES ASSUME NEW r \in Resources, r \notin ToMake(p), r # v PROVE Made(c, r)'
    BY <1>8
  <2>2. r \notin ToMake(at[c]) /\ field'[r] = field[r] /\ live'[r] = live[r]
    BY <1>4, <1>7, <2>1
  <2>3. at[c] # <<"connect", "fd">> /\ at[c] # <<"store", r>> /\ at'[c] # <<"store", r>>
    BY <1>1, <1>6
  <2>4. QED
    BY <1>1, <1>2, <2>2, <2>3, StaysMade
<1>10. Working(p) /\ p[1] = "connect" /\ p \notin {<<"connect", "assign">>, <<"connect", "notify">>}
  BY DEF Working
<1>11. /\ \A r \in ToMake(p) : field'[r] = field[r] /\ live'[r] = live[r]
       /\ ToMake(p) \subseteq ToMake(at[c])
  BY <1>4, <1>7
<1> HIDE DEF p
<1>12. QED
  BY <1>1, <1>2, <1>3, <1>9, <1>10, <1>11, ConnectGoesOn

LEMMA FirstLaunch ==
  Head(LaunchOrder) \in Executables /\ Rank(Head(LaunchOrder)) = 1
<1>1. Len(LaunchOrder) \in Nat /\ Len(LaunchOrder) # 0
  <2>1. LaunchOrder \in Seq(Executables)
    BY LaunchesInOrder DEF Orders
  <2>2. PICK x : x \in Executables
    BY ExecutablesAssumption
  <2>3. Rank(x) \in 1..Len(LaunchOrder)
    BY <2>2, RankIs
  <2>4. QED
    BY <2>1, <2>3
<1>2. Head(LaunchOrder) = LaunchOrder[1]
  OBVIOUS
<1>3. 1 \in 1..Len(LaunchOrder)
  BY <1>1
<1>4. QED
  BY <1>2, <1>3, RankIs

LEMMA ConnectOpens ==
  ASSUME Shapes, OneAtATime, NEW c \in Runs, ConnectFd(c)
  PROVE  OneAtATime'
<1>1. at[c] = <<"connect", "fd">> /\ UNCHANGED <<field, live, profile, state, messages, runs>>
      /\ UNCHANGED <<receiverFlag, receiver>> /\ listening' = listening
  BY DEF ConnectFd, fieldVars, displayVars
<1>2. /\ Working(at[c]) /\ AtConnect(c) /\ InOrder /\ c \in Threads
      /\ Posted = "CONNECTING" /\ listening = {} /\ \A r : at[c] # <<"store", r>>
  BY <1>1, ConnectAt
<1>3. CASE field["conn"] = None
  <2>1. Throw(c) /\ UNCHANGED <<fieldVars, displayVars, messages, runs>>
    BY <1>3 DEF ConnectFd
  <2>2. at[c][1] # "store" /\ at[c] \notin {<<"connect", "notify">>, <<"connect", "assign">>}
    BY <1>1
  <2>3. QED
    BY <1>2, <2>1, <2>2, ConnectThrows
<1>4. CASE field["conn"] # None
  <2>1. PICK x \in Executables : x = Head(LaunchOrder) /\ Rank(x) = 1
    BY FirstLaunch
  <2>2. PICK p : p = <<"launch", x>>
    OBVIOUS
  <2>3. Moves(c, p, "check") /\ UNCHANGED <<crashed, profile>>
    BY <1>1, <1>4, <2>1, <2>2 DEF ConnectFd, GoOn, Go, Moves
  <2>4. at'[c] = p
    BY <1>2, <2>3, MovesTo
  <2>5. ToMake(p) = ToMake(at[c])
    <3>1. ToMake(p) = {r \in Executables : 1 <= Rank(r)}
      BY <2>1, <2>2, LaunchStages
    <3>2. \A r \in Executables : 1 <= Rank(r)
      BY RankIs
    <3>3. QED
      BY <1>1, <3>1, <3>2, VpnPlaces
  <2>6. InOrder' /\ Posted' = "CONNECTING" /\ listening' = {}
    BY <1>1, <1>2, SamePosted
  <2>7. \A r \in Resources \ ToMake(p) : Made(c, r)'
    <3>1. SUFFICES ASSUME NEW r \in Resources, r \notin ToMake(p) PROVE Made(c, r)'
      OBVIOUS
    <3>2. at[c] # <<"store", r>> /\ at'[c] # <<"store", r>> /\ (r # "conn" \/ field[r] # None)
      BY <1>1, <1>4, <2>2, <2>4
    <3>3. QED
      BY <1>1, <1>2, <2>5, <3>1, <3>2, StaysMade
  <2>8. Working(p) /\ p[1] = "launch" /\ p \notin {<<"connect", "assign">>, <<"connect", "notify">>}
    BY <2>2 DEF Working
  <2>9. QED
    BY <1>1, <1>2, <2>3, <2>5, <2>6, <2>7, <2>8, ConnectGoesOn
<1>5. QED
  BY <1>3, <1>4

LEMMA ConnectSequential ==
  ASSUME Shapes, Types, OneAtATime, NEW c \in Runs,
         \/ Connect(c) \/ ConnectVpnThread(c) \/ ConnectVpnThreadRun(c)
         \/ ConnectEstablish(c) \/ ConnectFd(c)
  PROVE  OneAtATime'
BY ConnectReads, ConnectFailures, ConnectLaunches, ConnectStores, ConnectPosts, ConnectNotifies,
   ConnectAssigns, ConnectProtects, ConnectKills, ConnectEstablishes, ConnectOpens DEF Connect

-----------------------------------------------------------------------------
(* Requests, and the messages of changeState.                              *)

(* Both states of rest are such that stopRunner() deals with them.         *)
LEMMA RestStops ==
  ASSUME Shapes, AtRest, NEW t \in Threads, Alone(t), ~crashed, InOrder,
         Moves(t, BeginStop, "check"), crashed' = crashed,
         UNCHANGED <<fieldVars, displayVars, messages>>
  PROVE  OneAtATime'
<1>1. UNCHANGED <<field, live, state, profile, messages, runs>> /\ UNCHANGED <<notification, listening>>
      /\ UNCHANGED <<receiverFlag, receiver>>
  BY DEF fieldVars, displayVars, Moves
<1>2. Posted' = Posted /\ InOrder' /\ Posted \in {"STOPPED", "CONNECTED"}
  BY <1>1, SamePosted DEF AtRest
<1>3. (\A r \in Resources : Left(r)) /\ (Silent \/ Shown) /\ (Registered \/ Unregistered)
  <2>1. CASE NothingLeft
    <3>1. Unregistered
      BY Zenon, <2>1 DEF NothingLeft, Unregistered
    <3>2. (\A r \in Resources : Left(r)) /\ Silent
      BY <2>1 DEF NothingLeft, Left, Gone, Silent
    <3>3. QED
      BY <3>1, <3>2
  <2>2. CASE Full
    <3>1. Registered
      BY Zenon, <2>2 DEF Full, EverythingWorks, Registered
    <3>2. Shown
      BY <2>2 DEF Full, EverythingWorks, Shown
    <3>3. \A r \in Resources : There(r, runs) \/ Gone(r)
      BY <2>2 DEF Full, EverythingWorks, There, Gone
    <3>4. QED
      BY <3>1, <3>2, <3>3 DEF Left
  <2>3. QED
    BY <2>1, <2>2 DEF AtRest
<1>4. \A r \in Resources : Left(r)'
  BY <1>1, <1>3 DEF Left, Gone, There
<1>5. Silent' \/ Shown'
  BY <1>1, <1>3 DEF Silent, Shown
<1>6. (Registered' \/ Unregistered') /\ ~crashed'
  <2>1. Registered' <=> Registered
    BY Zenon, <1>1 DEF Registered
  <2>2. Unregistered' <=> Unregistered
    BY Zenon, <1>1 DEF Unregistered
  <2>3. ~crashed'
    BY Zenon
  <2>4. QED
    BY <1>3, <2>1, <2>2, <2>3
<1>7. QED
  BY <1>2, <1>4, <1>5, <1>6, StopBegins

LEMMA Switches ==
  ASSUME Shapes, OneAtATime, UseSwitch
  PROVE  OneAtATime'
<1>1. at[Binder] = <<"use", "switch">> /\ UNCHANGED <<fieldVars, displayVars, messages, runs>>
      /\ Binder \in Threads /\ Binder \notin Runs
  BY VpnStarters DEF UseSwitch
<1>2. Active(Binder)
  BY <1>1 DEF Active, Idle
<1>3. Alone(Binder) /\ ~crashed /\ InOrder
  BY <1>1, <1>2, AtWorkAlone DEF OneAtATime
<1>4. AtSwitch(Binder)
  <2>1. ~AtStart(Binder) /\ ~AtConnect(Binder) /\ ~AtStop(Binder)
    BY <1>1 DEF AtStart, AtConnect, AtStop
  <2>2. QED
    BY <1>1, <1>2, <2>1 DEF OneAtATime
<1>5. Posted = "CONNECTED" /\ Full /\ profile # NoProfile
  BY <1>4 DEF AtSwitch, Full, EverythingWorks
<1>6. AtRest
  BY <1>5 DEF AtRest
<1>7. PICK p \in {Idle, BeginStop} : Moves(Binder, p, "check") /\ crashed' = crashed
  BY <1>1, <1>5 DEF UseSwitch, Leave, GoOn, Go, Moves
<1>8. CASE p = BeginStop
  BY <1>1, <1>3, <1>6, <1>7, <1>8, RestStops
<1>9. CASE p = Idle
  <2>1. UNCHANGED <<field, live, state, profile, messages, runs>> /\ UNCHANGED <<notification, listening>>
        /\ UNCHANGED <<receiverFlag, receiver>>
    BY <1>1 DEF fieldVars, displayVars
  <2>2. Posted' = "CONNECTED" /\ InOrder'
    BY <1>3, <1>5, <2>1, SamePosted
  <2>3. Full'
    <3>1. receiverFlag' /\ receiver'
      BY Zenon, <1>5, <2>1 DEF Full, EverythingWorks
    <3>2. Needed' = Needed
      BY <2>1 DEF Needed
    <3>3. QED
      BY <1>5, <2>1, <3>1, <3>2 DEF Full, EverythingWorks
  <2>4. ~crashed'
    BY Zenon, <1>3, <1>7
  <2>5. QED
    BY <1>1, <1>3, <1>7, <1>9, <2>2, <2>3, <2>4, AloneMoves DEF AtRest
<1>10. QED
  BY <1>8, <1>9

(* use() begins, or has nothing to do.                                     *)
LEMMA RequestsBegin ==
  ASSUME Shapes, OneAtATime, Quiet, Use \/ Close \/ Revoke
  PROVE  OneAtATime'
<1>1. AtRest /\ ~crashed /\ InOrder /\ (\A t \in Threads : Alone(t)) /\ Posted = state
  BY DEF OneAtATime, Quiet, Alone, Posted
<1>2. Binder \in Threads /\ Main \in Threads
  BY ThreadKinds
<1>3. UNCHANGED <<fieldVars, displayVars, messages, runs>>
  BY DEF Use, UseStop, UseProfile, Close, Revoke
<1>4. ASSUME NEW t \in {Binder, Main}, GoOn(t, BeginStop) PROVE OneAtATime'
  <2>1. Moves(t, BeginStop, "check") /\ crashed' = crashed
    BY <1>3, <1>4 DEF GoOn, Go, Moves
  <2>2. QED
    BY <1>1, <1>2, <1>3, <1>4, <2>1, RestStops
<1>5. UNCHANGED <<field, live, state, profile, messages, runs>> /\ UNCHANGED <<notification, listening>>
      /\ UNCHANGED <<receiverFlag, receiver>>
  BY <1>3 DEF fieldVars, displayVars
<1>6. Posted' = Posted /\ InOrder'
  BY <1>1, <1>5, SamePosted
<1>7. CASE state = "STOPPED" /\ Go(Binder, BeginStart) /\ crashed' = crashed
  <2> DEFINE p == <<"start", "prepare">>
  <2>1. Moves(Binder, p, "check")
    BY <1>5, <1>7, VpnAssumption DEF BeginStart, Go, Moves
  <2>2. at'[Binder] = p
    BY <1>2, <2>1, MovesTo
  <2>3. NothingLeft
    BY <1>1, <1>7 DEF AtRest
  <2>4. Unregistered'
    BY Zenon, <1>5, <2>3 DEF NothingLeft, Unregistered
  <2>5. profile' = NoProfile /\ (\A r \in Resources : Gone(r)') /\ Silent' /\ Posted' = "STOPPED"
    BY <1>1, <1>5, <1>6, <1>7, <2>3 DEF NothingLeft, Gone, Silent
  <2>6. ~crashed'
    BY Zenon, <1>1, <1>7
  <2>7. "trafficMonitor" \in Resources
    BY DEF Resources
  <2>8. AtStart(Binder)'
    BY <2>2, <2>4, <2>5, <2>7 DEF AtStart
  <2>9. QED
    BY <1>1, <1>2, <1>6, <2>1, <2>6, <2>8, StartLands
<1>8. CASE state = "CONNECTED" /\ Go(Binder, <<"use", "switch">>) /\ crashed' = crashed
  <2> DEFINE p == <<"use", "switch">>
  <2>1. Moves(Binder, p, "check")
    BY <1>5, <1>8 DEF Go, Moves
  <2>2. at'[Binder] = p
    BY <1>2, <2>1, MovesTo
  <2>3. Full
    BY <1>1, <1>8 DEF AtRest
  <2>4. Full'
    <3>1. receiverFlag' /\ receiver'
      BY Zenon, <1>5, <2>3 DEF Full, EverythingWorks
    <3>2. Needed' = Needed
      BY <1>5 DEF Needed
    <3>3. QED
      BY <1>5, <2>3, <3>1, <3>2 DEF Full, EverythingWorks
  <2>5. ~crashed' /\ Posted' = "CONNECTED"
    BY Zenon, <1>1, <1>6, <1>8
  <2>6. AtSwitch(Binder)'
    BY <2>2, <2>4, <2>5 DEF AtSwitch
  <2>7. p # Idle
    BY DEF Idle
  <2>8. QED
    BY <1>1, <1>2, <1>6, <2>1, <2>5, <2>6, <2>7, AloneMoves
<1>9. state \in {"STOPPED", "CONNECTED"}
  BY <1>1 DEF AtRest
<1>10. QED
  BY <1>4, <1>7, <1>8, <1>9 DEF Use, UseStop, UseProfile, Close, Revoke

(* A message does not change what the stages are about.                    *)
LEMMA SameStages ==
  ASSUME UNCHANGED <<profile, field, live, displayVars, threadVars>>, Posted' = Posted,
         NEW t \in Threads, AtSwitch(t) \/ AtStart(t) \/ AtConnect(t) \/ AtStop(t)
  PROVE  (AtSwitch(t) \/ AtStart(t) \/ AtConnect(t) \/ AtStop(t))'
<1>1. UNCHANGED <<profile, field, live, runs, at, phase>> /\ UNCHANGED <<notification, listening>>
      /\ UNCHANGED <<receiverFlag, receiver>>
  BY DEF displayVars, threadVars
<1>2. /\ \A r : Gone(r)' <=> Gone(r)
      /\ \A r, c : There(r, c)' <=> There(r, c)
      /\ \A r : Left(r)' <=> Left(r)
      /\ Silent' <=> Silent
      /\ Shown' <=> Shown
      /\ Needed' = Needed
  BY <1>1 DEF Gone, There, Left, Silent, Shown, Needed
<1>3. /\ receiverFlag' <=> receiverFlag
      /\ receiver' <=> receiver
      /\ Registered' <=> Registered
      /\ Unregistered' <=> Unregistered
  BY Zenon, <1>1 DEF Registered, Unregistered
<1>4. CASE AtSwitch(t)
  <2>1. Full'
    BY <1>1, <1>2, <1>3, <1>4 DEF AtSwitch, Full, EverythingWorks
  <2>2. QED
    BY <1>1, <1>4, <2>1 DEF AtSwitch
<1>5. CASE AtStart(t)
  <2>1. runs' + 1 = runs + 1
    BY <1>1
  <2>2. QED
    BY <1>1, <1>2, <1>3, <1>5, <2>1 DEF AtStart
<1>6. CASE AtConnect(t)
  <2>1. \A r : Made(t, r)' <=> Made(t, r)
    BY <1>1, <1>2 DEF Made, Settled
  <2>2. ToMake(at[t])' = ToMake(at[t])
    BY <1>1 DEF ToMake
  <2>3. QED
    BY <1>1, <1>2, <1>3, <1>6, <2>1, <2>2 DEF AtConnect
<1>7. CASE AtStop(t)
  <2>1. PICK x \in Stops : /\ at[t] = <<"stop", x>>
                           /\ StopPosted(x) /\ StopResources(t, x)
                           /\ StopNotification(t, x) /\ StopReceiver(t, x)
    BY <1>7 DEF AtStop
  <2>2. StopPosted(x)'
    BY <2>1 DEF StopPosted
  <2>3. StopResources(t, x)'
    BY <1>1, <1>2, <2>1 DEF StopResources
  <2>4. StopNotification(t, x)'
    BY <1>1, <1>2, <2>1 DEF StopNotification
  <2>5. StopReceiver(t, x)'
    BY <1>1, <1>3, <2>1 DEF StopReceiver
  <2>6. QED
    BY <1>1, <2>1, <2>2, <2>3, <2>4, <2>5 DEF AtStop
<1>8. QED
  BY <1>4, <1>5, <1>6, <1>7

LEMMA SameElse ==
  ASSUME OneAtATime, UNCHANGED <<profile, field, live, displayVars, threadVars>>,
         Posted' = Posted, InOrder'
  PROVE  OneAtATime'
<1>1. UNCHANGED <<profile, field, live, runs, at, crashed>> /\ UNCHANGED <<notification, listening>>
      /\ UNCHANGED <<receiverFlag, receiver>>
  BY DEF displayVars, threadVars
<1>2. ~crashed'
  BY Zenon, <1>1 DEF OneAtATime
<1>3. \A t : Active(t)' <=> Active(t)
  BY <1>1 DEF Active
<1>4. AtRest => AtRest'
  <2>1. NothingLeft => NothingLeft'
    <3>1. /\ ~receiverFlag => ~receiverFlag'
          /\ ~receiver => ~receiver'
      BY Zenon, <1>1
    <3>2. QED
      BY <1>1, <3>1 DEF NothingLeft
  <2>2. Full => Full'
    <3>1. /\ receiverFlag => receiverFlag'
          /\ receiver => receiver'
      BY Zenon, <1>1
    <3>2. Needed' = Needed
      BY <1>1 DEF Needed
    <3>3. QED
      BY <1>1, <3>1, <3>2 DEF Full, EverythingWorks
  <2>3. QED
    BY <2>1, <2>2 DEF AtRest
<1>5. \A t \in Threads : Active(t)' => (AtSwitch(t) \/ AtStart(t) \/ AtConnect(t) \/ AtStop(t))'
  BY <1>3, SameStages DEF OneAtATime
<1>6. QED
  BY <1>2, <1>3, <1>4, <1>5 DEF OneAtATime

LEMMA MessageSequential ==
  ASSUME Types, OneAtATime, HandleMessage
  PROVE  OneAtATime'
<1>1. messages \in Seq(States) /\ InOrder
  BY DEF Types, DataTyped, OneAtATime
<1>2. messages # <<>> /\ state' = Head(messages) /\ messages' = Tail(messages)
      /\ UNCHANGED <<profile, field, live, displayVars, threadVars>>
  BY DEF HandleMessage
<1>3. InOrder' /\ Posted' = Posted
  BY <1>1, <1>2, HandleTurns
<1>4. QED
  BY <1>2, <1>3, SameElse

LEMMA NextSequential ==
  ASSUME Shapes, Types, Sequential, [Next]_vars
  PROVE  Sequential'
<1> SUFFICES ASSUME ~overlapped' PROVE OneAtATime'
  BY DEF Sequential
<1>1. CASE UNCHANGED vars
  <2>1. UNCHANGED <<profile, field, live, displayVars, threadVars>> /\ UNCHANGED <<state, messages>>
    BY <1>1 DEF vars, baseVars, fieldVars
  <2>2. ~overlapped
    <3>1. overlapped' = overlapped
      BY <1>1 DEF vars, baseVars, historyVars
    <3>2. QED
      BY Zenon, <3>1
  <2>3. OneAtATime
    BY <2>2 DEF Sequential
  <2>4. Posted' = Posted /\ InOrder'
    BY <2>1, <2>3, SamePosted DEF OneAtATime
  <2>5. QED
    BY <2>1, <2>3, <2>4, SameElse
<1>2. CASE Request
  <2>1. CountOverlap /\ (Use \/ Close \/ Revoke)
    BY <1>2 DEF Request, CountUse, CountClose
  <2>2. ~overlapped /\ Quiet
    BY Zenon, <2>1 DEF CountOverlap
  <2>3. QED
    BY <2>1, <2>2, RequestsBegin DEF Sequential
<1>3. ASSUME NEW t \in Threads, ThreadStep(t) PROVE OneAtATime'
  <2>1. ~overlapped
    <3>1. overlapped' = overlapped
      BY <1>3 DEF ThreadStep, NoRequest
    <3>2. QED
      BY Zenon, <3>1
  <2>2. OneAtATime
    BY <2>1 DEF Sequential
  <2>3. CASE BaseStep(t)
    <3>1. t \in Starters => t = Binder
      BY VpnStarters
    <3>2. QED
      BY <2>2, <2>3, <3>1, StopRunnerSequential, Switches, StartRunnerSequential, ConnectSequential,
         MessageSequential DEF BaseStep
  <2>4. CASE StartPrepare
    BY <2>2, <2>4, StartPrepares
  <2>5. CASE t \in Runs /\ (\/ ConnectVpnThread(t) \/ ConnectVpnThreadRun(t)
                            \/ ConnectEstablish(t) \/ ConnectFd(t))
    BY <2>2, <2>5, ConnectSequential
  <2>6. QED
    BY <1>3, <2>3, <2>4, <2>5 DEF ThreadStep
<1>4. QED
  BY <1>1, <1>2, <1>3 DEF Next

LEMMA BaseInitSequential == BaseInit => Sequential
<1> SUFFICES ASSUME BaseInit PROVE OneAtATime
  BY DEF Sequential
<1>1. ~crashed /\ ~receiverFlag /\ ~receiver
  BY Zenon DEF BaseInit
<1>2. \A t \in Threads : ~Active(t)
  BY DEF BaseInit, Active
<1>3. messages = <<>> /\ state = "STOPPED" /\ Len(messages) = 0
  BY DEF BaseInit
<1>4. InOrder
  BY <1>3 DEF InOrder
<1>5. NothingLeft
  BY <1>1 DEF BaseInit, NothingLeft
<1>6. AtRest
  BY <1>3, <1>5 DEF AtRest, Posted
<1>7. QED
  BY <1>1, <1>2, <1>4, <1>6 DEF OneAtATime

-----------------------------------------------------------------------------
(* At rest, with no message left, what was posted last is the state.       *)
LEMMA SequentialRests == Shapes /\ Types /\ Sequential => Consistent
<1> SUFFICES ASSUME Shapes, Types, Sequential PROVE Consistent
  OBVIOUS
<1>1. BaseTypeOK
  BY TypesFit
<1>2. ASSUME Quiet, ~overlapped
      PROVE  /\ ~crashed
             /\ \/ state = "STOPPED" /\ NothingLeft
                \/ state = "CONNECTED" /\ EverythingWorks
  <2>1. OneAtATime
    BY <1>2 DEF Sequential
  <2>2. ~crashed /\ AtRest /\ Posted = state
    BY <1>2, <2>1 DEF OneAtATime, Quiet, Posted
  <2>3. QED
    BY <2>2 DEF AtRest, Full
<1>3. QED
  BY <1>1, <1>2 DEF Consistent

(* Only a message changes the state.                                       *)
LEMMA StatePublished ==
  ASSUME Next, state' # state
  PROVE  HandleMessage /\ overlapped' = overlapped
<1>1. CASE Request
  BY <1>1 DEF Request, Use, UseStop, UseProfile, Close, Revoke, fieldVars
<1>2. ASSUME NEW t \in Threads, ThreadStep(t)
      PROVE  HandleMessage /\ overlapped' = overlapped
  <2>1. overlapped' = overlapped
    BY <1>2 DEF ThreadStep, NoRequest
  <2>2. ~StopRunner(t)
    BY DEF StopRunner, Release, ReleaseCheck, ReleaseCall, ReleaseClear, StopPost, StopForget,
       StopNotificationCheck, StopNotificationCall, StopReceiverCheck, StopReceiverCall,
       StopReceiverClear, fieldVars
  <2>3. ~StartRunner(t) /\ ~UseSwitch /\ ~StartPrepare
    BY DEF StartRunner, StartProfile, StartTrafficMonitor, StartTrafficMonitorRun,
       StartReceiverCheck, StartReceiverCall, StartReceiverSet, StartPost, StartFuture,
       UseSwitch, StartPrepare, fieldVars
  <2>4. ~Connect(t)
    BY DEF Connect, ConnectRead, ConnectFails, ConnectLaunch, ConnectStore, ConnectPost,
       ConnectNotify, ConnectAssign, fieldVars
  <2>5. ~ConnectVpnThread(t) /\ ~ConnectVpnThreadRun(t) /\ ~ConnectEstablish(t) /\ ~ConnectFd(t)
    BY DEF ConnectVpnThread, ConnectVpnThreadRun, ConnectEstablish, ConnectFd, fieldVars
  <2>6. QED
    BY <1>2, <2>1, <2>2, <2>3, <2>4, <2>5 DEF ThreadStep, BaseStep
<1>3. QED
  BY <1>1, <1>2 DEF Next

(* The action of PublishedOrder.                                           *)
Published ==
  overlapped \/ <<state, state'>> \in
    {<<s, s>> : s \in States}
      \cup {<<"STOPPED", "CONNECTING">>, <<"CONNECTING", "CONNECTED">>,
            <<"CONNECTING", "STOPPING">>, <<"CONNECTED", "STOPPING">>,
            <<"STOPPED", "STOPPING">>, <<"STOPPING", "STOPPED">>}

LEMMA NextPublished ==
  ASSUME Types, Sequential, [Next]_vars
  PROVE  [Published]_state
<1> SUFFICES ASSUME state' # state, ~overlapped PROVE <<state, state'>> \in Turns
  BY DEF Published, Turns
<1>1. HandleMessage
  BY StatePublished DEF vars, baseVars, fieldVars
<1>2. messages \in Seq(States) /\ InOrder
  BY DEF Types, DataTyped, Sequential, OneAtATime
<1>3. QED
  BY <1>1, <1>2, HandleTurns DEF HandleMessage

(* When requests are worked off one at a time, the VPN service comes to    *)
(* rest with nothing left of any run and STOPPED published, or with all    *)
(* that the last run needs at work and CONNECTED published, whatever       *)
(* failed on the way, and its process has not ended: for any profiles, any *)
(* of the four executables and any number of requests.  Every variable has *)
(* a value of its type, overlapping requests included.                     *)
THEOREM SpecConsistent == Spec => []Consistent
<1>1. BaseInit => Shapes /\ Kept /\ Types /\ Sequential
  BY BaseInitShapes, BaseInitTyped, BaseInitSequential
<1>2. Shapes /\ Kept /\ Types /\ Sequential /\ [Next]_vars => Shapes' /\ Kept' /\ Types' /\ Sequential'
  BY NextKept, NextTyped, NextSequential
<1>3. Shapes /\ Types /\ Sequential => Consistent
  BY SequentialRests
<1>4. QED
  BY <1>1, <1>2, <1>3, PTL DEF Spec

(* As long as requests are worked off one at a time, the messages that     *)
(* changeState has posted and the main thread has not handled yet are in   *)
(* the order of a run, and the state that clients are told takes no other  *)
(* turn than those of PublishedOrder.                                      *)
THEOREM SpecPublishedOrder == Spec => PublishedOrder
<1>1. BaseInit => Shapes /\ Kept /\ Types /\ Sequential
  BY BaseInitShapes, BaseInitTyped, BaseInitSequential
<1>2. Shapes /\ Kept /\ Types /\ Sequential /\ [Next]_vars => Shapes' /\ Kept' /\ Types' /\ Sequential'
  BY NextKept, NextTyped, NextSequential
<1>3. Types /\ Sequential /\ [Next]_vars => [Published]_state
  BY NextPublished
<1>4. QED
  BY <1>1, <1>2, <1>3, PTL DEF Spec, PublishedOrder, Published

=============================================================================
