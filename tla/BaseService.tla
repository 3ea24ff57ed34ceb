---------------------------- MODULE BaseService ----------------------------
(***************************************************************************)
(* The lifecycle that the two services share: BaseService.scala, which     *)
(* runs in the process ":bg".  VpnService and NatService extend it with    *)
(* what their classes add and compose the steps into a specification.      *)
(*                                                                         *)
(* The threads are the binder thread that serves use(), one call at a time *)
(* because use() is synchronized; the main thread, which handles the       *)
(* messages that changeState posts, the CLOSE broadcast and onRevoke; the  *)
(* threads on which a root shell reports that it is open, of the NAT       *)
(* service; and one pool thread for every connect Future, named by the     *)
(* number of its run.  All of them may execute stopRunner, and no lock but *)
(* that of use() is ever taken.                                            *)
(*                                                                         *)
(* A run is one startRunner.  It owns a trafficMonitorThread, a            *)
(* notification, a guard for each executable and, in the VPN service, a    *)
(* vpnThread and a tunnel (conn).  A field of the service names the run    *)
(* whose object it refers to, live[r] the runs whose object for r is at    *)
(* work, referred to or not.  A guard is what ProcessGuard promises:       *)
(* start() returns when the executable runs, or throws, and once destroy() *)
(* has returned it does not run.                                           *)
(*                                                                         *)
(* A step is one access to a field that another thread can see; the reads  *)
(* of the field profile that precede such an access are one step together. *)
(***************************************************************************)
EXTENDS Integers, Sequences

CONSTANTS
  IsNat,        (* the service is ShadowsocksNatService                     *)
  Profiles,    (* the profiles a client can ask for                        *)
  Incomplete,  (* those without a host or a password                       *)
  UdpDns,      (* those with profile.udpdns                                *)
  Executables, (* what a run launches, all four or a smaller instance      *)
  NoProfile,   (* profile == null                                          *)
  MaxUses,     (* bound: calls of use()                                    *)
  MaxCloses,   (* bound: CLOSE broadcasts and revocations                  *)
  MaxOverlapping (* bound: requests of both kinds, when they overlap       *)

ASSUME ProfilesAssumption ==
  /\ Incomplete \subseteq Profiles
  /\ UdpDns \subseteq Profiles
  /\ NoProfile \notin Profiles

ASSUME ExecutablesAssumption ==
  /\ Executables # {}
  /\ Executables \subseteq {"sslocal", "sstunnel", "pdnsd",
                            IF IsNat THEN "redsocks" ELSE "tun2socks"}

ASSUME BoundsAssumption ==
  /\ MaxUses \in Nat
  /\ MaxCloses \in Nat
  /\ MaxOverlapping \in Nat

Runs == 1..MaxUses
None == 0

(* Threads are numbers so that they can be compared with the runs.         *)
Binder == -1
Main == -2
Shell(k) == -2 - k
Shells == IF IsNat THEN {Shell(k) : k \in 1..MaxUses} ELSE {}
Starters == {Binder} \cup Shells
Threads == Starters \cup {Main} \cup Runs

Resources ==
  Executables \cup {"trafficMonitor"} \cup (IF IsNat THEN {} ELSE {"vpnThread", "conn"})

VARIABLES
  state,          (* the volatile field state                              *)
  profile,        (* the volatile field profile                            *)
  field,          (* the fields that refer to the resources                *)
  live,           (* the runs whose resource is at work                    *)
  notification,   (* the field notification, never reset to null           *)
  listening,      (* the runs whose notification listens to the screen     *)
  receiverFlag,   (* the field closeReceiverRegistered                     *)
  receiver,       (* closeReceiver is registered with the system           *)
  messages,       (* the states posted to the main looper                  *)
  at,             (* the method and the place in it where each thread is   *)
  phase,          (* how far each thread is with an object it gives up     *)
  next,           (* the profile each starting thread is to start          *)
  runs,           (* number of connect Futures so far                      *)
  crashed,        (* an exception on the main thread ended the process     *)
  uses, closes,   (* history: the requests of the environment              *)
  overlapped,     (* history: a request came before the one before it was  *)
                  (* worked off                                            *)
  stopsOverlapped,(* history: two threads were in stopRunner at once       *)
  startedDirty    (* history: a run started on what another had left, or   *)
                  (* while another was still at work                       *)

fieldVars   == <<state, profile, field, live>>
displayVars == <<notification, listening, receiverFlag, receiver>>
threadVars  == <<at, phase, next, runs, crashed>>
historyVars == <<uses, closes, overlapped, stopsOverlapped, startedDirty>>
baseVars    == <<fieldVars, displayVars, messages, threadVars, historyVars>>

Idle == <<"idle", "">>
Active(t) == at[t] # Idle
InStop(t) == at[t][1] = "stop"
Quiet == messages = <<>> /\ \A t \in Threads : ~Active(t)

-----------------------------------------------------------------------------
(* The places of stopRunner, of killProcesses and of handleConnection, in  *)
(* the order of the code (updateTrafficTotal and stopSelf, which touch     *)
(* nothing of this module, are left out); an instance may have less than   *)
(* all executables.                                                        *)

Present(x) == IF x \in Executables THEN <<x>> ELSE <<>>

VpnKills == Present("sslocal") \o Present("sstunnel") \o Present("tun2socks") \o Present("pdnsd")
NatKills == Present("sslocal") \o Present("sstunnel") \o Present("redsocks") \o Present("pdnsd")
              \o <<"flush">>
VpnLaunches == Present("tun2socks") \o Present("sslocal") \o Present("pdnsd") \o Present("sstunnel")
NatLaunches == Present("sstunnel") \o Present("pdnsd") \o Present("redsocks") \o Present("sslocal")

KillOrder   == IF IsNat THEN NatKills ELSE VpnKills
LaunchOrder == IF IsNat THEN NatLaunches ELSE VpnLaunches

BaseStop == <<"receiver", "trafficMonitor", "stopped", "forget">>
VpnStop  == <<"vpnThread", "notification", "stopping">> \o KillOrder \o <<"conn">> \o BaseStop
NatStop  == <<"notification", "stopping">> \o KillOrder \o <<"su">> \o BaseStop
StopOrder == IF IsNat THEN NatStop ELSE VpnStop

(* The place after x, or the given one if x is the last.                   *)
After(method, order, x, otherwise) ==
  LET i == CHOOSE j \in DOMAIN order : order[j] = x
  IN  IF i = Len(order) THEN otherwise ELSE <<method, order[i + 1]>>

BeginStart   == <<"start", IF IsNat THEN "shell" ELSE "prepare">>
BeginConnect == <<"connect", IF IsNat THEN "request" ELSE "vpnThread">>
BeginKill    == <<"kill", Head(KillOrder)>>
BeginStop    == <<"stop", Head(StopOrder)>>
AfterKill    == <<"connect", IF IsNat THEN "resolve" ELSE "establish">>
AfterLaunch  == <<"connect", IF IsNat THEN "rules" ELSE "connected">>

(* Where a thread that is done with a place of stopRunner or killProcesses *)
(* goes on.                                                                *)
Onward(t) ==
  IF InStop(t) THEN After("stop", StopOrder, at[t][2], Idle)
               ELSE After("kill", KillOrder, at[t][2], AfterKill)

Go(t, place) ==
  /\ at' = [at EXCEPT ![t] = place]
  /\ phase' = [phase EXCEPT ![t] = "check"]

GoOn(t, place) == Go(t, place) /\ UNCHANGED <<next, crashed>>

Phase(t, p) ==
  /\ phase' = [phase EXCEPT ![t] = p]
  /\ UNCHANGED <<at, next, crashed>>

(* A starting thread is done with its profile.                             *)
Leave(t, place) ==
  /\ Go(t, place)
  /\ next' = IF t \in Starters THEN [next EXCEPT ![t] = NoProfile] ELSE next

(* Mutation: a connect() that fails does not stop what it has started.     *)
ThrowOnly(t) ==
  /\ Leave(t, Idle)
  /\ crashed' = (crashed \/ t \in Shells \cup {Main})

(* An exception ends use() on the binder thread and a stopRunner that the  *)
(* Future was already in; in connect the Future catches it and calls       *)
(* stopRunner; on the main thread and on that of a shell it is uncaught    *)
(* and ends the process.                                                   *)
Throw(t) ==
  /\ Leave(t, IF t \in Runs /\ ~InStop(t) THEN BeginStop ELSE Idle)
  /\ crashed' = (crashed \/ t \in Shells \cup {Main})

Post(s) == messages' = Append(messages, s)

BaseInit ==
  /\ state = "STOPPED" /\ profile = NoProfile
  /\ field = [r \in Resources |-> None]
  /\ live = [r \in Resources |-> {}]
  /\ notification = None /\ listening = {}
  /\ receiverFlag = FALSE /\ receiver = FALSE
  /\ messages = <<>>
  /\ at = [t \in Threads |-> Idle]
  /\ phase = [t \in Threads |-> "check"]
  /\ next = [t \in Starters |-> NoProfile] /\ runs = 0 /\ crashed = FALSE
  /\ uses = 0 /\ closes = 0
  /\ overlapped = FALSE /\ stopsOverlapped = FALSE /\ startedDirty = FALSE

-----------------------------------------------------------------------------
(* if (xProcess != null) { xProcess.destroy(); xProcess = null }, and the  *)
(* like for vpnThread, conn and trafficMonitorThread.  The field is read   *)
(* again for the call.                                                     *)

Releases(t, r) == r \in Resources /\ at[t] \in {<<"stop", r>>, <<"kill", r>>}

ReleaseCheck(t, r) ==
  /\ Releases(t, r) /\ phase[t] = "check"
  /\ IF field[r] = None THEN GoOn(t, Onward(t)) ELSE Phase(t, "call")
  /\ UNCHANGED <<fieldVars, displayVars, messages, runs>>

ReleaseCall(t, r) ==
  /\ Releases(t, r) /\ phase[t] = "call"
  /\ live' = [live EXCEPT ![r] = @ \ {field[r]}]
  /\ IF field[r] = None THEN Throw(t) ELSE Phase(t, "clear")
  /\ UNCHANGED <<state, profile, field, displayVars, messages, runs>>

(* Mutation: all the fields of the executables are cleared after the first *)
(* destroy().                                                              *)
ReleaseClearAll(t, r) ==
  /\ Releases(t, r) /\ phase[t] = "clear"
  /\ field' = [q \in Resources |-> IF q \in Executables \cup {r} THEN None ELSE field[q]]
  /\ GoOn(t, Onward(t))
  /\ UNCHANGED <<state, profile, live, displayVars, messages, runs>>

ReleaseClear(t, r) ==
  /\ Releases(t, r) /\ phase[t] = "clear"
  /\ field' = [field EXCEPT ![r] = None]
  /\ GoOn(t, Onward(t))
  /\ UNCHANGED <<state, profile, live, displayVars, messages, runs>>

Release(t) == \E r \in Resources : ReleaseCheck(t, r) \/ ReleaseCall(t, r) \/ ReleaseClear(t, r)

-----------------------------------------------------------------------------
(* The rest of stopRunner.                                                 *)

(* if (notification != null) notification.destroy(), which unregisters the *)
(* receiver of screen events if (lockReceiver != null), and throws when    *)
(* another stop was faster.                                                *)
StopNotificationCheck(t) ==
  /\ at[t] = <<"stop", "notification">> /\ phase[t] = "check"
  /\ IF notification \in listening THEN Phase(t, "call") ELSE GoOn(t, Onward(t))
  /\ UNCHANGED <<fieldVars, displayVars, messages, runs>>

StopNotificationCall(t) ==
  /\ at[t] = <<"stop", "notification">> /\ phase[t] = "call"
  /\ listening' = listening \ {notification}
  /\ IF notification \in listening THEN GoOn(t, Onward(t)) ELSE Throw(t)
  /\ UNCHANGED <<fieldVars, notification, receiverFlag, receiver, messages, runs>>

(* Mutations: STOPPED is posted at once; STOPPED is posted only while      *)
(* there is a profile to tell about.                                       *)
StopPostAtOnce(t) ==
  /\ at[t] \in {<<"stop", "stopping">>, <<"stop", "stopped">>}
  /\ Post("STOPPED")
  /\ GoOn(t, Onward(t))
  /\ UNCHANGED <<fieldVars, displayVars, runs>>

StopPostWithProfile(t) ==
  /\ at[t] \in {<<"stop", "stopping">>, <<"stop", "stopped">>}
  /\ \/ at[t][2] = "stopping" /\ Post("STOPPING")
     \/ at[t][2] = "stopped" /\ profile # NoProfile /\ Post("STOPPED")
     \/ at[t][2] = "stopped" /\ profile = NoProfile /\ UNCHANGED messages
  /\ GoOn(t, Onward(t))
  /\ UNCHANGED <<fieldVars, displayVars, runs>>

StopPost(t) ==
  /\ at[t] \in {<<"stop", "stopping">>, <<"stop", "stopped">>}
  /\ Post(IF at[t][2] = "stopping" THEN "STOPPING" ELSE "STOPPED")
  /\ GoOn(t, Onward(t))
  /\ UNCHANGED <<fieldVars, displayVars, runs>>

(* if (closeReceiverRegistered) { unregisterReceiver(closeReceiver);       *)
(* closeReceiverRegistered = false }                                       *)
StopReceiverCheck(t) ==
  /\ at[t] = <<"stop", "receiver">> /\ phase[t] = "check"
  /\ IF receiverFlag THEN Phase(t, "call") ELSE GoOn(t, Onward(t))
  /\ UNCHANGED <<fieldVars, displayVars, messages, runs>>

(* Unregistering a receiver that is not registered throws.                 *)
StopReceiverCall(t) ==
  /\ at[t] = <<"stop", "receiver">> /\ phase[t] = "call"
  /\ receiver' = FALSE
  /\ IF receiver THEN Phase(t, "clear") ELSE Throw(t)
  /\ UNCHANGED <<fieldVars, notification, listening, receiverFlag, messages, runs>>

(* Mutation: closeReceiverRegistered stays true.                           *)
StopReceiverKeepsFlag(t) ==
  /\ at[t] = <<"stop", "receiver">> /\ phase[t] = "clear"
  /\ GoOn(t, Onward(t))
  /\ UNCHANGED <<fieldVars, displayVars, messages, runs>>

StopReceiverClear(t) ==
  /\ at[t] = <<"stop", "receiver">> /\ phase[t] = "clear"
  /\ receiverFlag' = FALSE
  /\ GoOn(t, Onward(t))
  /\ UNCHANGED <<fieldVars, notification, listening, receiver, messages, runs>>

(* profile = null, and after stopRunner(false) use() goes on to start.     *)
StopForget(t) ==
  /\ at[t] = <<"stop", "forget">>
  /\ profile' = NoProfile
  /\ GoOn(t, IF t = Binder /\ next[t] # NoProfile THEN BeginStart ELSE Idle)
  /\ UNCHANGED <<state, field, live, displayVars, messages, runs>>

StopRunner(t) ==
  \/ Release(t) \/ StopPost(t) \/ StopForget(t)
  \/ StopNotificationCheck(t) \/ StopNotificationCall(t)
  \/ StopReceiverCheck(t) \/ StopReceiverCall(t) \/ StopReceiverClear(t)

-----------------------------------------------------------------------------
(* use(), on the binder thread.                                            *)

(* use(-1), and use of a profile that was deleted: stopRunner(true).       *)
UseStop ==
  /\ ~Active(Binder)
  /\ GoOn(Binder, BeginStop)
  /\ UNCHANGED <<fieldVars, displayVars, messages, runs>>

(* The field state is as old as the last message the main thread handled.  *)
UseProfile(p) ==
  /\ ~Active(Binder)
  /\ \/ /\ state = "STOPPED" /\ p \in Incomplete
        /\ GoOn(Binder, BeginStop)
     \/ /\ state = "STOPPED" /\ p \notin Incomplete
        /\ Go(Binder, BeginStart)
        /\ next' = [next EXCEPT ![Binder] = p] /\ UNCHANGED crashed
     \/ /\ state = "CONNECTED"
        /\ Go(Binder, <<"use", "switch">>)
        /\ next' = [next EXCEPT ![Binder] = p] /\ UNCHANGED crashed
     \/ /\ state \in {"CONNECTING", "STOPPING"}
        /\ UNCHANGED <<at, phase, next, crashed>>
  /\ UNCHANGED <<fieldVars, displayVars, messages, runs>>

(* if (profileId != BaseService.this.profile.id && checkProfile(profile))  *)
UseSwitch ==
  /\ at[Binder] = <<"use", "switch">>
  /\ \/ profile = NoProfile /\ Throw(Binder)
     \/ profile = next[Binder] /\ Leave(Binder, Idle) /\ UNCHANGED crashed
     \/ /\ profile \notin {next[Binder], NoProfile}
        /\ IF next[Binder] \in Incomplete
             THEN Leave(Binder, BeginStop) /\ UNCHANGED crashed
             ELSE GoOn(Binder, BeginStop)
  /\ UNCHANGED <<fieldVars, displayVars, messages, runs>>

-----------------------------------------------------------------------------
(* startRunner of the trait: on the binder thread in the VPN service, on   *)
(* the thread of the shell in the NAT service.                             *)

StartProfile(t) ==
  /\ at[t] = <<"start", "profile">>
  /\ profile' = next[t]
  /\ GoOn(t, <<"start", "trafficMonitor">>)
  /\ UNCHANGED <<state, field, live, displayVars, messages, runs>>

(* trafficMonitorThread = new TrafficMonitorThread; a thread that is       *)
(* stopped before it starts ends at once, so that it is at work from here. *)
StartTrafficMonitor(t) ==
  /\ at[t] = <<"start", "trafficMonitor">>
  /\ field' = [field EXCEPT !["trafficMonitor"] = runs + 1]
  /\ live' = [live EXCEPT !["trafficMonitor"] = @ \cup {runs + 1}]
  /\ GoOn(t, <<"start", "run">>)
  /\ UNCHANGED <<state, profile, displayVars, messages, runs>>

(* trafficMonitorThread.start()                                            *)
StartTrafficMonitorRun(t) ==
  /\ at[t] = <<"start", "run">>
  /\ IF field["trafficMonitor"] = None THEN Throw(t) ELSE GoOn(t, <<"start", "receiver">>)
  /\ UNCHANGED <<fieldVars, displayVars, messages, runs>>

(* if (!closeReceiverRegistered) { registerReceiver(...);                  *)
(* closeReceiverRegistered = true }                                        *)
StartReceiverCheck(t) ==
  /\ at[t] = <<"start", "receiver">> /\ phase[t] = "check"
  /\ IF receiverFlag THEN GoOn(t, <<"start", "connecting">>) ELSE Phase(t, "call")
  /\ UNCHANGED <<fieldVars, displayVars, messages, runs>>

StartReceiverCall(t) ==
  /\ at[t] = <<"start", "receiver">> /\ phase[t] = "call"
  /\ receiver' = TRUE
  /\ Phase(t, "set")
  /\ UNCHANGED <<fieldVars, notification, listening, receiverFlag, messages, runs>>

StartReceiverSet(t) ==
  /\ at[t] = <<"start", "receiver">> /\ phase[t] = "set"
  /\ receiverFlag' = TRUE
  /\ GoOn(t, <<"start", "connecting">>)
  /\ UNCHANGED <<fieldVars, notification, listening, receiver, messages, runs>>

StartPost(t) ==
  /\ at[t] = <<"start", "connecting">>
  /\ Post("CONNECTING")
  /\ GoOn(t, <<"start", "future">>)
  /\ UNCHANGED <<fieldVars, displayVars, runs>>

(* Utils.ThrowableFuture(try connect catch ...), and startRunner returns.  *)
StartFuture(t) ==
  /\ at[t] = <<"start", "future">>
  /\ runs' = runs + 1
  /\ at' = [at EXCEPT ![t] = Idle, ![runs + 1] = BeginConnect]
  /\ next' = [next EXCEPT ![t] = NoProfile]
  /\ UNCHANGED <<fieldVars, displayVars, messages, phase, crashed>>

StartRunner(t) ==
  \/ StartProfile(t) \/ StartTrafficMonitor(t) \/ StartTrafficMonitorRun(t)
  \/ StartReceiverCheck(t) \/ StartReceiverCall(t) \/ StartReceiverSet(t)
  \/ StartPost(t) \/ StartFuture(t)

-----------------------------------------------------------------------------
(* What connect() of the two services has in common, on the thread of the  *)
(* Future of run c.                                                        *)

Reads(place) ==
  place[1] = "launch" \/ place[2] \in {"vpnThread", "establish", "request", "resolve", "rules", "notify"}
    \/ (IsNat /\ place[2] = "connected")
MayFail(place) ==
  place[1] = "launch" \/ place[2] \in {"vpnThread", "establish", "request", "resolve", "rules"}

(* profile.host, profile.udpdns, ...: with udpdns ss-local relays DNS, and *)
(* pdnsd is passed over.                                                   *)
ConnectRead(c) ==
  /\ at[c][1] \in {"connect", "launch"} /\ Reads(at[c]) /\ phase[c] = "check"
  /\ \/ profile = NoProfile /\ Throw(c)
     \/ /\ profile # NoProfile
        /\ IF at[c] = <<"launch", "pdnsd">> /\ profile \in UdpDns
             THEN GoOn(c, After("launch", LaunchOrder, "pdnsd", AfterLaunch))
             ELSE Phase(c, "call")
  /\ UNCHANGED <<fieldVars, displayVars, messages, runs>>

(* A place of connect() is reached, its reads done.                        *)
Reached(c, place) == at[c] = place /\ phase[c] = (IF Reads(place) THEN "call" ELSE "check")

(* What fails on its own account: the request for a public server, the     *)
(* lookup of the host, establish, the launch of an executable, sendFd.     *)
ConnectFails(c) ==
  /\ MayFail(at[c]) /\ Reached(c, at[c]) /\ at[c][1] \in {"connect", "launch"}
  /\ Throw(c)
  /\ UNCHANGED <<fieldVars, displayVars, messages, runs>>

(* new GuardedProcess(cmd).start(): the guard works before the field       *)
(* refers to it.                                                           *)
ConnectLaunch(c) ==
  /\ at[c][1] = "launch" /\ Reached(c, at[c])
  /\ live' = [live EXCEPT ![at[c][2]] = @ \cup {c}]
  /\ GoOn(c, <<"store", at[c][2]>>)
  /\ UNCHANGED <<state, profile, field, displayVars, messages, runs>>

(* Mutation: a connect() whose profile is gone does not store the guard.   *)
ConnectStoreWithProfile(c) ==
  /\ at[c][1] = "store"
  /\ field' = IF profile = NoProfile THEN field ELSE [field EXCEPT ![at[c][2]] = c]
  /\ GoOn(c, After("launch", LaunchOrder, at[c][2], AfterLaunch))
  /\ UNCHANGED <<state, profile, live, displayVars, messages, runs>>

(* xProcess = ..., then the next executable.                               *)
ConnectStore(c) ==
  /\ at[c][1] = "store"
  /\ field' = [field EXCEPT ![at[c][2]] = c]
  /\ GoOn(c, After("launch", LaunchOrder, at[c][2], AfterLaunch))
  /\ UNCHANGED <<state, profile, live, displayVars, messages, runs>>

ConnectPost(c) ==
  /\ Reached(c, <<"connect", "connected">>)
  /\ Post("CONNECTED")
  /\ GoOn(c, <<"connect", "notify">>)
  /\ UNCHANGED <<fieldVars, displayVars, runs>>

(* notification = new ShadowsocksNotification(this, profile.name), which   *)
(* listens before the field refers to it.                                  *)
ConnectNotify(c) ==
  /\ Reached(c, <<"connect", "notify">>)
  /\ listening' = listening \cup {c}
  /\ GoOn(c, <<"connect", "assign">>)
  /\ UNCHANGED <<fieldVars, notification, receiverFlag, receiver, messages, runs>>

ConnectAssign(c) ==
  /\ at[c] = <<"connect", "assign">>
  /\ notification' = c
  /\ GoOn(c, Idle)
  /\ UNCHANGED <<fieldVars, listening, receiverFlag, receiver, messages, runs>>

Connect(c) ==
  \/ ConnectRead(c) \/ ConnectFails(c) \/ ConnectLaunch(c) \/ ConnectStore(c)
  \/ ConnectPost(c) \/ ConnectNotify(c) \/ ConnectAssign(c)

-----------------------------------------------------------------------------
(* The main thread.                                                        *)

(* A message of changeState: the field is set, whether or not it changes.  *)
HandleMessage ==
  /\ ~Active(Main) /\ messages # <<>>
  /\ state' = Head(messages)
  /\ messages' = Tail(messages)
  /\ UNCHANGED <<profile, field, live, displayVars, threadVars>>

(* The CLOSE broadcast, which only a registered receiver gets.             *)
Close ==
  /\ ~Active(Main) /\ receiver
  /\ GoOn(Main, BeginStop)
  /\ UNCHANGED <<fieldVars, displayVars, messages, runs>>

(* What a thread may do next in the code of the trait.                     *)
BaseStep(t) ==
  \/ StopRunner(t)
  \/ t = Binder /\ UseSwitch
  \/ t \in Starters /\ StartRunner(t)
  \/ t \in Runs /\ Connect(t)
  \/ t = Main /\ HandleMessage

Use == UseStop \/ \E p \in Profiles : UseProfile(p)

-----------------------------------------------------------------------------
(* History and bounds, for the specifications of the two services.         *)

StopsOverlap == \E t, u \in Threads : t # u /\ InStop(t) /\ InStop(u)

(* Nothing is left of earlier runs, and no other thread is at work.        *)
Clean(t) ==
  /\ \A r \in Resources : field[r] = None /\ live[r] = {}
  /\ listening = {} /\ messages = <<>>
  /\ \A u \in Threads \ {t} : ~Active(u)

History ==
  /\ stopsOverlapped' = (stopsOverlapped \/ StopsOverlap')
  /\ startedDirty' = (startedDirty \/ \E t \in Starters : at'[t] = <<"start", "profile">> /\ ~Clean(t))

NoRequest == History /\ UNCHANGED <<uses, closes, overlapped>>

CountOverlap ==
  /\ overlapped' = (overlapped \/ ~Quiet) /\ History
  /\ overlapped' => uses + closes < MaxOverlapping

CountUse ==
  /\ uses < MaxUses /\ uses' = uses + 1 /\ UNCHANGED closes
  /\ CountOverlap

CountClose ==
  /\ closes < MaxCloses /\ closes' = closes + 1 /\ UNCHANGED uses
  /\ CountOverlap

-----------------------------------------------------------------------------
(* Properties of both services.                                            *)

States == {"CONNECTING", "CONNECTED", "STOPPING", "STOPPED"}

Places ==
  {Idle, <<"use", "switch">>}
    \cup {<<"start", x>> : x \in {"prepare", "shell", "su", "result", "failed", "profile",
                                  "trafficMonitor", "run", "receiver", "connecting", "future"}}
    \cup {<<"stop", StopOrder[i]>> : i \in DOMAIN StopOrder}
    \cup {<<"kill", KillOrder[i]>> : i \in DOMAIN KillOrder}
    \cup {<<"connect", x>> : x \in {"request", "vpnThread", "run", "establish", "fd", "resolve",
                                    "rules", "connected", "notify", "assign"}}
    \cup {<<m, x>> : m \in {"launch", "store"}, x \in Executables}

(* Every variable has a value of its type.                                 *)
BaseTypeOK ==
  /\ state \in States
  /\ profile \in Profiles \cup {NoProfile}
  /\ next \in [Starters -> Profiles \cup {NoProfile}]
  /\ field \in [Resources -> Runs \cup {None}]
  /\ live \in [Resources -> SUBSET Runs]
  /\ notification \in Runs \cup {None} /\ listening \subseteq Runs
  /\ messages \in Seq(States)
  /\ at \in [Threads -> Places]
  /\ phase \in [Threads -> {"check", "call", "clear", "set"}]
  /\ runs \in Runs \cup {0} /\ uses \in 0..MaxUses /\ closes \in 0..MaxCloses
  /\ {receiverFlag, receiver, crashed} \subseteq BOOLEAN
  /\ {overlapped, stopsOverlapped, startedDirty} \subseteq BOOLEAN

(* What the run needs: no pdnsd when ss-local relays DNS.                  *)
Needed == IF profile \in UdpDns THEN Resources \ {"pdnsd"} ELSE Resources

NothingLeft ==
  /\ profile = NoProfile
  /\ \A r \in Resources : field[r] = None /\ live[r] = {}
  /\ listening = {} /\ ~receiverFlag /\ ~receiver

EverythingWorks ==
  /\ profile # NoProfile
  /\ \A r \in Needed : field[r] = runs /\ live[r] = {runs}
  /\ \A r \in Resources \ Needed : field[r] = None /\ live[r] = {}
  /\ notification = runs /\ listening = {runs} /\ receiverFlag /\ receiver

(* However stops race with connect() and with each other, the service      *)
(* keeps track of what is at work: a guard, a thread or a tunnel that some *)
(* stop missed is still in its field, or its connect() is about to store   *)
(* it, and the next stop gets it, provided that no run started before the  *)
(* last one was gone.                                                      *)
NothingLost ==
  ~startedDirty =>
    \A r \in Resources : \A c \in live[r] : field[r] = c \/ at[c] = <<"store", r>>

(* The state that clients are told goes round in one direction, with the   *)
(* only shortcut of a stop that comes before the connection is made, as    *)
(* long as requests are worked off one at a time.                          *)
PublishedOrder ==
  [][overlapped \/ <<state, state'>> \in
       {<<s, s>> : s \in States}
         \cup {<<"STOPPED", "CONNECTING">>, <<"CONNECTING", "CONNECTED">>,
               <<"CONNECTING", "STOPPING">>, <<"CONNECTED", "STOPPING">>,
               <<"STOPPED", "STOPPING">>, <<"STOPPING", "STOPPED">>}]_state

(* CONNECTING does not last: whatever fails in connect(), and whatever     *)
(* stops it meanwhile, it is CONNECTED or STOPPED in the end.              *)
ConnectingEnds == (state = "CONNECTING") ~> (state \in {"CONNECTED", "STOPPED"} \/ crashed)

(* STOPPING does not last, even if stops overlap and some of them are      *)
(* ended by exceptions: one of them gets to the end.                       *)
StoppingEnds == (state = "STOPPING") ~> (state = "STOPPED" \/ crashed)

=============================================================================
