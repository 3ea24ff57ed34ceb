----------------------------- MODULE VpnService -----------------------------
(***************************************************************************)
(* ShadowsocksVpnService.scala: BaseService with a tunnel (conn), a thread *)
(* that protects the sockets of the executables (vpnThread), and four      *)
(* executables, of which tun2socks gets the descriptor of the tunnel.      *)
(***************************************************************************)
EXTENDS BaseService

ASSUME VpnAssumption == ~IsNat

vars == baseVars

(* VpnService.prepare: without the consent of the user the activity that   *)
(* asks for it is started and the service stops.                           *)
StartPrepare ==
  /\ at[Binder] = <<"start", "prepare">>
  /\ \/ GoOn(Binder, <<"start", "profile">>)
     \/ Leave(Binder, BeginStop) /\ UNCHANGED crashed
  /\ UNCHANGED <<fieldVars, displayVars, messages, runs>>

ConnectVpnThread(c) ==
  /\ Reached(c, <<"connect", "vpnThread">>)
  /\ field' = [field EXCEPT !["vpnThread"] = c]
  /\ live' = [live EXCEPT !["vpnThread"] = @ \cup {c}]
  /\ GoOn(c, <<"connect", "run">>)
  /\ UNCHANGED <<state, profile, displayVars, messages, runs>>

(* vpnThread.start(), then killProcesses()                                 *)
ConnectVpnThreadRun(c) ==
  /\ at[c] = <<"connect", "run">>
  /\ IF field["vpnThread"] = None THEN Throw(c) ELSE GoOn(c, BeginKill)
  /\ UNCHANGED <<fieldVars, displayVars, messages, runs>>

(* conn = builder.establish(), which is null when the consent is gone.     *)
ConnectEstablish(c) ==
  /\ Reached(c, <<"connect", "establish">>)
  /\ \/ /\ field' = [field EXCEPT !["conn"] = c]
        /\ live' = [live EXCEPT !["conn"] = @ \cup {c}]
     \/ field' = [field EXCEPT !["conn"] = None] /\ UNCHANGED live
  /\ GoOn(c, <<"connect", "fd">>)
  /\ UNCHANGED <<state, profile, displayVars, messages, runs>>

(* if (conn == null) throw ...; val fd = conn.getFd                        *)
ConnectFd(c) ==
  /\ at[c] = <<"connect", "fd">>
  /\ IF field["conn"] = None THEN Throw(c) ELSE GoOn(c, <<"launch", Head(LaunchOrder)>>)
  /\ UNCHANGED <<fieldVars, displayVars, messages, runs>>

(* onRevoke: the user gave the VPN to another application.                 *)
Revoke ==
  /\ ~Active(Main) /\ live["conn"] # {}
  /\ GoOn(Main, BeginStop)
  /\ UNCHANGED <<fieldVars, displayVars, messages, runs>>

-----------------------------------------------------------------------------
ThreadStep(t) ==
  /\ ~crashed
  /\ \/ BaseStep(t)
     \/ t = Binder /\ StartPrepare
     \/ /\ t \in Runs
        /\ \/ ConnectVpnThread(t) \/ ConnectVpnThreadRun(t)
           \/ ConnectEstablish(t) \/ ConnectFd(t)
  /\ NoRequest

Request == ~crashed /\ ((Use /\ CountUse) \/ ((Close \/ Revoke) /\ CountClose))

Next == Request \/ \E t \in Threads : ThreadStep(t)

Spec == BaseInit /\ [][Next]_vars

(* Every thread goes on: the lookups and requests of connect have          *)
(* timeouts, sendFd and destroy() end.  Nobody is obliged to ask for       *)
(* anything.                                                               *)
FairSpec == Spec /\ \A t \in Threads : WF_vars(ThreadStep(t))

-----------------------------------------------------------------------------
(* Properties, besides those of BaseService.                               *)

(* When requests are worked off one at a time, what is published is what   *)
(* is true as soon as the service comes to rest, whichever step of         *)
(* connect() failed: STOPPED means that nothing of any run is left,        *)
(* CONNECTED that everything of the last run works and can be stopped, and *)
(* the service never rests in between, nor has its process ended.  Every   *)
(* variable has a value of its type.                                       *)
Consistent ==
  /\ BaseTypeOK
  /\ Quiet /\ ~overlapped =>
       /\ ~crashed
       /\ \/ state = "STOPPED" /\ NothingLeft
          \/ state = "CONNECTED" /\ EverythingWorks

(* An exception on the main thread, which takes the whole process down,    *)
(* needs two threads in stopRunner() at once, or a run that started before *)
(* the last one was gone: one stop racing with connect() is not enough.    *)
CrashNeedsTwoStops == crashed => stopsOverlapped \/ startedDirty

=============================================================================
