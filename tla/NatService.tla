----------------------------- MODULE NatService -----------------------------
(***************************************************************************)
(* ShadowsocksNatService.scala: BaseService with a root shell (su) through *)
(* which the iptables rules are set and flushed, and four executables, of  *)
(* which redsocks gets the traffic that the rules redirect.                *)
(*                                                                         *)
(* The shell is a library outside the repository: open() returns, and      *)
(* later, or already before, its listener is called on another thread with *)
(* the result.  A command given to a shell that is not root, or that was   *)
(* closed, does nothing; close() waits for the commands given before it.   *)
(***************************************************************************)
EXTENDS BaseService

ASSUME NatAssumption == IsNat /\ "redsocks" \in Executables

VARIABLES
  su,       (* the field su: the number of a shell                         *)
  shells,   (* number of shells opened so far                              *)
  rooted,   (* the shells that are open and root                           *)
  rules,    (* the rules that redirect the traffic to redsocks are set     *)
  bareStop  (* history: a stop found no shell                              *)

natVars == <<su, shells, rooted, rules, bareStop>>
vars == <<baseVars, natVars>>

Init ==
  /\ BaseInit
  /\ su = None /\ shells = 0 /\ rooted = {} /\ rules = FALSE
  /\ bareStop = FALSE

-----------------------------------------------------------------------------
(* startRunner: if (su == null) su = ... open(...); if there is a shell    *)
(* nothing happens.                                                        *)
OpenShell ==
  /\ at[Binder] = <<"start", "shell">>
  /\ IF su # None
       THEN Leave(Binder, Idle) /\ UNCHANGED shells
       ELSE /\ shells' = shells + 1
            /\ at' = [at EXCEPT ![Binder] = <<"start", "su">>,
                                ![Shell(shells + 1)] = <<"start", "result">>]
            /\ next' = [next EXCEPT ![Binder] = NoProfile, ![Shell(shells + 1)] = next[Binder]]
            /\ UNCHANGED phase
  /\ UNCHANGED <<fieldVars, displayVars, messages, runs, crashed, su, rooted, rules, bareStop>>

(* su = ..., which open() has returned.                                    *)
StoreShell ==
  /\ at[Binder] = <<"start", "su">>
  /\ su' = shells
  /\ GoOn(Binder, Idle)
  /\ UNCHANGED <<fieldVars, displayVars, messages, runs, shells, rooted, rules, bareStop>>

(* if (exitCode == 0) super.startRunner(profile) else ...                  *)
ShellResult(k) ==
  /\ at[Shell(k)] = <<"start", "result">>
  /\ \/ GoOn(Shell(k), <<"start", "profile">>) /\ rooted' = rooted \cup {k}
     \/ GoOn(Shell(k), <<"start", "failed">>) /\ UNCHANGED rooted
  /\ UNCHANGED <<fieldVars, displayVars, messages, runs, su, shells, rules, bareStop>>

(* su.close(); su = null, which stopRunner does, too: su is read again for *)
(* the call.                                                               *)
CloseCall(t) ==
  /\ IF su = None THEN Throw(t) ELSE Phase(t, "clear")
  /\ rooted' = rooted \ {su}
  /\ UNCHANGED <<fieldVars, displayVars, messages, runs, su, shells, rules, bareStop>>

(* if (su != null) { su.close(); su = null }; super.stopRunner(true, ...)  *)
ShellFailed(t) ==
  /\ at[t] = <<"start", "failed">>
  /\ \/ /\ phase[t] = "check" /\ su = None
        /\ Leave(t, <<"stop", Head(BaseStop)>>)
        /\ UNCHANGED <<fieldVars, displayVars, messages, runs, crashed, natVars>>
     \/ /\ phase[t] = "check" /\ su # None /\ Phase(t, "call")
        /\ UNCHANGED <<fieldVars, displayVars, messages, runs, natVars>>
     \/ phase[t] = "call" /\ CloseCall(t)
     \/ /\ phase[t] = "clear" /\ su' = None
        /\ Leave(t, <<"stop", Head(BaseStop)>>)
        /\ UNCHANGED <<fieldVars, displayVars, messages, runs, crashed, shells, rooted, rules, bareStop>>

-----------------------------------------------------------------------------
(* The end of killProcesses: su.addCommand("iptables -t nat -F OUTPUT").   *)
Flush(t) ==
  /\ at[t] \in {<<"stop", "flush">>, <<"kill", "flush">>}
  /\ IF su = None THEN Throw(t) ELSE GoOn(t, Onward(t))
  /\ rules' = (rules /\ su \notin rooted)
  /\ bareStop' = (bareStop \/ su = None)
  /\ UNCHANGED <<fieldVars, displayVars, messages, runs, su, shells, rooted>>

(* Mutation: the field is cleared but the shell is not closed.             *)
StopShellLeaks(t) ==
  /\ at[t] = <<"stop", "su">>
  /\ su' = None
  /\ GoOn(t, Onward(t))
  /\ UNCHANGED <<fieldVars, displayVars, messages, runs, shells, rooted, rules, bareStop>>

(* su.close(); su = null                                                   *)
StopShell(t) ==
  /\ at[t] = <<"stop", "su">>
  /\ \/ phase[t] = "check" /\ CloseCall(t)
     \/ /\ phase[t] = "clear" /\ su' = None
        /\ GoOn(t, Onward(t))
        /\ UNCHANGED <<fieldVars, displayVars, messages, runs, shells, rooted, rules, bareStop>>

(* super.connect(), then killProcesses()                                   *)
ConnectRequest(c) ==
  /\ Reached(c, <<"connect", "request">>)
  /\ GoOn(c, BeginKill)
  /\ UNCHANGED <<fieldVars, displayVars, messages, runs, natVars>>

(* host_arg = profile.host, ..., then handleConnection()                   *)
ConnectResolve(c) ==
  /\ Reached(c, <<"connect", "resolve">>)
  /\ GoOn(c, <<"launch", Head(LaunchOrder)>>)
  /\ UNCHANGED <<fieldVars, displayVars, messages, runs, natVars>>

(* setupIptables: su.addCommand((init_sb ++ http_sb).toArray)              *)
ConnectRules(c) ==
  /\ Reached(c, <<"connect", "rules">>)
  /\ IF su = None THEN Throw(c) ELSE GoOn(c, <<"connect", "connected">>)
  /\ rules' = (rules \/ su \in rooted)
  /\ UNCHANGED <<fieldVars, displayVars, messages, runs, su, shells, rooted, bareStop>>

-----------------------------------------------------------------------------
ThreadStep(t) ==
  /\ ~crashed
  /\ \/ BaseStep(t) /\ UNCHANGED natVars
     \/ t = Binder /\ (OpenShell \/ StoreShell)
     \/ t \in Shells /\ ShellFailed(t)
     \/ \E k \in 1..MaxUses : t = Shell(k) /\ ShellResult(k)
     \/ Flush(t) \/ StopShell(t)
     \/ t \in Runs /\ (ConnectRequest(t) \/ ConnectResolve(t) \/ ConnectRules(t))
  /\ NoRequest

Request == ~crashed /\ ((Use /\ CountUse) \/ (Close /\ CountClose)) /\ UNCHANGED natVars

Next == Request \/ \E t \in Threads : ThreadStep(t)

Spec == Init /\ [][Next]_vars

(* Every thread goes on, as in VpnService.                                 *)
FairSpec == Spec /\ \A t \in Threads : WF_vars(ThreadStep(t))

-----------------------------------------------------------------------------
(* Properties, besides those of BaseService.                               *)

(* Every variable has a value of its type.                                 *)
NatTypeOK ==
  /\ BaseTypeOK
  /\ su \in Runs \cup {None} /\ shells \in Runs \cup {0} /\ rooted \subseteq Runs
  /\ {rules, bareStop} \subseteq BOOLEAN

(* The variables have values of their types and:                           *)
(* when requests are worked off one at a time, and none of them is a stop  *)
(* without a shell, the rules are set exactly while the service rests      *)
(* CONNECTED, with redsocks and all the others at work and the one root    *)
(* shell at hand to flush them, and nothing is left when it rests STOPPED: *)
(* otherwise the device would send its traffic to a port where nobody      *)
(* listens.  No thread has ended the process by then.                      *)
RulesFollow ==
  /\ NatTypeOK
  /\ Quiet /\ ~overlapped /\ ~bareStop =>
       /\ ~crashed
       /\ \/ state = "STOPPED" /\ NothingLeft /\ ~rules /\ rooted = {}
          \/ state = "CONNECTED" /\ EverythingWorks /\ rules /\ rooted = {su}

(* Neither CONNECTING nor STOPPING lasts, whatever fails and however       *)
(* requests overlap, unless a stop finds no shell and is ended by that.    *)
Settles ==
  (state \in {"CONNECTING", "STOPPING"})
    ~> (state \in {"CONNECTED", "STOPPED"} \/ crashed \/ bareStop)

=============================================================================
