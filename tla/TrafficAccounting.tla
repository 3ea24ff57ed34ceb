------------------------- MODULE TrafficAccounting -------------------------
(***************************************************************************)
(* How the bytes that ss-local carries are counted and added to the        *)
(* profile (utils/TrafficMonitor.scala, utils/TrafficMonitorThread.scala,  *)
(* startRunner, stopRunner and updateTrafficTotal of BaseService.scala).   *)
(*                                                                         *)
(* ss-local reports the bytes since it was launched through the socket     *)
(* stat_path, which a TrafficMonitorThread serves; a pool of one thread    *)
(* per server hands the reports to TrafficMonitor.  A stop adds the total  *)
(* to the row of the profile, which the main process edits by writing      *)
(* whole rows.  Nothing of this is locked.                                 *)
(*                                                                         *)
(* One direction of the two is modelled, without the rates, which are only *)
(* shown.  Starts do not overlap each other and ss-local is launched and   *)
(* killed in its session: how those interleave is in BaseService.          *)
(***************************************************************************)
EXTENDS Integers, Sequences

CONSTANTS
  Profiles,    (* the ids of the rows                                      *)
  NoProfile,
  MaxUses,     (* bound: sessions                                          *)
  MaxStops,    (* bound: calls of stopRunner                               *)
  MaxBytes,    (* bound: bytes of one session                              *)
  MaxReports,  (* bound: reports of ss-local                               *)
  MaxLaunches, (* bound: launches of ss-local in one session               *)
  MaxEvents    (* bound: edits and ends of ss-local                        *)

ASSUME ProfilesAssumption == NoProfile \notin Profiles
ASSUME BoundsAssumption ==
  {MaxUses, MaxStops, MaxBytes, MaxReports, MaxLaunches, MaxEvents} \subseteq Nat

Sessions == 1..MaxUses
Stops == 1..MaxStops
Launches == 1..MaxLaunches
None == 0
Dead == -1

VARIABLES
  txTotal,    (* of TrafficMonitor                                         *)
  profile,    (* the field: a row as it was read by use()                  *)
  trafficMonitorThread, (* the field: the session of a thread, or None     *)
  starting,   (* the place of startRunner                                  *)
  stopping,   (* place and locals of each call of stopRunner               *)
  up,         (* use() sees another state than STOPPED                     *)
  server,     (* the TrafficMonitorThread of each session: "none", "new",  *)
              (* "stopped" before its bind, "bound", "closed" or "ended"   *)
  path,       (* whose socket stat_path is, or None                        *)
  reported,   (* what waits for the pool of each server                    *)
  sslocal,    (* the bytes it has carried, or Dead                         *)
  rows,       (* the table of profiles                                     *)
  edit        (* the row that the main process works on                    *)

VARIABLES
  uses, stops, reports, events, (* history, bounded                        *)
  owner,      (* history: the profile of the last session                  *)
  carried,    (* history: bytes carried under each profile                 *)
  session,    (* history: those of the last session                        *)
  launch,     (* history: the last launch of ss-local in the session       *)
  told,       (* history: the bytes that each launch of the session has    *)
              (* reported in time                                          *)
  applied,    (* history: bytes reported in time, for each profile: what   *)
              (* all launches of its sessions have told                    *)
  setBack,    (* history: a report was handled that leaves out what was    *)
              (* told before: it is of another launch, or an older one     *)
  named,      (* history: the last name given to each profile              *)
  mixed,      (* history: a report of an earlier session was applied, or a *)
              (* stop overlapped another one or a start                    *)
  lost,       (* history: a row could not be read or written by a stop, or *)
              (* was written back by the main process with an older total  *)
  raced       (* history: a row was edited between the two halves of +=    *)

serviceVars == <<profile, starting, stopping, up, trafficMonitorThread>>
serverVars == <<server, path, reported>>
editVars == <<edit, named, raced>>
toldVars == <<told, applied, setBack>>
countVars == <<owner, carried, session, launch, toldVars, mixed, lost>>
boundVars == <<uses, stops, reports, events>>
vars == <<txTotal, serviceVars, serverVars, sslocal, rows, editVars,
          countVars, boundVars>>

At(t, place) == stopping[t].at = place
NotStopping == [at |-> "idle", sum |-> 0, id |-> NoProfile]
NothingTold == [l \in Launches |-> 0]

Init ==
  /\ txTotal = 0
  /\ profile = [id |-> NoProfile]
  /\ starting = "no" /\ stopping = [t \in Stops |-> NotStopping] /\ up = FALSE
  /\ trafficMonitorThread = None
  /\ server = [k \in Sessions |-> "none"] /\ path = None
  /\ reported = [k \in Sessions |-> <<>>]
  /\ sslocal = Dead
  /\ rows = [p \in Profiles |-> [name |-> 0, tx |-> 0]]
  /\ edit = [id |-> NoProfile] /\ named = [p \in Profiles |-> 0]
  /\ uses = 0 /\ stops = 0 /\ reports = 0 /\ events = 0
  /\ owner = NoProfile /\ session = 0 /\ launch = 0 /\ told = NothingTold
  /\ carried = [p \in Profiles |-> 0] /\ applied = [p \in Profiles |-> 0]
  /\ setBack = FALSE /\ mixed = FALSE /\ lost = FALSE /\ raced = FALSE

-----------------------------------------------------------------------------
(* use() of a service that is stopped: this.profile = profile              *)
Use(p) ==
  /\ ~up /\ starting = "no" /\ uses < MaxUses
  /\ uses' = uses + 1
  /\ profile' = [id |-> p, row |-> rows[p]]
  /\ starting' = "reset" /\ up' = TRUE
  /\ owner' = p /\ session' = 0 /\ launch' = 0 /\ told' = NothingTold
  /\ mixed' = (mixed \/ \E t \in Stops : ~At(t, "idle"))
  /\ UNCHANGED <<txTotal, stopping, trafficMonitorThread, serverVars, sslocal, rows,
                 editVars, carried, applied, setBack, lost, stops, reports, events>>

(* Mutation: only a stop resets the total.                                 *)
StartResetNot ==
  /\ starting = "reset" /\ starting' = "thread"
  /\ UNCHANGED <<txTotal, profile, stopping, up, trafficMonitorThread, serverVars, sslocal,
                 rows, editVars, countVars, boundVars>>

(* TrafficMonitor.reset()                                                  *)
StartReset ==
  /\ starting = "reset" /\ starting' = "thread"
  /\ txTotal' = 0
  /\ UNCHANGED <<profile, stopping, up, trafficMonitorThread, serverVars, sslocal, rows, editVars,
                 countVars, boundVars>>

(* trafficMonitorThread = new TrafficMonitorThread(...); .start()          *)
StartThread ==
  /\ starting = "thread" /\ starting' = "no"
  /\ trafficMonitorThread' = uses
  /\ server' = [server EXCEPT ![uses] = "new"]
  /\ UNCHANGED <<txTotal, profile, stopping, up, path, reported, sslocal, rows,
                 editVars, countVars, boundVars>>

-----------------------------------------------------------------------------
(* ss-local                                                                *)

(* connect() launches it, and its guard does so again after it has died.   *)
Launch ==
  /\ sslocal = Dead /\ up /\ starting = "no" /\ \A t \in Stops : At(t, "idle")
  /\ launch < MaxLaunches
  /\ launch' = launch + 1
  /\ sslocal' = 0
  /\ UNCHANGED <<txTotal, serviceVars, serverVars, rows, editVars, owner, carried, session,
                 toldVars, mixed, lost, boundVars>>

Die ==
  /\ sslocal # Dead /\ events < MaxEvents
  /\ events' = events + 1
  /\ sslocal' = Dead
  /\ UNCHANGED <<txTotal, serviceVars, serverVars, rows, editVars, countVars,
                 uses, stops, reports>>

Carry ==
  /\ sslocal # Dead /\ session < MaxBytes
  /\ sslocal' = sslocal + 1
  /\ session' = session + 1
  /\ carried' = [carried EXCEPT ![owner] = @ + 1]
  /\ UNCHANGED <<txTotal, serviceVars, serverVars, rows, editVars, owner,
                 launch, toldVars, mixed, lost, boundVars>>

(* stat_update_cb, send_traffic_stat: a connection to stat_path, if there  *)
(* is a server.  The answer is waited for for a second at most.            *)
Report ==
  /\ sslocal # Dead /\ path # None /\ reports < MaxReports
  /\ reports' = reports + 1
  /\ reported' = [reported EXCEPT ![path] =
                    Append(@, [session |-> uses, launch |-> launch, tx |-> sslocal])]
  /\ UNCHANGED <<txTotal, serviceVars, server, path, sslocal, rows, editVars,
                 countVars, uses, stops, events>>

-----------------------------------------------------------------------------
(* TrafficMonitorThread                                                    *)

(* new File(PATH).delete() and the bind, or "unable to bind".  A thread    *)
(* that was stopped before leaves a socket behind that nobody serves.      *)
Bind(k) ==
  /\ server[k] \in {"new", "stopped"}
  /\ \/ /\ path' = k
        /\ server' = [server EXCEPT ![k] = IF @ = "new" THEN "bound" ELSE "ended"]
     \/ path' = None /\ server' = [server EXCEPT ![k] = "ended"]
  /\ UNCHANGED <<txTotal, serviceVars, reported, sslocal, rows, editVars, countVars, boundVars>>

(* The session goes on and no stop has read the total.                     *)
InTime ==
  /\ up /\ starting = "no"
  /\ \A t \in Stops : stopping[t].at \in {"idle", "kill", "sum"}

(* History: a report of the session is counted against what its launch has *)
(* reported before, whatever TrafficMonitor makes of it.                   *)
Count(report) ==
  /\ told' = [told EXCEPT ![report.launch] = IF report.tx > @ THEN report.tx ELSE @]
  /\ applied' = [applied EXCEPT ![owner] =
                   @ + told'[report.launch] - told[report.launch]]
  /\ setBack' = \/ setBack
                \/ report.tx < told[report.launch]
                \/ \E l \in Launches \ {report.launch} : told[l] > 0

(* The pool: TrafficMonitor.update(tx, rx)                                 *)
Update(k) ==
  /\ reported[k] # <<>> /\ server[k] \in {"bound", "closed"}
  /\ reported' = [reported EXCEPT ![k] = Tail(@)]
  /\ LET report == Head(reported[k]) IN
       /\ txTotal' = report.tx
       /\ mixed' = (mixed \/ report.session # uses)
       /\ IF InTime /\ report.session = uses THEN Count(report) ELSE UNCHANGED toldVars
  /\ UNCHANGED <<serviceVars, server, path, sslocal, rows, editVars, owner, carried, session,
                 launch, lost, boundVars>>

(* A report that cannot be read, is not 16 bytes long, or is not accepted  *)
(* because the server ends                                                 *)
ReportFails(k) ==
  /\ reported[k] # <<>>
  /\ reported' = [reported EXCEPT ![k] = Tail(@)]
  /\ UNCHANGED <<txTotal, serviceVars, server, path, sslocal, rows, editVars, countVars, boundVars>>

-----------------------------------------------------------------------------
(* stopRunner                                                              *)
GoOn(t, place) == stopping' = [stopping EXCEPT ![t].at = place]

StopUnchanged ==
  UNCHANGED <<profile, starting, editVars, reported, owner, carried,
              session, launch, toldVars, uses, reports, events>>

(* CLOSE, onRevoke, use() or an exception of connect()                     *)
BeginStop(t) ==
  /\ t = stops + 1 /\ At(t, "idle") /\ starting = "no" /\ uses > 0
  /\ stops' = t
  /\ GoOn(t, "kill")
  /\ mixed' = (mixed \/ \E u \in Stops : ~At(u, "idle"))
  /\ StopUnchanged
  /\ UNCHANGED <<txTotal, up, trafficMonitorThread, server, path, sslocal, rows, lost>>

(* killProcesses() of the services, which comes first                      *)
StopKill(t) ==
  /\ At(t, "kill") /\ GoOn(t, "sum")
  /\ sslocal' = Dead
  /\ StopUnchanged
  /\ UNCHANGED <<txTotal, up, trafficMonitorThread, server, path, rows, mixed, lost, stops>>

(* updateTrafficTotal(TrafficMonitor.txTotal, ...)                         *)
StopSum(t) ==
  /\ At(t, "sum")
  /\ stopping' = [stopping EXCEPT ![t].at = "load", ![t].sum = txTotal]
  /\ StopUnchanged
  /\ UNCHANGED <<txTotal, up, trafficMonitorThread, server, path, sslocal, rows, mixed, lost,
                 stops>>

(* Mutation: the row is not read again.                                    *)
StopLoadCached(t) ==
  /\ At(t, "load")
  /\ \/ /\ profile.id # NoProfile
        /\ stopping' = [stopping EXCEPT ![t] =
             [at |-> "store", sum |-> @.sum, id |-> profile.id, row |-> profile.row]]
     \/ profile.id = NoProfile /\ GoOn(t, "reset")
  /\ StopUnchanged
  /\ UNCHANGED <<txTotal, up, trafficMonitorThread, server, path, sslocal, rows, mixed, lost,
                 stops>>

(* if (profile != null) app.profileManager.getProfile(profile.id), which   *)
(* may find no row                                                         *)
StopLoad(t) ==
  /\ At(t, "load")
  /\ \/ /\ profile.id # NoProfile
        /\ stopping' = [stopping EXCEPT ![t] =
             [at |-> "store", sum |-> @.sum, id |-> profile.id, row |-> rows[profile.id]]]
        /\ UNCHANGED lost
     \/ /\ GoOn(t, "reset")
        /\ lost' = (lost \/ profile.id # NoProfile)
  /\ StopUnchanged
  /\ UNCHANGED <<txTotal, up, trafficMonitorThread, server, path, sslocal, rows, mixed, stops>>

(* p.tx += tx; app.profileManager.updateProfile(p), which may fail         *)
StopStore(t) ==
  /\ At(t, "store")
  /\ \/ /\ rows' = [rows EXCEPT ![stopping[t].id] =
                     [stopping[t].row EXCEPT !.tx = @ + stopping[t].sum]]
        /\ UNCHANGED lost
     \/ lost' = TRUE /\ UNCHANGED rows
  /\ stopping' = [stopping EXCEPT ![t] = [NotStopping EXCEPT !.at = "reset"]]
  /\ StopUnchanged
  /\ UNCHANGED <<txTotal, up, trafficMonitorThread, server, path, sslocal, mixed, stops>>

StopReset(t) ==
  /\ At(t, "reset") /\ GoOn(t, "thread")
  /\ txTotal' = 0
  /\ StopUnchanged
  /\ UNCHANGED <<up, trafficMonitorThread, server, path, sslocal, rows, mixed, lost, stops>>

(* trafficMonitorThread.stopThread(), if there is one, and = null.  A      *)
(* server that waits in accept() may not notice that its socket was        *)
(* closed, and take one more report.                                       *)
StopThread(t) ==
  /\ At(t, "thread") /\ GoOn(t, "post")
  /\ trafficMonitorThread' = None
  /\ LET k == trafficMonitorThread IN
       /\ server' = [i \in Sessions |->
            CASE i = k /\ server[i] = "new" -> "stopped"
              [] i = k /\ server[i] = "bound" -> "closed"
              [] OTHER -> server[i]]
       /\ path' \in {path, IF path = k THEN None ELSE path}
  /\ StopUnchanged
  /\ UNCHANGED <<txTotal, up, sslocal, rows, mixed, lost, stops>>

(* changeState(State.STOPPED)                                              *)
StopPost(t) ==
  /\ At(t, "post") /\ GoOn(t, "forget")
  /\ up' = FALSE
  /\ StopUnchanged
  /\ UNCHANGED <<txTotal, trafficMonitorThread, server, path, sslocal, rows, mixed, lost, stops>>

(* profile = null                                                          *)
StopForget(t) ==
  /\ At(t, "forget")
  /\ stopping' = [stopping EXCEPT ![t] = NotStopping]
  /\ profile' = [id |-> NoProfile]
  /\ UNCHANGED <<txTotal, starting, up, trafficMonitorThread, serverVars, sslocal, rows, editVars,
                 countVars, boundVars>>

StopStep(t) ==
  \/ StopKill(t) \/ StopSum(t) \/ StopLoad(t) \/ StopStore(t) \/ StopReset(t)
  \/ StopThread(t) \/ StopPost(t) \/ StopForget(t)

-----------------------------------------------------------------------------
(* The main process: it reads a row and later writes all of it back with a *)
(* new name.                                                               *)
EditLoad(p) ==
  /\ edit.id = NoProfile /\ events < MaxEvents
  /\ events' = events + 1
  /\ edit' = [id |-> p, row |-> rows[p]]
  /\ UNCHANGED <<txTotal, serviceVars, serverVars, sslocal, rows, named, raced,
                 countVars, uses, stops, reports>>

EditStore ==
  /\ edit.id # NoProfile
  /\ LET p == edit.id IN
       /\ rows' = [rows EXCEPT ![p] = [edit.row EXCEPT !.name = @ + 1]]
       /\ named' = [named EXCEPT ![p] = edit.row.name + 1]
       /\ lost' = (lost \/ rows[p].tx # edit.row.tx)
       /\ raced' = (raced \/ \E t \in Stops : At(t, "store") /\ stopping[t].id = p)
  /\ edit' = [id |-> NoProfile]
  /\ UNCHANGED <<txTotal, serviceVars, serverVars, sslocal, owner, carried, session, launch,
                 toldVars, mixed, boundVars>>

-----------------------------------------------------------------------------
Request ==
  \/ \E p \in Profiles : Use(p) \/ EditLoad(p)
  \/ \E t \in Stops : BeginStop(t)
  \/ EditStore \/ Launch \/ Die \/ Carry \/ Report

Next ==
  \/ Request \/ StartReset \/ StartThread
  \/ \E k \in Sessions : Bind(k) \/ Update(k) \/ ReportFails(k)
  \/ \E t \in Stops : StopStep(t)

Spec == Init /\ [][Next]_vars

-----------------------------------------------------------------------------
(* Every variable has a value of its type.                                 *)
TrafficTypeOK ==
  /\ txTotal \in 0..MaxBytes /\ up \in BOOLEAN
  /\ starting \in {"no", "reset", "thread"}
  /\ {path, trafficMonitorThread} \subseteq Sessions \cup {None}
  /\ sslocal \in 0..MaxBytes \cup {Dead}

(* No session, and neither a start nor a stop is under way.                *)
AtRest == ~up /\ starting = "no" /\ \A t \in Stops : At(t, "idle")

(* What TrafficMonitor calls the "bytes for the current session" is never  *)
(* more than ss-local has carried in it, and neither is the total of a     *)
(* profile more than was carried under it, unless stops overlap or the     *)
(* pool of the last session applies a report in the next one.              *)
NeverTooMuch ==
  ~mixed =>
    /\ up /\ starting # "reset" => txTotal <= session
    /\ \A p \in Profiles : rows[p].tx <= carried[p]

(* NeverTooMuch; and unless stops overlap, a report is applied in the next *)
(* session, the row cannot be read or written, or the main process writes  *)
(* an older one back: a profile at rest has not got more than was reported *)
(* before its stops read the total, and exactly that, once, if no report   *)
(* took the place of one of an earlier launch of ss-local or of a later    *)
(* one of the same launch.  The variables have values of their types.      *)
CountedOnce ==
  /\ TrafficTypeOK
  /\ NeverTooMuch
  /\ AtRest /\ ~mixed /\ ~lost =>
       \A p \in Profiles : /\ rows[p].tx <= applied[p]
                           /\ ~setBack => rows[p].tx = applied[p]

(* An edit of a profile that does not fall between the two halves of the   *)
(* p.tx += tx of a stop is not undone by any stop, which is why            *)
(* updateTrafficTotal reads the row again.                                 *)
EditsSurvive == ~raced => \A p \in Profiles : rows[p].name = named[p]

=============================================================================
