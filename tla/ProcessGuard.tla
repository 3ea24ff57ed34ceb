---------------------------- MODULE ProcessGuard ----------------------------
(***************************************************************************)
(* What a GuardedProcess promises to the service that owns it, without the *)
(* threads, the semaphore, the flags and the interrupts: start() returns   *)
(* with a child or fails with none, there is one child at a time, and once *)
(* a destroy() has returned no child is launched any more and none is left *)
(* unsignalled.  The lifecycle models of the services take a guard to be   *)
(* this, and GuardedProcess is shown to implement it.                      *)
(***************************************************************************)
VARIABLES
  phase,  (* what the owner knows                                          *)
  child   (* the one child of the guard                                    *)

vars == <<phase, child>>

Init == phase = "idle" /\ child = "none"

TypeOK ==
  /\ phase \in {"idle", "starting", "up", "failed", "abandoned", "closed"}
  /\ child \in {"none", "running", "dying"}

Start == phase = "idle" /\ phase' = "starting" /\ UNCHANGED child

(* A guard launches its child, again and again, until it is closed.        *)
Launch ==
  /\ phase \in {"starting", "up", "abandoned"} /\ child = "none"
  /\ child' = "running"
  /\ UNCHANGED phase

Exit == child = "running" /\ child' = "none" /\ UNCHANGED phase
Kill == child = "running" /\ child' = "dying" /\ UNCHANGED phase
Dies == child = "dying" /\ child' = "none" /\ UNCHANGED phase

(* start() returns, throws the IOException of the launch, or is left by    *)
(* its caller, who was interrupted.                                        *)
Started   == phase = "starting" /\ phase' = "up" /\ UNCHANGED child
Failed    == phase = "starting" /\ child = "none" /\ phase' = "failed" /\ UNCHANGED child
Abandoned == phase = "starting" /\ phase' = "abandoned" /\ UNCHANGED child

(* destroy() returns: this is the moment from which nothing runs.          *)
Close ==
  /\ phase = "up" /\ child # "running"
  /\ phase' = "closed"
  /\ UNCHANGED child

Next ==
  \/ Start \/ Started \/ Failed \/ Abandoned \/ Close
  \/ Launch \/ Exit \/ Kill \/ Dies

Spec == Init /\ [][Next]_vars

=============================================================================
