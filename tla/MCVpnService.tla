---------------------------- MODULE MCVpnService ----------------------------
(***************************************************************************)
(* Instances of VpnService for TLC: a profile that relays DNS over UDP,    *)
(* one that uses pdnsd, and one that lacks a password.                     *)
(***************************************************************************)
EXTENDS VpnService

CONSTANTS udp, tcp, empty

(* Two of the executables, of which pdnsd is launched for one profile only.       *)
FewExecutables == {"tun2socks", "pdnsd"}

(* State constraint: once requests have overlapped, what follows a run that *)
(* started beside another one is left out, since the properties of the run *)
(* say nothing of it.  A switch that is asked for at rest starts its run   *)
(* while STOPPING and STOPPED are still queued, and is kept.               *)
CleanStarts == overlapped => ~startedDirty

=============================================================================
