---------------------------- MODULE MCNatService ----------------------------
(***************************************************************************)
(* Instances of NatService for TLC: a profile that relays DNS over UDP,    *)
(* one that uses pdnsd, and one that lacks a password.                     *)
(***************************************************************************)
EXTENDS NatService

CONSTANTS udp, tcp, empty

=============================================================================
