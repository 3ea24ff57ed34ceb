---------------------------- MODULE MCLocalRelay ----------------------------
(* One connection through ss-local, with buffers of three units.             *)
EXTENDS LocalRelay
=============================================================================
