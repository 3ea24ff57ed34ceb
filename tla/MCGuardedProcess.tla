-------------------------- MODULE MCGuardedProcess --------------------------
(***************************************************************************)
(* Instances of GuardedProcess for TLC: several threads destroy and        *)
(* restart the guard of tun2socks, the one with a callback.                *)
(***************************************************************************)
EXTENDS GuardedProcess

CONSTANTS d1, d2, r1, main

TwoDestroyers == {d1, d2}

(* One of the two destroyers may be interrupted, the other may not.        *)
SomeInterruptible == {main, d1}

=============================================================================
