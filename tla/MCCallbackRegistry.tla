------------------------- MODULE MCCallbackRegistry -------------------------
(***************************************************************************)
(* Instances of CallbackRegistry for TLC: two clients and the notification.*)
(***************************************************************************)
EXTENDS CallbackRegistry, TLC

CONSTANTS c1, c2

ClientSymmetry == Permutations({c1, c2})

=============================================================================
