------------------------ MODULE MCTrafficAccounting ------------------------
(***************************************************************************)
(* An instance of TrafficAccounting for TLC: two profiles, which are alike.*)
(***************************************************************************)
EXTENDS TrafficAccounting, TLC

CONSTANTS one, two

Alike == Permutations({one, two})

=============================================================================
