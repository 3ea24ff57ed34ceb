---------------------------- MODULE OrderedPipe ----------------------------
(***************************************************************************)
(* What one direction of a TCP connection promises, and what a relay in    *)
(* the middle of it must not break: the receiver gets the bytes of the     *)
(* sender in order, none twice, none left out, and none that were not      *)
(* sent.  The connection may break at any time, so that the last bytes may *)
(* never come: what then may be missing is said by the relays themselves.  *)
(*                                                                         *)
(* The bytes of a stream are numbered from 1.                              *)
(***************************************************************************)
EXTENDS Naturals, Sequences

VARIABLES
  sent,   (* how many bytes the sender has written                         *)
  got     (* the bytes the receiver has read                               *)

vars == <<sent, got>>

(* The first n bytes of the stream.                                        *)
Stream(n) == [i \in 1..n |-> i]

Init == sent = 0 /\ got = <<>>

Write == sent' \in Nat /\ sent' >= sent /\ UNCHANGED got

Deliver ==
  /\ \E n \in Len(got)..sent' : got' = Stream(n)
  /\ sent' = sent

Next == Write \/ Deliver

Spec == Init /\ [][Next]_vars

=============================================================================
