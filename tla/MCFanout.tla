------------------------------ MODULE MCFanout ------------------------------
(* Instances of Fanout for TLC. *)
EXTENDS Fanout
CONSTANTS ch1, ch2, s1, s2, l1, l2
=============================================================================
