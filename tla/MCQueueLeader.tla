--------------------------- MODULE MCQueueLeader ----------------------------
(* Instances of QueueLeader for TLC. *)
EXTENDS QueueLeader, TLC
CONSTANTS i1, i2, i3
=============================================================================
