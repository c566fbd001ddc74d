------------------------- MODULE MCQueueLifecycle -------------------------
(* Instances of QueueLifecycle for TLC. *)
EXTENDS QueueLifecycle, TLC
CONSTANTS i1, q1, j1, j2, r1, r2, s1, maintenance

OneQueue == [j \in Jobs |-> q1]
Alike == Permutations(Requests) \cup Permutations(Jobs)
\* The safety properties speak of no step after the first that has overtaken
\* another, and overtaken stays TRUE: nothing behind it need be explored.
NotYetOvertaken == ~overtaken
=============================================================================
