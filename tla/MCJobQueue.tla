----------------------------- MODULE MCJobQueue -----------------------------
(* Instances of JobQueue for TLC. *)
EXTENDS JobQueue, TLC
CONSTANTS j1, j2, w1, w2, p1, p2, s1, s2, k1

NoKeys == [j \in Jobs |-> NoKey]
SameKey == [j \in Jobs |-> k1]
ProcSymmetry == Permutations(Procs)
JobSymmetry == Permutations(Jobs)

\* The lease properties say nothing once the row of every job was overwritten,
\* and none is ever taken off that list.
SomeNotOverwritten == overwritten # Jobs
=============================================================================
