------------------------------ MODULE JobLease ------------------------------
(***************************************************************************)
(* What the queue promises about a job, without a table or a handler: it   *)
(* waits, is with exactly one worker, or has been finished with for good.  *)
(* grants counts how often it was handed out.  Of a job that was written   *)
(* over with an outdated state nothing is promised any more.               *)
(***************************************************************************)
EXTENDS Naturals

CONSTANTS Jobs, Workers, NoWorker, MaxAttempts

VARIABLES place, holder, grants
vars == <<place, holder, grants>>

Done == {"completed", "cancelled", "dlq"}

Init ==
  /\ place = [j \in Jobs |-> "unborn"]
  /\ holder = [j \in Jobs |-> NoWorker]
  /\ grants = [j \in Jobs |-> 0]

\* Job j goes to a place where nobody has it.
Put(j, p) ==
  /\ place' = [place EXCEPT ![j] = p]
  /\ holder' = [holder EXCEPT ![j] = NoWorker]
  /\ UNCHANGED grants

Submit(j) == place[j] = "unborn" /\ Put(j, "waiting")
Complete(j) == place[j] = "held" /\ Put(j, "completed")
\* A job is given up only after the attempts it was granted.
GiveUp(j) == place[j] = "held" /\ grants[j] >= MaxAttempts /\ Put(j, "dlq")
Cancel(j) == place[j] \in {"waiting", "held"} /\ Put(j, "cancelled")
Revive(j) == place[j] = "dlq" /\ Put(j, "waiting")
Remove(j) == place[j] \in Done /\ Put(j, "gone")
Overwrite(j) ==
  /\ place[j] # "unborn"
  /\ place' = [place EXCEPT ![j] = "overwritten"]
  /\ holder' = [holder EXCEPT ![j] = NoWorker]
  /\ grants' = [grants EXCEPT ![j] = 0]

Waiting == {j \in Jobs : place[j] = "waiting"}
Held == {j \in Jobs : place[j] = "held"}
Grant(S, w) ==
  /\ place' = [j \in Jobs |-> IF j \in S THEN "held" ELSE place[j]]
  /\ holder' = [j \in Jobs |-> IF j \in S THEN w ELSE holder[j]]
  /\ grants' = [j \in Jobs |-> IF j \in S THEN grants[j] + 1 ELSE grants[j]]
TakeBack(S) ==
  /\ place' = [j \in Jobs |-> IF j \in S THEN "waiting" ELSE place[j]]
  /\ holder' = [j \in Jobs |-> IF j \in S THEN NoWorker ELSE holder[j]]
  /\ UNCHANGED grants

Next ==
  \/ \E S \in SUBSET Held : TakeBack(S)
  \/ \E S \in SUBSET Waiting, w \in Workers : Grant(S, w)
  \/ \E j \in Jobs : \/ Submit(j) \/ Complete(j) \/ GiveUp(j)
                     \/ Cancel(j) \/ Revive(j) \/ Remove(j) \/ Overwrite(j)

Spec == Init /\ [][Next]_vars
=============================================================================
