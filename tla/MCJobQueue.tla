------------------------------ MODULE MCJobQueue ------------------------------
(***************************************************************************)
(* Finite instances of JobQueue for TLC: two jobs and two workers.         *)
(***************************************************************************)
EXTENDS JobQueue, TLC

CONSTANTS k   \* a dedupe key

\* Both jobs are the same logical work.
SameKey == [j \in Jobs |-> k]
NoKeys == [j \in Jobs |-> NoKey]

SamePriority == [j \in Jobs |-> 0]
LaterIsUrgent == [j \in Jobs |-> j]

AtOnce == [j \in Jobs |-> 0]
Staggered == [j \in Jobs |-> j - 1]

OneAttempt == [j \in Jobs |-> 1]
TwoAttempts == [j \in Jobs |-> 2]
TwoThenOne == [j \in Jobs |-> IF j = 1 THEN 2 ELSE 1]

NoFaults == [f \in Fault |-> 0]
EachOnceButStall == [NoFaults EXCEPT !["crash"] = 1, !["stop"] = 1, !["write"] = 1]
AllButWrite == [NoFaults EXCEPT !["crash"] = 1, !["stop"] = 1, !["stall"] = 1]
CrashOnly == [NoFaults EXCEPT !["crash"] = 1]
StopOnly == [NoFaults EXCEPT !["stop"] = 1]

WorkerSymmetry == Permutations(Workers)
===============================================================================
