---------------------------- MODULE ExclusiveWork ----------------------------
(***************************************************************************)
(* What the job queue promises the handlers that run on it, with the       *)
(* table, the leases and the clock left out: a job is in the hands of at   *)
(* most one worker, a worker has at most one job, and work whose outcome   *)
(* has been recorded as a success or a permanent failure is never handed   *)
(* out again.  JobQueue implements this specification as long as no live   *)
(* worker is kept from renewing its lease (see JobQueue, Punctual).        *)
(***************************************************************************)
CONSTANTS Workers, Jobs, NoJob

VARIABLES
  work,     \* work[w]: the job worker w is executing, or NoJob
  settled   \* jobs that are over: nobody will be handed them again

vars == <<work, settled>>

TypeOK == /\ work \in [Workers -> Jobs \cup {NoJob}]
          /\ settled \in SUBSET Jobs

Init == /\ work = [w \in Workers |-> NoJob]
        /\ settled = {}

(* A free worker takes a job that is neither over nor in other hands. *)
Take(w, j) ==
  /\ work[w] = NoJob
  /\ j \notin settled
  /\ \A v \in Workers : work[v] # j
  /\ work' = [work EXCEPT ![w] = j]
  /\ UNCHANGED settled

(* The worker lets go of its job; the job may be handed out again. *)
Drop(w) ==
  /\ work' = [work EXCEPT ![w] = NoJob]
  /\ UNCHANGED settled

(* The worker's job is over, and the worker lets go of it. *)
Settle(w) ==
  /\ work[w] # NoJob
  /\ work' = [work EXCEPT ![w] = NoJob]
  /\ settled' = settled \cup {work[w]}

(* The process dies: every worker lets go at once. *)
DropAll ==
  /\ work' = [w \in Workers |-> NoJob]
  /\ UNCHANGED settled

(* Old history is deleted; what is deleted is over. *)
Forget(old) ==
  /\ settled' = settled \cup old
  /\ UNCHANGED work

Next ==
  \/ \E w \in Workers, j \in Jobs : Take(w, j)
  \/ \E w \in Workers : Drop(w) \/ Settle(w)
  \/ DropAll
  \/ \E old \in SUBSET Jobs : Forget(old)

Spec == Init /\ [][Next]_vars
==============================================================================
