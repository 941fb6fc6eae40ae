---------------------------- MODULE JobQueueProofs ----------------------------
(***************************************************************************)
(* Proofs about JobQueue, for any number of jobs and workers and any bound *)
(* on the disturbances.                                                    *)
(***************************************************************************)
EXTENDS JobQueue, TLAPS

(* Every operation of the queue, worker, reclaimer and process keeps the types. *)
LEMMA TypeStep == TypeOK /\ [Next]_vars => TypeOK'
<1> SUFFICES ASSUME TypeOK, [Next]_vars PROVE TypeOK'
  OBVIOUS
<1> USE JobsAssumption, ArgumentsAssumption, TimesAssumption
<1> USE DEF TypeOK, NoLease, Pending, Terminal, Executing, Fault,
            tableVars, workerVars
<1>1. ASSUME NEW j \in Jobs, Enqueue(j) PROVE TypeOK'
  BY <1>1 DEF Enqueue
<1>2. ASSUME NEW j \in Jobs, Cancel(j) PROVE TypeOK'
  BY <1>2 DEF Cancel
<1>3. ASSUME NEW old \in SUBSET Jobs, Purge(old) PROVE TypeOK'
  BY <1>3 DEF Purge
<1>4. ASSUME NEW w \in Workers, NEW j \in Jobs, Claim(w, j) PROVE TypeOK'
  BY <1>4 DEF Claim
<1>5. ASSUME NEW w \in Workers, Renew(w) PROVE TypeOK'
  BY <1>5 DEF Renew, ExtendLease, Suffer
<1>6. ASSUME NEW w \in Workers, Progress(w) PROVE TypeOK'
  BY <1>6 DEF Progress
<1>7. ASSUME NEW w \in Workers, NEW o \in {"ok", "error", "interrupted"},
             HandlerReturns(w, o)
      PROVE TypeOK'
  BY <1>7 DEF HandlerReturns
<1>8. ASSUME NEW w \in Workers, FinishSucceeded(w) PROVE TypeOK'
  BY <1>8 DEF FinishSucceeded, Write, MatchesNoRow, LetGo
<1>9. ASSUME NEW w \in Workers, FinishFailed(w) PROVE TypeOK'
  BY <1>9 DEF FinishFailed, Write, MatchesNoRow, LetGo
<1>10. ASSUME NEW w \in Workers, Retry(w) PROVE TypeOK'
  BY <1>10 DEF Retry, BackoffDelays, Write, MatchesNoRow, LetGo
<1>11. ASSUME NEW w \in Workers, Release(w) PROVE TypeOK'
  BY <1>11 DEF Release, Write, LetGo
<1>12. ASSUME NEW w \in Workers, RecordFails(w) PROVE TypeOK'
  BY <1>12 DEF RecordFails, Suffer, LetGo
<1>13. ASSUME NEW w \in Workers, WorkerExits(w) PROVE TypeOK'
  BY <1>13 DEF WorkerExits
<1>14. CASE Reclaim
  BY <1>14 DEF Reclaim, ReclaimExpired
<1>15. CASE Start
  BY <1>15 DEF Start, ReclaimExpired, Suffer, Forgotten
<1>16. CASE Shutdown
  BY <1>16 DEF Shutdown, Suffer
<1>17. CASE Stop
  BY <1>17 DEF Stop
<1>18. CASE Crash
  BY <1>18 DEF Crash, Suffer, Forgotten
<1>19. CASE Tick
  BY <1>19 DEF Tick, Sooner
<1>20. CASE Stall
  BY <1>20 DEF Stall, Suffer
<1>21. CASE UNCHANGED vars
  BY <1>21 DEF vars
<1> QED
  BY <1>1, <1>2, <1>3, <1>4, <1>5, <1>6, <1>7, <1>8, <1>9, <1>10, <1>11,
     <1>12, <1>13, <1>14, <1>15, <1>16, <1>17, <1>18, <1>19, <1>20, <1>21
     DEF Next, Record

(* Every variable of the queue keeps its type; in particular attempts and
   run_after never go below zero, whatever Release and the clock take away. *)
THEOREM TypeCorrect == Spec => []TypeOK
<1>1. Init => TypeOK
  BY DEF Init, TypeOK, NoLease, Pending, Executing, Fault
<1> QED
  BY <1>1, TypeStep, PTL DEF Spec

(* What the arithmetic of leases needs: the types of the numbers involved. *)
LEMMA Numbers ==
  TypeOK => /\ \A j \in Jobs : leaseUntil[j] \in Int
            /\ faults["write"] \in Nat
            /\ Lease \in Nat
<1> SUFFICES ASSUME TypeOK
             PROVE  /\ \A j \in Jobs : leaseUntil[j] \in Int
                    /\ faults["write"] \in Nat
                    /\ Lease \in Nat
  OBVIOUS
<1>1. \A j \in Jobs : leaseUntil[j] \in Int
  BY DEF TypeOK, NoLease
<1>2. faults["write"] \in Nat
  BY DEF TypeOK, Fault
<1>3. Lease \in Nat
  BY TimesAssumption
<1> QED
  BY <1>1, <1>2, <1>3

(* Disturbances are only ever counted up, so a queue that is punctual after a
   step was punctual before it. *)
LEMMA PunctualStep == TypeOK /\ [Next]_vars /\ Punctual' => Punctual
  BY TimesAssumption
     DEF TypeOK, Fault, Punctual, Next, Record, vars, tableVars, workerVars,
         Enqueue, Cancel, Purge, Claim, Renew, Progress, HandlerReturns,
         FinishSucceeded, FinishFailed, Retry, Release, RecordFails,
         WorkerExits, Reclaim, Start, Shutdown, Stop, Crash, Tick, Stall, Suffer

(* However a worker lets go of its job, no other row changes, and the row of
   the job is left alone or stops being one that is running. *)
LEMMA LetGoStep ==
  ASSUME TypeOK, IInv, Punctual' => Punctual,
         NEW w \in Workers, pc[w] \in Executing, LetGo(w),
         mode' = mode, faults'["write"] \in Nat, faults["write"] <= faults'["write"],
         state' \in [Jobs -> {"none", "purged"} \cup Pending \cup Terminal],
         leaseUntil' \in [Jobs -> Nat \cup {NoLease}],
         \A j \in Jobs \ {job[w]} : state'[j] = state[j] /\ leaseUntil'[j] = leaseUntil[j],
         \/ state'[job[w]] = state[job[w]] /\ leaseUntil'[job[w]] = leaseUntil[job[w]]
         \/ state'[job[w]] # "running" /\ leaseUntil'[job[w]] = NoLease
  PROVE  IInv'
<1> USE DEF TypeOK, Pending, Terminal, Executing, NoLease, Fault
<1>1. /\ pc' = [pc EXCEPT ![w] = "idle"]
      /\ job' = [job EXCEPT ![w] = NoJob]
      /\ due' = [due EXCEPT ![w] = FALSE]
  BY DEF LetGo
<1>2. \A v \in Workers \ {w} : pc'[v] = pc[v] /\ job'[v] = job[v] /\ due'[v] = due[v]
  BY <1>1
<1>3. pc'[w] = "idle" /\ job'[w] = NoJob
  BY <1>1
<1>4. job[w] \in Jobs
  BY DEF IInv, MemoryMatchesPc
<1>5. MemoryMatchesPc'
  BY <1>1, <1>2, <1>3, JobsAssumption DEF IInv, MemoryMatchesPc
<1>6. LeaseIffRunning'
  BY <1>4 DEF IInv, LeaseIffRunning
<1> SUFFICES ASSUME Punctual'
             PROVE  /\ ExecutedIsNotQueued' /\ ExclusiveExecution' /\ LiveLeasesLast'
  BY <1>5, <1>6 DEF IInv, ExecutedIsNotQueued, ExclusiveExecution, LiveLeasesLast
<1>7. Punctual
  OBVIOUS
<1>8. \A v \in Workers : pc'[v] \in Executing =>
        v # w /\ pc[v] \in Executing /\ job[v] \in Jobs \ {job[w]}
  BY <1>2, <1>3, <1>7 DEF IInv, ExclusiveExecution, MemoryMatchesPc
<1>9. ExecutedIsNotQueued'
  BY <1>2, <1>7, <1>8 DEF IInv, ExecutedIsNotQueued
<1>10. ExclusiveExecution'
  BY <1>2, <1>7, <1>8 DEF IInv, ExclusiveExecution
<1>11. LiveLeasesLast'
  <2> SUFFICES ASSUME mode' = "up", NEW v \in Workers, pc'[v] \in Executing,
                      state'[job'[v]] = "running"
               PROVE  leaseUntil'[job'[v]] >=
                        Lease - faults'["write"] - (IF due'[v] THEN 1 ELSE 0)
    BY DEF LiveLeasesLast
  <2>1. leaseUntil[job[v]] >= Lease - faults["write"] - (IF due[v] THEN 1 ELSE 0)
    BY <1>2, <1>7, <1>8 DEF IInv, LiveLeasesLast
  <2>2. leaseUntil'[job'[v]] = leaseUntil[job[v]] /\ due'[v] = due[v]
    BY <1>2, <1>8
  <2> QED
    BY <2>1, <2>2, <1>8, TimesAssumption
<1> QED
  BY <1>9, <1>10, <1>11

(* No operation of the queue, of a worker, of the reclaimer or of the process
   leads out of the inductive invariant; one step per action of Next. *)
LEMMA InvStep == TypeOK /\ IInv /\ [Next]_vars => IInv'
<1> SUFFICES ASSUME TypeOK, IInv, [Next]_vars PROVE IInv'
  OBVIOUS
<1> USE JobsAssumption, ArgumentsAssumption, TimesAssumption, PunctualStep
<1> USE DEF TypeOK, IInv, MemoryMatchesPc, LeaseIffRunning, ExecutedIsNotQueued,
            ExclusiveExecution, LiveLeasesLast, Punctual,
            NoLease, Pending, Terminal, Executing, Fault, tableVars, workerVars
<1>1. ASSUME NEW j \in Jobs, Enqueue(j) PROVE IInv'
  BY <1>1 DEF Enqueue
<1>2. ASSUME NEW j \in Jobs, Cancel(j) PROVE IInv'
  BY <1>2 DEF Cancel, Cancellable
<1>3. ASSUME NEW old \in SUBSET Jobs, Purge(old) PROVE IInv'
  BY <1>3 DEF Purge
<1>4. ASSUME NEW w \in Workers, NEW j \in Jobs, Claim(w, j) PROVE IInv'
  <2>1. /\ pc[w] = "idle" /\ state[j] = "queued"
        /\ job' = [job EXCEPT ![w] = j]
        /\ state' = [state EXCEPT ![j] = "running"]
        /\ leaseUntil' = [leaseUntil EXCEPT ![j] = Lease]
        /\ due' = due /\ mode' = mode /\ faults' = faults
    BY <1>4 DEF Claim, Runnable
  <2>2. pc'[w] \in Executing /\ \A v \in Workers \ {w} : pc'[v] = pc[v]
    BY <1>4 DEF Claim
  <2>3. Punctual => \A v \in Workers \ {w} :
          pc[v] \in Executing => job[v] \in Jobs \ {j}
    BY <2>1
  <2>4. MemoryMatchesPc'
    BY <1>4, <2>1, <2>2 DEF Claim
  <2>5. LeaseIffRunning'
    BY <2>1
  <2>6. ExecutedIsNotQueued'
    BY <2>1, <2>2, <2>3
  <2>7. ExclusiveExecution'
    BY <2>1, <2>2, <2>3
  <2>8. LiveLeasesLast'
    <3> SUFFICES ASSUME Punctual, mode = "up", NEW v \in Workers,
                        pc'[v] \in Executing, state'[job'[v]] = "running"
                 PROVE  leaseUntil'[job'[v]] >=
                          Lease - faults["write"] - (IF due[v] THEN 1 ELSE 0)
      BY <2>1 DEF LiveLeasesLast, Punctual
    <3>1. CASE v = w
      BY <2>1, <3>1
    <3>2. CASE v # w
      <4>1. pc[v] \in Executing /\ job'[v] = job[v] /\ job[v] \in Jobs \ {j}
        BY <2>1, <2>2, <2>3, <3>2
      <4>2. state'[job'[v]] = state[job[v]] /\ leaseUntil'[job'[v]] = leaseUntil[job[v]]
        BY <2>1, <4>1
      <4> QED
        BY <4>1, <4>2
    <3> QED
      BY <3>1, <3>2
  <2> QED
    BY <2>4, <2>5, <2>6, <2>7, <2>8
<1>5. ASSUME NEW w \in Workers, Renew(w) PROVE IInv'
  <2>1. /\ pc[w] \in Executing /\ job[w] \in Jobs /\ due[w]
        /\ pc' = pc /\ job' = job /\ state' = state /\ mode' = mode
        /\ due' = [due EXCEPT ![w] = FALSE]
    BY <1>5 DEF Renew
  <2>2. \/ /\ faults' = faults
           /\ leaseUntil' = [leaseUntil EXCEPT ![job[w]] =
                                IF state[job[w]] = "running" THEN Lease ELSE @]
        \/ /\ leaseUntil' = leaseUntil
           /\ faults' = [faults EXCEPT !["write"] = @ + 1]
    BY <1>5 DEF Renew, ExtendLease, Suffer
  <2>3. LeaseIffRunning'
    BY <2>1, <2>2
  <2>4. LiveLeasesLast'
    <3> SUFFICES ASSUME Punctual', mode = "up", NEW v \in Workers,
                        pc[v] \in Executing, state[job[v]] = "running"
                 PROVE  leaseUntil'[job[v]] >=
                          Lease - faults'["write"] - (IF due'[v] THEN 1 ELSE 0)
      BY <2>1 DEF LiveLeasesLast, Punctual
    <3>1. leaseUntil[job[v]] >= Lease - faults["write"] - (IF due[v] THEN 1 ELSE 0)
      OBVIOUS
    <3>2. job[v] \in Jobs /\ (v # w => job[v] # job[w])
      BY <2>1
    <3>3. CASE v = w
      BY <2>1, <2>2, <3>1, <3>2, <3>3
    <3>4. CASE v # w
      <4>1. due'[v] = due[v] /\ leaseUntil'[job[v]] = leaseUntil[job[v]]
        BY <2>1, <2>2, <3>2, <3>4
      <4>2. faults'["write"] \in Nat /\ faults'["write"] >= faults["write"]
        BY <2>2
      <4>3. leaseUntil[job[v]] \in Int /\ faults["write"] \in Nat /\ Lease \in Nat
        BY <3>2, Numbers
      <4> HIDE DEF TypeOK, IInv, LiveLeasesLast, Punctual
      <4> QED
        BY <3>1, <4>1, <4>2, <4>3
    <3> HIDE DEF TypeOK, IInv, Punctual
    <3> QED
      BY <3>3, <3>4
  <2> QED
    BY <2>1, <2>3, <2>4
<1>6. ASSUME NEW w \in Workers, Progress(w) PROVE IInv'
  BY <1>6 DEF Progress
<1>7. ASSUME NEW w \in Workers, NEW o \in {"ok", "error", "interrupted"},
             HandlerReturns(w, o) PROVE IInv'
  BY <1>7 DEF HandlerReturns
<1>8. ASSUME NEW w \in Workers, FinishSucceeded(w) PROVE IInv'
  <2>1. pc[w] \in Executing /\ LetGo(w)
    BY <1>8 DEF FinishSucceeded
  <2>2. mode' = mode /\ faults'["write"] \in Nat /\ faults["write"] <= faults'["write"]
    BY <1>8 DEF FinishSucceeded, Write, MatchesNoRow
  <2>3. TypeOK'
    BY TypeStep
  <2>4. job[w] \in Jobs
    BY <2>1
  <2>5. \A j \in Jobs \ {job[w]} : state'[j] = state[j] /\ leaseUntil'[j] = leaseUntil[j]
    BY <1>8, <2>4 DEF FinishSucceeded, Write, MatchesNoRow
  <2>6. \/ state'[job[w]] = state[job[w]] /\ leaseUntil'[job[w]] = leaseUntil[job[w]]
        \/ state'[job[w]] # "running" /\ leaseUntil'[job[w]] = NoLease
    BY <1>8, <2>4 DEF FinishSucceeded, Write, MatchesNoRow
  <2> QED
    BY <2>1, <2>2, <2>3, <2>5, <2>6, LetGoStep
<1>9. ASSUME NEW w \in Workers, FinishFailed(w) PROVE IInv'
  <2>1. pc[w] \in Executing /\ LetGo(w)
    BY <1>9 DEF FinishFailed
  <2>2. mode' = mode /\ faults'["write"] \in Nat /\ faults["write"] <= faults'["write"]
    BY <1>9 DEF FinishFailed, Write, MatchesNoRow
  <2>3. TypeOK'
    BY TypeStep
  <2>4. job[w] \in Jobs
    BY <2>1
  <2>5. \A j \in Jobs \ {job[w]} : state'[j] = state[j] /\ leaseUntil'[j] = leaseUntil[j]
    BY <1>9, <2>4 DEF FinishFailed, Write, MatchesNoRow
  <2>6. \/ state'[job[w]] = state[job[w]] /\ leaseUntil'[job[w]] = leaseUntil[job[w]]
        \/ state'[job[w]] # "running" /\ leaseUntil'[job[w]] = NoLease
    BY <1>9, <2>4 DEF FinishFailed, Write, MatchesNoRow
  <2> QED
    BY <2>1, <2>2, <2>3, <2>5, <2>6, LetGoStep
<1>10. ASSUME NEW w \in Workers, Retry(w) PROVE IInv'
  <2>1. pc[w] \in Executing /\ LetGo(w)
    BY <1>10 DEF Retry
  <2>2. mode' = mode /\ faults'["write"] \in Nat /\ faults["write"] <= faults'["write"]
    BY <1>10 DEF Retry, Write, MatchesNoRow
  <2>3. TypeOK'
    BY TypeStep
  <2>4. job[w] \in Jobs
    BY <2>1
  <2>5. \A j \in Jobs \ {job[w]} : state'[j] = state[j] /\ leaseUntil'[j] = leaseUntil[j]
    BY <1>10, <2>4 DEF Retry, Write, MatchesNoRow
  <2>6. \/ state'[job[w]] = state[job[w]] /\ leaseUntil'[job[w]] = leaseUntil[job[w]]
        \/ state'[job[w]] # "running" /\ leaseUntil'[job[w]] = NoLease
    BY <1>10, <2>4 DEF Retry, Write, MatchesNoRow
  <2> QED
    BY <2>1, <2>2, <2>3, <2>5, <2>6, LetGoStep
<1>11. ASSUME NEW w \in Workers, Release(w) PROVE IInv'
  <2>1. pc[w] \in Executing /\ LetGo(w)
    BY <1>11 DEF Release
  <2>2. mode' = mode /\ faults'["write"] \in Nat /\ faults["write"] <= faults'["write"]
    BY <1>11 DEF Release, Write
  <2>3. TypeOK'
    BY TypeStep
  <2>4. job[w] \in Jobs
    BY <2>1
  <2>5. \A j \in Jobs \ {job[w]} : state'[j] = state[j] /\ leaseUntil'[j] = leaseUntil[j]
    BY <1>11, <2>4 DEF Release, Write
  <2>6. \/ state'[job[w]] = state[job[w]] /\ leaseUntil'[job[w]] = leaseUntil[job[w]]
        \/ state'[job[w]] # "running" /\ leaseUntil'[job[w]] = NoLease
    BY <1>11, <2>4 DEF Release, Write
  <2> QED
    BY <2>1, <2>2, <2>3, <2>5, <2>6, LetGoStep
<1>12. ASSUME NEW w \in Workers, RecordFails(w) PROVE IInv'
  <2>1. pc[w] \in Executing /\ LetGo(w)
    BY <1>12 DEF RecordFails
  <2>2. mode' = mode /\ faults'["write"] \in Nat /\ faults["write"] <= faults'["write"]
    BY <1>12 DEF RecordFails, Suffer
  <2>3. TypeOK'
    BY TypeStep
  <2>4. job[w] \in Jobs
    BY <2>1
  <2>5. \A j \in Jobs \ {job[w]} : state'[j] = state[j] /\ leaseUntil'[j] = leaseUntil[j]
    BY <1>12, <2>4 DEF RecordFails, Suffer
  <2>6. \/ state'[job[w]] = state[job[w]] /\ leaseUntil'[job[w]] = leaseUntil[job[w]]
        \/ state'[job[w]] # "running" /\ leaseUntil'[job[w]] = NoLease
    BY <1>12, <2>4 DEF RecordFails, Suffer
  <2> QED
    BY <2>1, <2>2, <2>3, <2>5, <2>6, LetGoStep
<1>13. ASSUME NEW w \in Workers, WorkerExits(w) PROVE IInv'
  BY <1>13 DEF WorkerExits
<1>14. CASE Reclaim
  BY <1>14 DEF Reclaim, ReclaimExpired, Expired
<1>15. CASE Start
  BY <1>15 DEF Start, ReclaimExpired, Expired, Suffer, Forgotten
<1>16. CASE Shutdown
  BY <1>16 DEF Shutdown, Suffer
<1>17. CASE Stop
  BY <1>17 DEF Stop
<1>18. CASE Crash
  BY <1>18 DEF Crash, Suffer, Forgotten
<1>19. CASE Tick
  <2>1. /\ pc' = pc /\ job' = job /\ state' = state /\ mode' = mode /\ faults' = faults
        /\ due' = [w \in Workers |-> pc[w] \in Executing]
        /\ mode = "up" => \A w \in Workers : ~due[w]
    BY <1>19 DEF Tick
  <2>2. \A j \in Jobs : leaseUntil'[j] =
          IF leaseUntil[j] > 0 THEN leaseUntil[j] - 1 ELSE leaseUntil[j]
    BY <1>19 DEF Tick, Sooner
  <2>3. LeaseIffRunning'
    BY <2>1, <2>2
  <2>4. LiveLeasesLast'
    <3> SUFFICES ASSUME Punctual, mode = "up", NEW v \in Workers,
                        pc[v] \in Executing, state[job[v]] = "running"
                 PROVE  leaseUntil'[job[v]] >= Lease - faults["write"] - 1
      BY <2>1 DEF LiveLeasesLast, Punctual
    <3>1. job[v] \in Jobs /\ ~due[v]
      BY <2>1
    <3>2. leaseUntil[job[v]] >= Lease - faults["write"]
      BY <3>1
    <3>3. leaseUntil[job[v]] \in Int /\ faults["write"] \in Nat /\ Lease \in Nat
      BY <3>1, Numbers
    <3>4. leaseUntil'[job[v]] =
            IF leaseUntil[job[v]] > 0 THEN leaseUntil[job[v]] - 1 ELSE leaseUntil[job[v]]
      BY <2>2, <3>1
    <3> HIDE DEF TypeOK, IInv, Punctual
    <3> QED
      BY <3>2, <3>3, <3>4
  <2> QED
    BY <2>1, <2>3, <2>4
<1>20. CASE Stall
  BY <1>20 DEF Stall, Suffer
<1>21. CASE UNCHANGED vars
  BY <1>21 DEF vars
<1> QED
  BY <1>1, <1>2, <1>3, <1>4, <1>5, <1>6, <1>7, <1>8, <1>9, <1>10, <1>11,
     <1>12, <1>13, <1>14, <1>15, <1>16, <1>17, <1>18, <1>19, <1>20, <1>21
     DEF Next, Record

(* The inductive invariant: the row of an executed job is never queued while
   the process is punctual, because a live lease does not run out; hence Claim
   and the reclaimer never hand it to a second worker. *)
THEOREM Invariance == Spec => [](TypeOK /\ IInv)
<1>1. Init => IInv
  BY JobsAssumption
     DEF Init, IInv, MemoryMatchesPc, LeaseIffRunning, ExecutedIsNotQueued,
         ExclusiveExecution, LiveLeasesLast, Executing
<1> QED
  BY <1>1, InvStep, TypeCorrect, PTL DEF Spec

(* As long as the process is punctual no job is executed twice at once, for any
   number of jobs, workers, crashes, shutdowns and cancellations. *)
THEOREM ExecutionIsExclusive == Spec => []ExclusiveExecution
<1>1. IInv => ExclusiveExecution
  BY DEF IInv
<1> QED
  BY <1>1, Invariance, PTL

(* The heartbeat keeps the lease of a live worker from running out, at whatever
   lease, if fewer renewals fail than a lease has ticks. *)
THEOREM LeasesOutliveWork == Spec => []LiveLeasesLast
<1>1. IInv => LiveLeasesLast
  BY DEF IInv
<1> QED
  BY <1>1, Invariance, PTL

(* The reclaimer can find every running row, and only running rows have a lease,
   stalls and late writes of stale workers included. *)
THEOREM RunningIsReclaimable == Spec => []LeaseIffRunning
<1>1. IInv => LeaseIffRunning
  BY DEF IInv
<1> QED
  BY <1>1, Invariance, PTL

-----------------------------------------------------------------------------
(* The unique index: no two pending rows with one dedupe key. *)
PendingKeysUnique ==
  \A i, j \in Jobs :
    i # j /\ Key[i] = Key[j] /\ Key[i] # NoKey => {state[i], state[j]} \ Pending # {}

(* The unique index keeps two pending rows from having one key: Enqueue and
   Retry respect it, and what Release and the reclaimer requeue was pending. *)
LEMMA KeysStep == TypeOK /\ IInv /\ PendingKeysUnique /\ [Next]_vars => PendingKeysUnique'
<1> SUFFICES ASSUME TypeOK, IInv, PendingKeysUnique, [Next]_vars,
                    NEW i \in Jobs, NEW j \in Jobs, i # j, Key[i] = Key[j], Key[i] # NoKey,
                    state'[i] \in Pending, state'[j] \in Pending
             PROVE  FALSE
  BY DEF PendingKeysUnique
<1>1. state[i] \notin Pending \/ state[j] \notin Pending
  BY DEF PendingKeysUnique
<1>2. ASSUME NEW a \in Jobs, NEW b \in Jobs, a # b, Key[a] = Key[b], Key[a] # NoKey,
             state'[a] \in Pending, state'[b] \in Pending, state[a] \notin Pending
      PROVE  FALSE
  \* Only Enqueue and Retry make a row pending, and both ask the index first.
  <2>1. \/ Enqueue(a)
        \/ \E w \in Workers : Retry(w) /\ job[w] = a /\ ~KeyTaken(a)
    <3> USE DEF TypeOK, Pending, Terminal, tableVars, workerVars
    <3>1. CASE UNCHANGED vars
      BY <1>2, <3>1 DEF vars
    <3>2. CASE Next
      <4>1. CASE \E x \in Jobs : Enqueue(x)
        BY <1>2, <4>1 DEF Enqueue
      <4>2. CASE \E x \in Jobs : Cancel(x)
        BY <1>2, <4>2 DEF Cancel
      <4>3. CASE \E old \in SUBSET Jobs : Purge(old)
        BY <1>2, <4>3 DEF Purge
      <4>4. CASE \E w \in Workers, x \in Jobs : Claim(w, x)
        BY <1>2, <4>4 DEF Claim, Runnable
      <4>5. CASE \E w \in Workers : FinishSucceeded(w) \/ FinishFailed(w)
        BY <1>2, <4>5 DEF FinishSucceeded, FinishFailed, Write, MatchesNoRow
      <4>6. CASE \E w \in Workers : Retry(w)
        BY <1>2, <4>6 DEF Retry, Write, MatchesNoRow
      <4>7. CASE \E w \in Workers : Release(w)
        BY <1>2, <4>7 DEF Release, Write
      <4>8. CASE Reclaim \/ Start
        BY <1>2, <4>8 DEF Reclaim, Start, ReclaimExpired, Expired
      <4>9. state' = state => FALSE
        BY <1>2
      <4> QED
        BY <3>2, <4>1, <4>2, <4>3, <4>4, <4>5, <4>6, <4>7, <4>8, <4>9
           DEF Next, Record, Renew, Progress, HandlerReturns, RecordFails,
               WorkerExits, Shutdown, Stop, Crash, Tick, Stall
    <3> QED
      BY <3>1, <3>2
  <2>2. ~KeyTaken(a) /\ state'[b] = state[b]
    <3>1. CASE Enqueue(a)
      BY <1>2, <3>1 DEF Enqueue, TypeOK
    <3>2. CASE \E w \in Workers : Retry(w) /\ job[w] = a /\ ~KeyTaken(a)
      BY <1>2, <3>2 DEF Retry, Write, MatchesNoRow, TypeOK
    <3> QED
      BY <2>1, <3>1, <3>2
  <2> QED
    BY <1>2, <2>2 DEF KeyTaken
<1> QED
  BY <1>1, <1>2

(* Work with one dedupe key is done by one worker at a time, unless somebody
   cancelled it while it was being done. *)
THEOREM KeyedWorkExclusion == Spec => []KeyedWorkIsExclusive
<1>1. Init => PendingKeysUnique
  BY DEF Init, PendingKeysUnique, Pending
<1>2. TypeOK /\ IInv /\ PendingKeysUnique => KeyedWorkIsExclusive
  <2> SUFFICES ASSUME TypeOK, IInv, PendingKeysUnique, Punctual,
                      NEW v \in Workers, NEW w \in Workers, v # w,
                      pc[v] \in Executing, pc[w] \in Executing,
                      Key[job[v]] = Key[job[w]], Key[job[v]] # NoKey
               PROVE  {state[job[v]], state[job[w]]} \ Pending # {}
    BY DEF KeyedWorkIsExclusive
  <2>1. job[v] \in Jobs /\ job[w] \in Jobs
    BY DEF TypeOK, IInv, MemoryMatchesPc
  <2>2. job[v] # job[w]
    BY DEF IInv, ExclusiveExecution
  <2> QED
    BY <2>1, <2>2 DEF PendingKeysUnique
<1> QED
  BY <1>1, <1>2, KeysStep, Invariance, PTL DEF Spec

-----------------------------------------------------------------------------
(* Why a failed job has used its attempts up: the copy of the job that a worker
   decides by is the row's, as long as it holds the lease ... *)
CopyIsTheRow ==
  Punctual =>
    \A w \in Workers :
      pc[w] \in Executing /\ state[job[w]] # "purged" => attempt[w] = attempts[job[w]]

(* ... and only a job of an unknown kind ends without a look at the attempts. *)
UnhandledAreUnknown ==
  \A w \in Workers :
    outcome[w] = "unhandled" => pc[w] \in Executing /\ job[w] \notin Handled

FailInv == CopyIsTheRow /\ UnhandledAreUnknown /\ FailedMeansExhausted

(* When a worker lets go of its job, the others' copies stay right: the job is
   nobody else's, and its row alone may change. *)
LEMMA FailLetGo ==
  ASSUME TypeOK, IInv, FailInv, Punctual' => Punctual,
         NEW w \in Workers, pc[w] \in Executing, LetGo(w),
         \A j \in Jobs \ {job[w]} : state'[j] = state[j] /\ attempts'[j] = attempts[j],
         Punctual /\ job[w] \in Handled /\ state'[job[w]] = "failed" =>
           attempts'[job[w]] >= MaxAttempts[job[w]]
  PROVE  FailInv'
<1> USE DEF TypeOK, Executing
<1>1. \A v \in Workers : pc'[v] \in Executing =>
        v # w /\ pc[v] \in Executing /\ job'[v] = job[v]
          /\ attempt'[v] = attempt[v] /\ outcome'[v] = outcome[v]
  BY DEF LetGo
<1>2. UnhandledAreUnknown'
  <2>1. outcome'[w] = "none" /\ \A v \in Workers \ {w} :
          pc'[v] = pc[v] /\ job'[v] = job[v] /\ outcome'[v] = outcome[v]
    BY DEF LetGo
  <2> QED
    BY <2>1 DEF FailInv, UnhandledAreUnknown
<1>3. CopyIsTheRow'
  <2> SUFFICES ASSUME Punctual', NEW v \in Workers, pc'[v] \in Executing,
                      state'[job'[v]] # "purged"
               PROVE  attempt'[v] = attempts'[job'[v]]
    BY DEF CopyIsTheRow
  <2>1. v # w /\ pc[v] \in Executing /\ job'[v] = job[v] /\ attempt'[v] = attempt[v]
    BY <1>1
  <2>2. job[v] \in Jobs \ {job[w]}
    BY <2>1 DEF IInv, MemoryMatchesPc, ExclusiveExecution
  <2> QED
    BY <2>1, <2>2 DEF FailInv, CopyIsTheRow
<1>4. FailedMeansExhausted'
  BY JobsAssumption, ArgumentsAssumption DEF FailInv, FailedMeansExhausted
<1> QED
  BY <1>2, <1>3, <1>4 DEF FailInv

(* One step per action of Next. *)
LEMMA FailStep == TypeOK /\ IInv /\ FailInv /\ [Next]_vars => FailInv'
<1> SUFFICES ASSUME TypeOK, IInv, FailInv, [Next]_vars PROVE FailInv'
  OBVIOUS
<1>0. /\ Punctual' => Punctual
      /\ \A w \in Workers : pc[w] \in Executing => job[w] \in Jobs
      /\ Handled \subseteq Jobs
  BY PunctualStep, ArgumentsAssumption DEF TypeOK, IInv, MemoryMatchesPc
<1> USE <1>0 DEF TypeOK, Executing, Pending, Terminal, tableVars, workerVars
<1> DEFINE Kept == /\ pc' = pc /\ job' = job /\ attempt' = attempt /\ outcome' = outcome
                   /\ attempts' = attempts
           Gone == /\ \A w \in Workers : pc'[w] \notin Executing /\ outcome'[w] = "none"
                   /\ attempts' = attempts
           NoneFails == \A j \in Jobs : state'[j] = "failed" => state[j] = "failed"
           NoneIsBack == \A j \in Jobs : state[j] = "purged" => state'[j] = "purged"
<1>k. ASSUME Kept, NoneFails, NoneIsBack PROVE FailInv'
  BY <1>k DEF FailInv, CopyIsTheRow, UnhandledAreUnknown, FailedMeansExhausted
<1>g. ASSUME Gone, NoneFails PROVE FailInv'
  BY <1>g DEF FailInv, CopyIsTheRow, UnhandledAreUnknown, FailedMeansExhausted
<1>1. ASSUME NEW j \in Jobs, Enqueue(j) PROVE FailInv'
  BY <1>1, <1>k DEF Enqueue
<1>2. ASSUME NEW j \in Jobs, Cancel(j) PROVE FailInv'
  BY <1>2, <1>k DEF Cancel, Cancellable
<1>3. ASSUME NEW old \in SUBSET Jobs, Purge(old) PROVE FailInv'
  BY <1>3 DEF Purge, FailInv, CopyIsTheRow, UnhandledAreUnknown, FailedMeansExhausted
<1>4. ASSUME NEW w \in Workers, NEW j \in Jobs, Claim(w, j) PROVE FailInv'
  <2>1. /\ pc[w] = "idle" /\ state[j] = "queued"
        /\ state' = [state EXCEPT ![j] = "running"]
        /\ attempts' = [attempts EXCEPT ![j] = @ + 1]
        /\ job' = [job EXCEPT ![w] = j]
        /\ attempt' = [attempt EXCEPT ![w] = attempts[j] + 1]
    BY <1>4 DEF Claim, Runnable
  <2>2. \A v \in Workers \ {w} :
          pc'[v] = pc[v] /\ job'[v] = job[v] /\ attempt'[v] = attempt[v]
            /\ outcome'[v] = outcome[v]
    BY <1>4 DEF Claim
  <2>3. Punctual => \A v \in Workers \ {w} :
          pc[v] \in Executing => job[v] \in Jobs \ {j}
    BY <2>1 DEF IInv, ExecutedIsNotQueued
  <2>5. CopyIsTheRow'
    BY <2>1, <2>2, <2>3 DEF FailInv, CopyIsTheRow
  <2>6. UnhandledAreUnknown'
    <3>1. outcome[w] # "unhandled"
      BY <2>1 DEF FailInv, UnhandledAreUnknown
    <3>2. \/ outcome'[w] = outcome[w]
          \/ pc'[w] = "recording" /\ j \notin Handled
      BY <1>4 DEF Claim
    <3> QED
      BY <2>1, <2>2, <3>1, <3>2 DEF FailInv, UnhandledAreUnknown
  <2>7. FailedMeansExhausted'
    BY <2>1 DEF FailInv, FailedMeansExhausted
  <2> QED
    BY <2>5, <2>6, <2>7 DEF FailInv
<1>5. ASSUME NEW w \in Workers, Renew(w) PROVE FailInv'
  BY <1>5, <1>k DEF Renew
<1>6. ASSUME NEW w \in Workers, Progress(w) PROVE FailInv'
  BY <1>6, <1>k DEF Progress
<1>7. ASSUME NEW w \in Workers, NEW o \in {"ok", "error", "interrupted"},
             HandlerReturns(w, o)
      PROVE FailInv'
  BY <1>7 DEF HandlerReturns, FailInv, CopyIsTheRow, UnhandledAreUnknown,
              FailedMeansExhausted, Punctual
<1>8. ASSUME NEW w \in Workers, FinishSucceeded(w) PROVE FailInv'
  <2>1. pc[w] \in Executing /\ LetGo(w) /\ attempts' = attempts
    BY <1>8 DEF FinishSucceeded
  <2>2. /\ \A j \in Jobs \ {job[w]} : state'[j] = state[j]
        /\ state'[job[w]] # "failed"
    BY <1>8, <2>1 DEF FinishSucceeded, Write, MatchesNoRow
  <2> QED
    BY <2>1, <2>2, FailLetGo
<1>9. ASSUME NEW w \in Workers, FinishFailed(w) PROVE FailInv'
  <2>1. pc[w] \in Executing /\ LetGo(w) /\ attempts' = attempts
    BY <1>9 DEF FinishFailed
  <2>2. \A j \in Jobs \ {job[w]} : state'[j] = state[j]
    BY <1>9, <2>1 DEF FinishFailed, Write, MatchesNoRow
  <2>3. ASSUME Punctual, job[w] \in Handled, state'[job[w]] = "failed"
        PROVE  attempts[job[w]] >= MaxAttempts[job[w]]
    <3>1. state[job[w]] # "purged"
      BY <1>9, <2>1, <2>3 DEF FinishFailed, Write, MatchesNoRow
    <3>2. outcome[w] # "unhandled"
      BY <2>1, <2>3 DEF FailInv, UnhandledAreUnknown
    <3>3. attempt[w] >= MaxAttempts[job[w]]
      BY <1>9, <3>2 DEF FinishFailed, Exhausted
    <3> QED
      BY <2>1, <2>3, <3>1, <3>3 DEF FailInv, CopyIsTheRow
  <2> QED
    BY <2>1, <2>2, <2>3, FailLetGo
<1>10. ASSUME NEW w \in Workers, Retry(w) PROVE FailInv'
  <2>1. pc[w] \in Executing /\ LetGo(w) /\ attempts' = attempts
    BY <1>10 DEF Retry
  <2>2. /\ \A j \in Jobs \ {job[w]} : state'[j] = state[j]
        /\ state'[job[w]] = "failed" => state[job[w]] = "failed"
    BY <1>10, <2>1 DEF Retry, Write, MatchesNoRow
  <2> QED
    BY <2>1, <2>2, FailLetGo DEF FailInv, FailedMeansExhausted
<1>11. ASSUME NEW w \in Workers, Release(w) PROVE FailInv'
  <2>1. pc[w] \in Executing /\ LetGo(w)
    BY <1>11 DEF Release
  <2>2. \A j \in Jobs \ {job[w]} : state'[j] = state[j] /\ attempts'[j] = attempts[j]
    BY <1>11, <2>1 DEF Release, Write
  <2>3. state'[job[w]] = "failed" =>
          state[job[w]] = "failed" /\ attempts'[job[w]] = attempts[job[w]]
    BY <1>11, <2>1 DEF Release, Write
  <2> QED
    BY <2>1, <2>2, <2>3, FailLetGo DEF FailInv, FailedMeansExhausted
<1>12. ASSUME NEW w \in Workers, RecordFails(w) PROVE FailInv'
  <2>1. pc[w] \in Executing /\ LetGo(w) /\ attempts' = attempts /\ state' = state
    BY <1>12 DEF RecordFails
  <2> QED
    BY <2>1, FailLetGo DEF FailInv, FailedMeansExhausted
<1>13. ASSUME NEW w \in Workers, WorkerExits(w) PROVE FailInv'
  BY <1>13 DEF WorkerExits, FailInv, CopyIsTheRow, UnhandledAreUnknown,
               FailedMeansExhausted, Punctual
<1>14. CASE Reclaim
  BY <1>14, <1>k DEF Reclaim, ReclaimExpired, Expired
<1>15. CASE Start
  BY <1>15, <1>g DEF Start, ReclaimExpired, Expired, Forgotten
<1>16. CASE Shutdown
  BY <1>16, <1>k DEF Shutdown
<1>17. CASE Stop
  BY <1>17, <1>k DEF Stop
<1>18. CASE Crash
  BY <1>18, <1>g DEF Crash, Forgotten
<1>19. CASE Tick
  BY <1>19, <1>k DEF Tick
<1>20. CASE Stall
  BY <1>20, <1>k DEF Stall
<1>21. CASE UNCHANGED vars
  BY <1>21, <1>k DEF vars
<1> QED
  BY <1>1, <1>2, <1>3, <1>4, <1>5, <1>6, <1>7, <1>8, <1>9, <1>10, <1>11,
     <1>12, <1>13, <1>14, <1>15, <1>16, <1>17, <1>18, <1>19, <1>20, <1>21
     DEF Next, Record

(* A job of a known kind is failed only with all its attempts used, for any
   limits, jobs and workers, while the process is punctual. *)
THEOREM FailureIsExhaustion == Spec => []FailedMeansExhausted
<1>1. Init => FailInv
  BY ArgumentsAssumption
     DEF Init, FailInv, CopyIsTheRow, UnhandledAreUnknown, FailedMeansExhausted, Executing
<1>2. FailInv => FailedMeansExhausted
  BY DEF FailInv
<1> QED
  BY <1>1, <1>2, FailStep, Invariance, PTL DEF Spec
===============================================================================
