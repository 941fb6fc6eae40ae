--------------------------- MODULE JobQueueAttempts ---------------------------
(***************************************************************************)
(* Why the attempts beyond MaxAttempts are paid for, for any number of     *)
(* jobs and workers and any bounds on the disturbances; stalls and robbed  *)
(* workers are included.                                                   *)
(*                                                                         *)
(* A job is claimed once more for each time its row becomes queued.  It    *)
(* can do so without a further disturbance                                 *)
(*   - if it is queued already,                                            *)
(*   - if it is running and nobody keeps its lease,                        *)
(*   - once for every worker that executes it, if that worker's own copy   *)
(*     of the job says that there is an attempt left (Retry).              *)
(* These ways back are counted together with the attempts beyond the       *)
(* limit: a claim turns one into the other, and only a disturbance adds    *)
(* to the sum.                                                             *)
(***************************************************************************)
EXTENDS JobQueueProofs, FiniteSetTheorems

Retriers(j) ==
  {w \in Workers : pc[w] \in Executing /\ job[w] = j /\ attempt[w] < MaxAttempts[j]}

(* The row's lease has not fallen behind the heartbeat of one who executes it. *)
LeaseIsKept(j) ==
  /\ mode = "up"
  /\ \E w \in Workers :
       /\ pc[w] \in Executing /\ job[w] = j
       /\ leaseUntil[j] >= Lease - (IF due[w] THEN 1 ELSE 0)

ComesBack(j) == state[j] = "queued" \/ (state[j] = "running" /\ ~LeaseIsKept(j))

WaysBack(j) == Cardinality(Retriers(j)) + (IF ComesBack(j) THEN 1 ELSE 0)

(* Attempts beyond the limit; while there is one left, one way back is free. *)
Beyond(j) == IF attempts[j] < MaxAttempts[j] THEN -1 ELSE attempts[j] - MaxAttempts[j]

Disturbances == faults["crash"] + faults["stop"] + faults["write"] + faults["stall"]

(* A handler is interrupted only by the shutdown. *)
InterruptedByShutdown ==
  \A w \in Workers :
    outcome[w] = "interrupted" => mode = "stopping" /\ pc[w] \in Executing

(* A row that has not been inserted has no past. *)
NewRows ==
  \A j \in Jobs : state[j] = "none" => attempts[j] = 0 /\ \A w \in Workers : job[w] # j

Paid(j) == WaysBack(j) + Beyond(j) <= Disturbances

AttemptInv == InterruptedByShutdown /\ NewRows /\ \A j \in Jobs : Paid(j)

(* The workers that may retry a job are finitely many; one more or one less. *)
LEMMA Counting ==
  ASSUME NEW j \in Jobs
  PROVE  /\ IsFiniteSet(Retriers(j)) /\ Cardinality(Retriers(j)) \in Nat
         /\ \A T : T \subseteq Retriers(j) =>
              /\ IsFiniteSet(T) /\ Cardinality(T) \in Nat
              /\ Cardinality(T) <= Cardinality(Retriers(j))
         /\ \A w, T : w \in Retriers(j) /\ T \subseteq Retriers(j) \ {w} =>
              Cardinality(T) <= Cardinality(Retriers(j)) - 1
         /\ \A w, T : T \subseteq Retriers(j) \cup {w} =>
              Cardinality(T) <= Cardinality(Retriers(j)) + 1
<1> DEFINE R == Retriers(j)
<1>1. IsFiniteSet(R) /\ Cardinality(R) \in Nat
  BY WorkersAssumption, FS_Subset, FS_CardinalityType DEF Retriers
<1> HIDE DEF R
<1>2. ASSUME NEW T, T \subseteq R
      PROVE  IsFiniteSet(T) /\ Cardinality(T) \in Nat /\ Cardinality(T) <= Cardinality(R)
  BY <1>1, <1>2, FS_Subset, FS_CardinalityType
<1>3. ASSUME NEW w, NEW T, w \in R, T \subseteq R \ {w}
      PROVE  Cardinality(T) <= Cardinality(R) - 1
  <2>1. IsFiniteSet(R \ {w}) /\ Cardinality(R \ {w}) = Cardinality(R) - 1
    BY <1>1, <1>3, FS_RemoveElement
  <2> QED
    BY <1>3, <2>1, FS_Subset
<1>4. ASSUME NEW w, NEW T, T \subseteq R \cup {w}
      PROVE  Cardinality(T) <= Cardinality(R) + 1
  <2>1. IsFiniteSet(R \cup {w}) /\ Cardinality(R \cup {w}) \in Nat
    BY <1>1, FS_AddElement, FS_CardinalityType
  <2>2. Cardinality(R \cup {w}) <= Cardinality(R) + 1
    <3>1. CASE w \in R
      <4>1. R \cup {w} = R
        BY <3>1
      <4> QED
        BY <1>1, <4>1
    <3>2. CASE w \notin R
      <4>1. Cardinality(R \cup {w}) = Cardinality(R) + 1
        BY <1>1, <3>2, FS_AddElement
      <4> QED
        BY <1>1, <4>1
    <3> QED
      BY <3>1, <3>2
  <2>3. Cardinality(T) <= Cardinality(R \cup {w}) /\ Cardinality(T) \in Nat
    BY <1>4, <2>1, FS_Subset, FS_CardinalityType
  <2> QED
    BY <1>1, <2>1, <2>2, <2>3
<1> QED
  BY <1>1, <1>2, <1>3, <1>4 DEF R

(* What a step may do to the sum: nothing more, ... *)
LEMMA NothingMore ==
  ASSUME TypeOK, TypeOK', NEW j \in Jobs, Paid(j),
         Retriers(j)' \subseteq Retriers(j), attempts'[j] <= attempts[j],
         ComesBack(j)' => ComesBack(j), Disturbances' = Disturbances
  PROVE  Paid(j)'
<1>1. /\ Cardinality(Retriers(j)') <= Cardinality(Retriers(j))
      /\ Cardinality(Retriers(j)') \in Nat /\ Cardinality(Retriers(j)) \in Nat
  BY Counting
<1>2. attempts[j] \in Nat /\ attempts'[j] \in Nat /\ MaxAttempts[j] \in Nat
  BY ArgumentsAssumption DEF TypeOK
<1>3. Disturbances \in Nat
  BY DEF TypeOK, Fault, Disturbances
<1>4. Beyond(j)' <= Beyond(j) /\ Beyond(j) \in Int /\ Beyond(j)' \in Int
  BY <1>2 DEF Beyond
<1>5. /\ WaysBack(j) \in Int /\ WaysBack(j)' \in Int
      /\ WaysBack(j)' <= WaysBack(j)
  BY <1>1 DEF WaysBack
<1> QED
  BY <1>3, <1>4, <1>5 DEF Paid

(* ... or one more, which a disturbance pays for, ... *)
LEMMA OneMoreIsPaid ==
  ASSUME TypeOK, TypeOK', NEW j \in Jobs, Paid(j),
         Retriers(j)' \subseteq Retriers(j), attempts' = attempts,
         NEW f \in Fault, Suffer(f)
  PROVE  Paid(j)'
<1>1. /\ Cardinality(Retriers(j)') <= Cardinality(Retriers(j))
      /\ Cardinality(Retriers(j)') \in Nat /\ Cardinality(Retriers(j)) \in Nat
  BY Counting
<1>2. attempts[j] \in Nat /\ MaxAttempts[j] \in Nat
  BY ArgumentsAssumption DEF TypeOK
<1>3. Disturbances \in Nat /\ Disturbances' = Disturbances + 1
  BY DEF TypeOK, Fault, Disturbances, Suffer
<1>4. Beyond(j)' = Beyond(j) /\ Beyond(j) \in Int
  BY <1>2 DEF Beyond
<1>5. /\ WaysBack(j) \in Int /\ WaysBack(j)' \in Int
      /\ WaysBack(j)' <= WaysBack(j) + 1
  BY <1>1 DEF WaysBack
<1> QED
  BY <1>3, <1>4, <1>5 DEF Paid

(* ... or one that was there becomes another: a worker with an attempt left
   queues its job again. *)
LEMMA OneForAnother ==
  ASSUME TypeOK, TypeOK', NEW j \in Jobs, Paid(j),
         NEW w \in Retriers(j), Retriers(j)' \subseteq Retriers(j) \ {w},
         attempts' = attempts, Disturbances' = Disturbances
  PROVE  Paid(j)'
<1>1. /\ Cardinality(Retriers(j)') <= Cardinality(Retriers(j)) - 1
      /\ Cardinality(Retriers(j)') \in Nat /\ Cardinality(Retriers(j)) \in Nat
  BY Counting
<1>2. attempts[j] \in Nat /\ MaxAttempts[j] \in Nat
  BY ArgumentsAssumption DEF TypeOK
<1>3. Disturbances \in Nat
  BY DEF TypeOK, Fault, Disturbances
<1>4. Beyond(j)' = Beyond(j) /\ Beyond(j) \in Int
  BY <1>2 DEF Beyond
<1>5. /\ WaysBack(j) \in Int /\ WaysBack(j)' \in Int
      /\ WaysBack(j)' <= WaysBack(j)
  BY <1>1 DEF WaysBack
<1> QED
  BY <1>3, <1>4, <1>5 DEF Paid

(* A lease that is kept stays kept while the row is running and nothing is
   disturbed: whoever keeps it lets go only of a row that it finishes or
   queues, and no tick passes before a renewal that is due. *)
LEMMA KeptStep ==
  ASSUME TypeOK, IInv, PendingKeysUnique, [Next]_vars, NEW j \in Jobs,
         LeaseIsKept(j), state[j] = "running", state'[j] = "running", faults' = faults
  PROVE  LeaseIsKept(j)'
<1>1. PICK w \in Workers :
        pc[w] \in Executing /\ job[w] = j
          /\ leaseUntil[j] >= Lease - (IF due[w] THEN 1 ELSE 0)
  BY DEF LeaseIsKept
<1>2. mode = "up" /\ leaseUntil[j] \in Int /\ Lease \in Int
  BY Numbers DEF LeaseIsKept
<1> USE <1>1, <1>2 DEF TypeOK, Executing, Fault, tableVars, workerVars
<1> DEFINE Keeps(v) == /\ mode' = "up" /\ pc'[v] \in Executing /\ job'[v] = j
                       /\ leaseUntil'[j] >= Lease - (IF due'[v] THEN 1 ELSE 0)
<1>3. ASSUME NEW v \in Workers, Keeps(v) PROVE LeaseIsKept(j)'
  BY <1>3 DEF LeaseIsKept
<1>u. ASSUME UNCHANGED <<mode, pc, job, due>>, leaseUntil'[j] = leaseUntil[j]
      PROVE  LeaseIsKept(j)'
  BY <1>u, <1>3
<1>l. ASSUME NEW v \in Workers, LetGo(v), v # w, UNCHANGED mode,
             leaseUntil'[j] = leaseUntil[j]
      PROVE  LeaseIsKept(j)'
  <2>1. Keeps(w)
    BY <1>l DEF LetGo
  <2> QED
    BY <2>1, <1>3
<1>4. ASSUME NEW i \in Jobs, Enqueue(i) PROVE LeaseIsKept(j)'
  BY <1>4, <1>u DEF Enqueue
<1>5. ASSUME NEW i \in Jobs, Cancel(i) PROVE LeaseIsKept(j)'
  BY <1>5, <1>u DEF Cancel
<1>6. ASSUME NEW old \in SUBSET Jobs, Purge(old) PROVE LeaseIsKept(j)'
  BY <1>6, <1>u DEF Purge
<1>7. ASSUME NEW v \in Workers, NEW i \in Jobs, Claim(v, i) PROVE LeaseIsKept(j)'
  <2>1. v # w /\ i # j
    BY <1>7 DEF Claim, Runnable
  <2>2. Keeps(w)
    BY <1>7, <2>1 DEF Claim
  <2> QED
    BY <2>2, <1>3
<1>8. ASSUME NEW v \in Workers, Renew(v) PROVE LeaseIsKept(j)'
  <2>1. ExtendLease(job[v]) /\ job[v] \in Jobs
    BY <1>8 DEF Renew, Suffer, IInv, MemoryMatchesPc
  <2>2. CASE job[v] = j
    <3>1. leaseUntil'[j] = Lease
      BY <2>1, <2>2 DEF ExtendLease
    <3>2. Keeps(w)
      BY <1>8, <3>1 DEF Renew
    <3> QED
      BY <3>2, <1>3
  <2>3. CASE job[v] # j
    <3>1. leaseUntil'[j] = leaseUntil[j] /\ v # w
      BY <2>1, <2>3 DEF ExtendLease
    <3>2. Keeps(w)
      BY <1>8, <3>1 DEF Renew
    <3> QED
      BY <3>2, <1>3
  <2> QED
    BY <2>2, <2>3
<1>9. ASSUME NEW v \in Workers, Progress(v) PROVE LeaseIsKept(j)'
  BY <1>9, <1>u DEF Progress
<1>10. ASSUME NEW v \in Workers, NEW o \in {"ok", "error", "interrupted"},
              HandlerReturns(v, o)
       PROVE  LeaseIsKept(j)'
  <2>1. Keeps(w)
    BY <1>10 DEF HandlerReturns
  <2> QED
    BY <2>1, <1>3
<1>11. ASSUME NEW v \in Workers, FinishSucceeded(v) \/ FinishFailed(v)
       PROVE  LeaseIsKept(j)'
  <2>1. job[v] # j /\ LetGo(v) /\ UNCHANGED mode /\ job[v] \in Jobs
    BY <1>11 DEF FinishSucceeded, FinishFailed, Write, MatchesNoRow, IInv, MemoryMatchesPc
  <2>2. leaseUntil'[j] = leaseUntil[j]
    BY <1>11, <2>1 DEF FinishSucceeded, FinishFailed, Write, MatchesNoRow
  <2> QED
    BY <2>1, <2>2, <1>l
<1>12. ASSUME NEW v \in Workers, Retry(v) PROVE LeaseIsKept(j)'
  <2>1. LetGo(v) /\ UNCHANGED mode /\ job[v] \in Jobs
    BY <1>12 DEF Retry, IInv, MemoryMatchesPc
  <2>2. job[v] # j
    \* The index was asked for a row that holds its own key.
    <3>1. ~KeyTaken(j)
      BY DEF KeyTaken, PendingKeysUnique, Pending
    <3> QED
      BY <1>12, <3>1 DEF Retry, Write, MatchesNoRow
  <2>3. leaseUntil'[j] = leaseUntil[j]
    BY <1>12, <2>1, <2>2 DEF Retry, Write, MatchesNoRow
  <2> QED
    BY <2>1, <2>2, <2>3, <1>l
<1>13. ASSUME NEW v \in Workers, Release(v) PROVE LeaseIsKept(j)'
  <2>1. job[v] # j /\ LetGo(v) /\ UNCHANGED mode /\ job[v] \in Jobs
    BY <1>13 DEF Release, Write, IInv, MemoryMatchesPc
  <2>2. leaseUntil'[j] = leaseUntil[j]
    BY <1>13, <2>1 DEF Release, Write
  <2> QED
    BY <2>1, <2>2, <1>l
<1>14. ASSUME NEW v \in Workers, RecordFails(v) PROVE LeaseIsKept(j)'
  BY <1>14 DEF RecordFails, Suffer
<1>15. ASSUME NEW v \in Workers, WorkerExits(v) PROVE LeaseIsKept(j)'
  BY <1>15 DEF WorkerExits
<1>16. CASE Reclaim
  BY <1>16, <1>u DEF Reclaim, ReclaimExpired, Expired
<1>17. CASE Start \/ Shutdown \/ Stop \/ Crash \/ Stall
  BY <1>17 DEF Start, Shutdown, Stop, Crash, Serving, Stall, Suffer
<1>18. CASE Tick
  <2>1. ~due[w]
    BY <1>18 DEF Tick
  <2>2. leaseUntil[j] >= Lease
    BY <2>1
  <2>3. leaseUntil'[j] = leaseUntil[j] - 1
    BY <1>18, <2>2, TimesAssumption DEF Tick, Sooner
  <2>4. due'[w]
    BY <1>18 DEF Tick
  <2>5. leaseUntil'[j] >= Lease - (IF due'[w] THEN 1 ELSE 0)
    BY <2>2, <2>3, <2>4
  <2>6. mode' = "up" /\ pc'[w] \in Executing /\ job'[w] = j
    BY <1>18 DEF Tick
  <2> QED
    BY <2>5, <2>6, <1>3
<1>19. CASE UNCHANGED vars
  BY <1>19, <1>u DEF vars
<1> QED
  BY <1>4, <1>5, <1>6, <1>7, <1>8, <1>9, <1>10, <1>11, <1>12, <1>13, <1>14,
     <1>15, <1>16, <1>17, <1>18, <1>19 DEF Next, Record

(* The outcome of an interrupted handler is released or forgotten before the
   process serves again. *)
LEMMA InterruptedStep ==
  TypeOK /\ IInv /\ InterruptedByShutdown /\ [Next]_vars => InterruptedByShutdown'
<1> SUFFICES ASSUME TypeOK, IInv, InterruptedByShutdown, [Next]_vars
             PROVE  InterruptedByShutdown'
  OBVIOUS
<1> USE DEF TypeOK, Executing, InterruptedByShutdown, tableVars, workerVars
<1>k. ASSUME UNCHANGED <<mode, pc, outcome>> PROVE InterruptedByShutdown'
  BY <1>k
<1>l. ASSUME NEW w \in Workers, LetGo(w), UNCHANGED mode PROVE InterruptedByShutdown'
  <2>1. outcome'[w] = "none"
    BY <1>l DEF LetGo
  <2>2. \A v \in Workers \ {w} : outcome'[v] = outcome[v] /\ pc'[v] = pc[v]
    BY <1>l DEF LetGo
  <2> QED
    BY <1>l, <2>1, <2>2
<1>1. ASSUME NEW w \in Workers, NEW j \in Jobs, Claim(w, j) PROVE InterruptedByShutdown'
  BY <1>1 DEF Claim
<1>2. ASSUME NEW w \in Workers, NEW o \in {"ok", "error", "interrupted"},
             HandlerReturns(w, o)
      PROVE  InterruptedByShutdown'
  BY <1>2 DEF HandlerReturns
<1>3. ASSUME NEW w \in Workers, Record(w) \/ RecordFails(w) PROVE InterruptedByShutdown'
  BY <1>3, <1>l DEF Record, FinishSucceeded, FinishFailed, Retry, Release, RecordFails
<1>4. ASSUME NEW w \in Workers, WorkerExits(w) PROVE InterruptedByShutdown'
  BY <1>4 DEF WorkerExits
<1>5. CASE Start \/ Crash
  BY <1>5 DEF Start, Crash, Forgotten
<1>6. CASE Shutdown \/ Stop
  BY <1>6 DEF Shutdown, Stop
<1>7. ASSUME NEW j \in Jobs, Enqueue(j) \/ Cancel(j) PROVE InterruptedByShutdown'
  BY <1>7, <1>k DEF Enqueue, Cancel
<1>8. ASSUME NEW old \in SUBSET Jobs, Purge(old) PROVE InterruptedByShutdown'
  BY <1>8, <1>k DEF Purge
<1>9. ASSUME NEW w \in Workers, Renew(w) \/ Progress(w) PROVE InterruptedByShutdown'
  BY <1>9, <1>k DEF Renew, Progress
<1>10. CASE Reclaim \/ Tick \/ Stall
  BY <1>10, <1>k DEF Reclaim, Tick, Stall
<1>11. CASE UNCHANGED vars
  BY <1>11, <1>k DEF vars
<1> QED
  BY <1>1, <1>2, <1>3, <1>4, <1>5, <1>6, <1>7, <1>8, <1>9, <1>10, <1>11 DEF Next

(* Only Enqueue ends the time before the insert, and nothing returns to it. *)
LEMMA NewRowsStep == TypeOK /\ IInv /\ NewRows /\ [Next]_vars => NewRows'
<1> SUFFICES ASSUME TypeOK, IInv, NewRows, [Next]_vars,
                    NEW j \in Jobs, state'[j] = "none"
             PROVE  attempts'[j] = 0 /\ \A w \in Workers : job'[w] # j
  BY DEF NewRows
<1> USE JobsAssumption
<1> USE DEF TypeOK, NewRows, Pending, Terminal, Executing, tableVars, workerVars
<1>k. ASSUME state[j] = "none", attempts'[j] = attempts[j],
             \A w \in Workers : job'[w] = job[w] \/ job'[w] = NoJob
      PROVE  attempts'[j] = 0 /\ \A w \in Workers : job'[w] # j
  BY <1>k
<1>l. ASSUME NEW w \in Workers, LetGo(w)
      PROVE  \A v \in Workers : job'[v] = job[v] \/ job'[v] = NoJob
  BY <1>l DEF LetGo
<1>1. ASSUME NEW w \in Workers, NEW i \in Jobs, Claim(w, i)
      PROVE  attempts'[j] = 0 /\ \A v \in Workers : job'[v] # j
  BY <1>1 DEF Claim, Runnable
<1>2. ASSUME NEW w \in Workers, Record(w) \/ RecordFails(w)
      PROVE  attempts'[j] = 0 /\ \A v \in Workers : job'[v] # j
  <2>1. LetGo(w)
    BY <1>2 DEF Record, FinishSucceeded, FinishFailed, Retry, Release, RecordFails
  <2>2. job[w] \in Jobs
    BY <1>2 DEF Record, FinishSucceeded, FinishFailed, Retry, Release, RecordFails,
                IInv, MemoryMatchesPc
  <2>3. state[j] = "none"
    BY <1>2, <2>2 DEF Record, FinishSucceeded, FinishFailed, Retry, Release, RecordFails,
                      Write, MatchesNoRow
  <2>4. attempts'[j] = attempts[j]
    BY <1>2, <2>2, <2>3 DEF Record, FinishSucceeded, FinishFailed, Retry, Release,
                            RecordFails
  <2> QED
    BY <1>k, <1>l, <2>1, <2>3, <2>4
<1>3. ASSUME NEW i \in Jobs, Enqueue(i) \/ Cancel(i)
      PROVE  attempts'[j] = 0 /\ \A w \in Workers : job'[w] # j
  BY <1>3, <1>k DEF Enqueue, Cancel
<1>4. ASSUME NEW old \in SUBSET Jobs, Purge(old)
      PROVE  attempts'[j] = 0 /\ \A w \in Workers : job'[w] # j
  BY <1>4, <1>k DEF Purge
<1>5. ASSUME NEW w \in Workers, Renew(w) \/ Progress(w) \/ WorkerExits(w)
      PROVE  attempts'[j] = 0 /\ \A v \in Workers : job'[v] # j
  BY <1>5, <1>k DEF Renew, Progress, WorkerExits
<1>6. ASSUME NEW w \in Workers, NEW o \in {"ok", "error", "interrupted"},
             HandlerReturns(w, o)
      PROVE  attempts'[j] = 0 /\ \A v \in Workers : job'[v] # j
  BY <1>6, <1>k DEF HandlerReturns
<1>7. CASE Start \/ Crash
  BY <1>7, <1>k DEF Start, Crash, Forgotten, ReclaimExpired, Expired
<1>8. CASE Reclaim
  BY <1>8, <1>k DEF Reclaim, ReclaimExpired, Expired
<1>9. CASE Shutdown \/ Stop \/ Tick \/ Stall
  BY <1>9, <1>k DEF Shutdown, Stop, Tick, Stall
<1>10. CASE UNCHANGED vars
  BY <1>10, <1>k DEF vars
<1> QED
  BY <1>1, <1>2, <1>3, <1>4, <1>5, <1>6, <1>7, <1>8, <1>9, <1>10 DEF Next

(* One step per action of Next: which of the three it is. *)
LEMMA PaidStep ==
  ASSUME TypeOK, TypeOK', IInv, PendingKeysUnique, AttemptInv, [Next]_vars, NEW j \in Jobs
  PROVE  Paid(j)'
<1> USE JobsAssumption, ArgumentsAssumption
<1> USE DEF TypeOK, Executing, tableVars, workerVars
<1>p. Paid(j)
  BY DEF AttemptInv
<1>d. ASSUME NEW f \in Fault, Suffer(f), attempts' = attempts,
             Retriers(j)' \subseteq Retriers(j)
      PROVE  Paid(j)'
  BY <1>d, <1>p, OneMoreIsPaid
<1>n. ASSUME faults' = faults, attempts'[j] <= attempts[j],
             Retriers(j)' \subseteq Retriers(j), ComesBack(j)' => ComesBack(j)
      PROVE  Paid(j)'
  <2>1. Disturbances' = Disturbances
    BY <1>n DEF Disturbances
  <2> QED
    BY <1>n, <1>p, <2>1, NothingMore
<1>m. ASSUME UNCHANGED <<pc, job, attempt>>
      PROVE  Retriers(j)' = Retriers(j)
  BY <1>m DEF Retriers
<1>l. ASSUME NEW w \in Workers, pc[w] \in Executing, LetGo(w)
      PROVE  Retriers(j)' \subseteq Retriers(j) \ {w}
  <2>1. pc'[w] = "idle"
    BY <1>l DEF LetGo
  <2>2. \A v \in Workers \ {w} :
          pc'[v] = pc[v] /\ job'[v] = job[v] /\ attempt'[v] = attempt[v]
    BY <1>l DEF LetGo
  <2> QED
    BY <2>1, <2>2 DEF Retriers
<1>f. ASSUME NEW p \in {"idle", "exited"}, Forgotten(p) PROVE Retriers(j)' = {}
  BY <1>f DEF Forgotten, Retriers
\* A row that stays as it was comes back only if it did before.
<1>c. ASSUME faults' = faults, state'[j] = state[j] \/ state'[j] \notin Pending
      PROVE  ComesBack(j)' => ComesBack(j)
  <2>1. CASE state'[j] = "running" /\ state[j] = "running"
    BY <1>c, <2>1, KeptStep DEF ComesBack
  <2>2. CASE ~(state'[j] = "running" /\ state[j] = "running")
    BY <1>c, <2>2 DEF ComesBack, Pending
  <2> QED
    BY <2>1, <2>2
<1>1. ASSUME NEW i \in Jobs, Enqueue(i) PROVE Paid(j)'
  <2>1. CASE i # j
    <3>1. state'[j] = state[j] /\ faults' = faults /\ attempts' = attempts
      BY <1>1, <2>1 DEF Enqueue
    <3>2. Retriers(j)' = Retriers(j)
      BY <1>1, <1>m DEF Enqueue
    <3> QED
      BY <1>n, <1>c, <3>1, <3>2
  <2>2. CASE i = j
    <3>1. attempts'[j] = 0 /\ Retriers(j)' = {}
      BY <1>1, <2>2 DEF Enqueue, Retriers, AttemptInv, NewRows
    <3>2. Beyond(j)' = -1
      BY <3>1 DEF Beyond
    <3>3. WaysBack(j)' \in {0, 1}
      BY <3>1, FS_EmptySet DEF WaysBack
    <3>4. Disturbances' \in Nat
      BY DEF Disturbances, Fault
    <3> QED
      BY <3>2, <3>3, <3>4 DEF Paid
  <2> QED
    BY <2>1, <2>2
<1>2. ASSUME NEW i \in Jobs, Cancel(i) PROVE Paid(j)'
  <2>1. (state'[j] = state[j] \/ state'[j] \notin Pending)
          /\ faults' = faults /\ attempts' = attempts
    BY <1>2 DEF Cancel, Pending
  <2>2. Retriers(j)' = Retriers(j)
    BY <1>2, <1>m DEF Cancel
  <2> QED
    BY <1>n, <1>c, <2>1, <2>2
<1>3. ASSUME NEW old \in SUBSET Jobs, Purge(old) PROVE Paid(j)'
  <2>1. /\ state'[j] = state[j] \/ state'[j] \notin Pending
        /\ faults' = faults /\ attempts'[j] <= attempts[j]
    BY <1>3 DEF Purge, Pending
  <2>2. Retriers(j)' = Retriers(j)
    BY <1>3, <1>m DEF Purge
  <2> QED
    BY <1>n, <1>c, <2>1, <2>2
<1>4. ASSUME NEW w \in Workers, NEW i \in Jobs, Claim(w, i) PROVE Paid(j)'
  <2>1. CASE i # j
    <3>1. state'[j] = state[j] /\ faults' = faults /\ attempts'[j] = attempts[j]
      BY <1>4, <2>1 DEF Claim
    <3>2. Retriers(j)' \subseteq Retriers(j)
      BY <1>4, <2>1 DEF Claim, Retriers
    <3> QED
      BY <1>n, <1>c, <3>1, <3>2
  <2>2. CASE i = j
    <3>1. /\ state[j] = "queued" /\ state'[j] = "running" /\ mode' = "up"
          /\ attempts'[j] = attempts[j] + 1 /\ attempt'[w] = attempts[j] + 1
          /\ leaseUntil'[j] = Lease /\ faults' = faults
          /\ pc'[w] \in Executing /\ job'[w] = j
      BY <1>4, <2>2 DEF Claim, Runnable
    <3>2. ComesBack(j) /\ ~ComesBack(j)'
      <4>1. leaseUntil'[j] >= Lease - (IF due'[w] THEN 1 ELSE 0)
        BY <3>1, TimesAssumption
      <4> QED
        BY <3>1, <4>1 DEF ComesBack, LeaseIsKept
    <3>3. /\ Cardinality(Retriers(j)) \in Nat
          /\ \A v \in Workers \ {w} :
               pc'[v] = pc[v] /\ job'[v] = job[v] /\ attempt'[v] = attempt[v]
      BY <1>4, Counting DEF Claim
    <3>4. Disturbances \in Nat /\ Disturbances' = Disturbances
      BY <3>1 DEF Disturbances, Fault
    <3>5. attempts[j] \in Nat /\ MaxAttempts[j] \in Nat
      OBVIOUS
    <3>6. /\ WaysBack(j) = Cardinality(Retriers(j)) + 1
          /\ WaysBack(j)' = Cardinality(Retriers(j)') + 0
      BY <3>2 DEF WaysBack
    <3>r. Retriers(j)' \subseteq Retriers(j) \cup {w}
      BY <3>3 DEF Retriers
    <3>c. Cardinality(Retriers(j)') \in Nat
      <4>1. IsFiniteSet(Retriers(j)')
        BY WorkersAssumption, FS_Subset DEF Retriers
      <4> QED
        BY <4>1, FS_CardinalityType
    <3>9. ASSUME NEW n \in Int, Beyond(j) \in Int, Beyond(j)' = Beyond(j) + n,
                 Cardinality(Retriers(j)') <= Cardinality(Retriers(j)) + 1 - n
          PROVE  Paid(j)'
      <4>1. Cardinality(Retriers(j)) + 1 + Beyond(j) <= Disturbances
        BY <1>p, <3>6 DEF Paid
      <4>2. WaysBack(j)' = Cardinality(Retriers(j)')
        BY <3>6, <3>c
      <4>3. WaysBack(j)' + Beyond(j)' <= Disturbances
        BY <3>3, <3>4, <3>9, <3>c, <4>1, <4>2
      <4> QED
        BY <3>4, <4>3 DEF Paid
    <3>7. CASE attempts[j] + 1 < MaxAttempts[j]
      <4>1. Cardinality(Retriers(j)') <= Cardinality(Retriers(j)) + 1
        BY <3>r, Counting
      <4>2. Cardinality(Retriers(j)') <= Cardinality(Retriers(j)) + 1 - 0
        BY <3>3, <3>c, <4>1
      <4>3. Beyond(j)' = Beyond(j) + 0 /\ Beyond(j) \in Int
        BY <3>1, <3>5, <3>7 DEF Beyond
      <4> QED
        BY <3>9, <4>2, <4>3
    <3>8. CASE attempts[j] + 1 >= MaxAttempts[j]
      <4>1. Retriers(j)' \subseteq Retriers(j)
        BY <3>1, <3>3, <3>5, <3>8 DEF Retriers
      <4>2. Cardinality(Retriers(j)') <= Cardinality(Retriers(j)) + 1 - 1
        BY <3>3, <3>c, <4>1, Counting
      <4>3. Beyond(j)' = Beyond(j) + 1 /\ Beyond(j) \in Int
        BY <3>1, <3>5, <3>8 DEF Beyond
      <4> QED
        BY <3>9, <4>2, <4>3
    <3> QED
      BY <3>5, <3>7, <3>8
  <2> QED
    BY <2>1, <2>2
<1>5. ASSUME NEW w \in Workers, Renew(w) PROVE Paid(j)'
  <2>1. Retriers(j)' = Retriers(j) /\ attempts' = attempts /\ state' = state
    BY <1>5, <1>m DEF Renew
  <2>2. CASE Suffer("write")
    BY <1>d, <2>1, <2>2 DEF Fault
  <2>3. CASE faults' = faults
    BY <1>n, <1>c, <2>1, <2>3
  <2> QED
    BY <1>5, <2>2, <2>3 DEF Renew
<1>6. ASSUME NEW w \in Workers, Progress(w) PROVE Paid(j)'
  BY <1>6, <1>m, <1>n, <1>c DEF Progress
<1>7. ASSUME NEW w \in Workers, NEW o \in {"ok", "error", "interrupted"},
             HandlerReturns(w, o)
      PROVE  Paid(j)'
  <2>1. Retriers(j)' \subseteq Retriers(j)
    BY <1>7 DEF HandlerReturns, Retriers
  <2> QED
    BY <1>7, <1>n, <1>c, <2>1 DEF HandlerReturns
<1>8. ASSUME NEW w \in Workers, FinishSucceeded(w) \/ FinishFailed(w) PROVE Paid(j)'
  <2>1. /\ pc[w] \in Executing /\ LetGo(w) /\ job[w] \in Jobs
        /\ faults' = faults /\ attempts' = attempts
    BY <1>8 DEF FinishSucceeded, FinishFailed, IInv, MemoryMatchesPc
  <2>2. state'[j] = state[j] \/ state'[j] \notin Pending
    BY <1>8, <2>1 DEF FinishSucceeded, FinishFailed, Write, MatchesNoRow, Pending
  <2> QED
    BY <1>n, <1>c, <1>l, <2>1, <2>2
<1>9. ASSUME NEW w \in Workers, Retry(w) PROVE Paid(j)'
  <2>1. /\ pc[w] \in Executing /\ LetGo(w) /\ job[w] \in Jobs
        /\ faults' = faults /\ attempts' = attempts /\ ~Exhausted(w)
    BY <1>9 DEF Retry, IInv, MemoryMatchesPc
  <2>2. Retriers(j)' \subseteq Retriers(j) \ {w}
    BY <1>l, <2>1
  <2>3. CASE job[w] = j
    <3>1. w \in Retriers(j)
      BY <2>1, <2>3 DEF Retriers, Exhausted
    <3>2. Disturbances' = Disturbances
      BY <2>1 DEF Disturbances
    <3> QED
      BY <1>p, <2>1, <2>2, <3>1, <3>2, OneForAnother
  <2>4. CASE job[w] # j
    <3>1. state'[j] = state[j]
      BY <1>9, <2>1, <2>4 DEF Retry, Write, MatchesNoRow
    <3> QED
      BY <1>n, <1>c, <2>1, <2>2, <3>1
  <2> QED
    BY <2>3, <2>4
<1>10. ASSUME NEW w \in Workers, Release(w) PROVE Paid(j)'
  <2>1. /\ pc[w] \in Executing /\ LetGo(w) /\ job[w] \in Jobs
        /\ faults' = faults /\ mode = "stopping"
    BY <1>10 DEF Release, IInv, MemoryMatchesPc, AttemptInv, InterruptedByShutdown
  <2>2. attempts'[j] <= attempts[j]
    BY <1>10, <2>1 DEF Release
  <2>3. CASE state'[j] = state[j]
    BY <1>n, <1>c, <1>l, <2>1, <2>2, <2>3
  <2>4. CASE state'[j] # state[j]
    \* Nobody keeps a lease while the pool is stopping.
    <3>1. ComesBack(j)
      BY <1>10, <2>1, <2>4 DEF Release, Write, ComesBack, LeaseIsKept
    <3> QED
      BY <1>n, <1>l, <2>1, <2>2, <3>1
  <2> QED
    BY <2>3, <2>4
<1>11. ASSUME NEW w \in Workers, RecordFails(w) PROVE Paid(j)'
  <2>1. /\ pc[w] \in Executing /\ LetGo(w) /\ attempts' = attempts /\ state' = state
        /\ Retriers(j)' \subseteq Retriers(j)
    BY <1>11, <1>l DEF RecordFails
  <2>2. CASE Suffer("write")
    BY <1>d, <2>1, <2>2 DEF Fault
  <2>3. CASE faults' = faults
    BY <1>n, <1>c, <2>1, <2>3
  <2> QED
    BY <1>11, <2>2, <2>3 DEF RecordFails
<1>12. ASSUME NEW w \in Workers, WorkerExits(w) PROVE Paid(j)'
  <2>1. Retriers(j)' \subseteq Retriers(j)
    BY <1>12 DEF WorkerExits, Retriers
  <2> QED
    BY <1>12, <1>n, <1>c, <2>1 DEF WorkerExits
<1>13. CASE Reclaim
  <2>1. /\ Retriers(j)' = Retriers(j) /\ faults' = faults /\ attempts' = attempts
        /\ state'[j] = IF Expired(j) THEN "queued" ELSE state[j]
    BY <1>13, <1>m DEF Reclaim, ReclaimExpired
  <2>2. CASE Expired(j)
    <3>1. ~LeaseIsKept(j)
      BY <2>2, TimesAssumption DEF Expired, LeaseIsKept
    <3>2. ComesBack(j)
      BY <2>2, <3>1 DEF Expired, ComesBack
    <3> QED
      BY <1>n, <2>1, <3>2
  <2>3. CASE ~Expired(j)
    BY <1>n, <1>c, <2>1, <2>3
  <2> QED
    BY <2>2, <2>3
<1>14. CASE Start
  <2>1. Retriers(j)' = {} /\ attempts' = attempts
    BY <1>14, <1>f DEF Start, ReclaimExpired
  <2>2. CASE Suffer("write")
    BY <1>d, <2>1, <2>2 DEF Fault
  <2>3. CASE faults' = faults
    <3>1. state'[j] \in Pending => state[j] = "queued" \/ state[j] = "running"
      BY <1>14 DEF Start, ReclaimExpired, Expired, Pending
    <3>2. ComesBack(j)' => ComesBack(j)
      BY <1>14, <3>1 DEF Start, ComesBack, LeaseIsKept, Pending
    <3> QED
      BY <1>n, <2>1, <2>3, <3>2
  <2> QED
    BY <1>14, <2>2, <2>3 DEF Start
<1>15. CASE Shutdown
  BY <1>15, <1>m, <1>d DEF Shutdown, Fault
<1>16. CASE Stop
  BY <1>16, <1>m, <1>n, <1>c DEF Stop
<1>17. CASE Crash
  <2>1. Retriers(j)' = {} /\ attempts' = attempts /\ Suffer("crash")
    BY <1>17, <1>f DEF Crash
  <2> QED
    BY <1>d, <2>1 DEF Fault
<1>18. CASE Tick
  BY <1>18, <1>m, <1>n, <1>c DEF Tick
<1>19. CASE Stall
  BY <1>19, <1>m, <1>d DEF Stall, Fault
<1>20. CASE UNCHANGED vars
  BY <1>20, <1>m, <1>n, <1>c DEF vars
<1> QED
  BY <1>1, <1>2, <1>3, <1>4, <1>5, <1>6, <1>7, <1>8, <1>9, <1>10, <1>11, <1>12,
     <1>13, <1>14, <1>15, <1>16, <1>17, <1>18, <1>19, <1>20 DEF Next, Record

(* A job is executed more often than MaxAttempts allows only at the price of a
   crash, a shutdown, a failed write or a stall each time, for any number of jobs
   and workers, with robbed workers that still retry what is no longer theirs. *)
THEOREM AttemptsAreAccounted == Spec => []AttemptsAccounted
<1>1. Init => PendingKeysUnique
  BY DEF Init, PendingKeysUnique, Pending
<1>2. Init => AttemptInv
  <2> SUFFICES ASSUME Init PROVE AttemptInv
    OBVIOUS
  <2>1. InterruptedByShutdown /\ NewRows
    BY JobsAssumption DEF Init, InterruptedByShutdown, NewRows
  <2>2. ASSUME NEW j \in Jobs PROVE Paid(j)
    <3>1. Retriers(j) = {} /\ ~ComesBack(j)
      BY <2>2 DEF Init, Retriers, ComesBack, Executing
    <3>2. WaysBack(j) = 0
      BY <3>1, FS_EmptySet DEF WaysBack
    <3>3. Beyond(j) = -1
      BY <2>2, ArgumentsAssumption DEF Init, Beyond
    <3>4. Disturbances = 0
      BY DEF Init, Disturbances, Fault
    <3> QED
      BY <3>2, <3>3, <3>4 DEF Paid
  <2> QED
    BY <2>1, <2>2 DEF AttemptInv
<1>3. TypeOK /\ TypeOK' /\ IInv /\ PendingKeysUnique /\ AttemptInv /\ [Next]_vars
        => AttemptInv'
  BY InterruptedStep, NewRowsStep, PaidStep DEF AttemptInv
<1>4. TypeOK /\ AttemptInv => AttemptsAccounted
  <2> SUFFICES ASSUME TypeOK, AttemptInv, NEW j \in Jobs
               PROVE  attempts[j] <= MaxAttempts[j] + Disturbances
    <3> SUFFICES ASSUME TypeOK, NEW j \in Jobs, attempts[j] <= MaxAttempts[j] + Disturbances
                 PROVE  attempts[j] <= MaxAttempts[j] + faults["crash"] + faults["stop"]
                                                      + faults["write"] + faults["stall"]
      BY DEF AttemptsAccounted
    <3> QED
      BY ArgumentsAssumption DEF Disturbances, TypeOK, Fault
  <2>1. WaysBack(j) \in Nat
    BY Counting DEF WaysBack
  <2>2. attempts[j] \in Nat /\ MaxAttempts[j] \in Nat
    BY ArgumentsAssumption DEF TypeOK
  <2>3. Disturbances \in Nat
    BY DEF TypeOK, Fault, Disturbances
  <2>4. WaysBack(j) + Beyond(j) <= Disturbances
    BY DEF AttemptInv, Paid
  <2> QED
    BY <2>1, <2>2, <2>3, <2>4 DEF Beyond
<1> QED
  BY <1>1, <1>2, <1>3, <1>4, KeysStep, Invariance, PTL DEF Spec
===============================================================================
