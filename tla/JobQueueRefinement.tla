-------------------------- MODULE JobQueueRefinement --------------------------
(***************************************************************************)
(* Proof that JobQueue implements ExclusiveWork when its process never     *)
(* stalls, and of what a step may do to a job that is over.                *)
(***************************************************************************)
EXTENDS JobQueueProofs

Settled == {j \in Jobs : state[j] \in {"succeeded", "failed", "purged"}}

(* The bounds under which the queue is punctual for ever. *)
Calm == MaxFaults["stall"] = 0 /\ MaxFaults["write"] + 1 < Lease

WithinBudget == \A f \in Fault : faults[f] <= MaxFaults[f]

(* Nothing is counted in faults beyond its bound. *)
LEMMA BudgetStep == TypeOK /\ WithinBudget /\ [Next]_vars => WithinBudget'
<1> SUFFICES ASSUME TypeOK, WithinBudget, [Next]_vars PROVE WithinBudget'
  OBVIOUS
<1>1. faults' = faults \/ \E f \in Fault : Suffer(f)
  BY DEF Next, Record, vars, tableVars, workerVars, Fault,
         Enqueue, Cancel, Purge, Claim, Renew, Progress, HandlerReturns,
         FinishSucceeded, FinishFailed, Retry, Release, RecordFails,
         WorkerExits, Reclaim, Start, Shutdown, Stop, Crash, Tick, Stall
<1>2. ASSUME NEW f \in Fault, Suffer(f) PROVE WithinBudget'
  <2> SUFFICES ASSUME NEW g \in Fault PROVE faults'[g] <= MaxFaults[g]
    BY DEF WithinBudget
  <2>1. faults[f] \in Nat /\ MaxFaults[f] \in Nat /\ faults[f] < MaxFaults[f]
    BY <1>2, MaxFaultsAssumption DEF Suffer, TypeOK
  <2>2. faults'[g] = IF g = f THEN faults[f] + 1 ELSE faults[g]
    BY <1>2 DEF Suffer, TypeOK
  <2> QED
    BY <2>1, <2>2 DEF WithinBudget
<1> QED
  BY <1>1, <1>2 DEF WithinBudget

(* Under bounds that are calm no renewal of a live worker ever comes too late. *)
LEMMA CalmIsPunctual == Calm /\ TypeOK /\ WithinBudget => Punctual
  BY MaxFaultsAssumption, TimesAssumption
     DEF Calm, TypeOK, WithinBudget, Punctual, Fault

(* A step of the queue is a step of the abstract specification, or changes
   neither who works on what nor which jobs are over. *)
LEMMA WorkStep ==
  TypeOK /\ IInv /\ Punctual /\ [Next]_vars => [Work!Next]_(Work!vars)
<1> SUFFICES ASSUME TypeOK, IInv, Punctual, [Next]_vars
             PROVE  Work!Next \/ (job' = job /\ Settled' = Settled)
  BY DEF Work!vars, Settled
<1> USE DEF TypeOK, Pending, Terminal, Executing, Settled, tableVars, workerVars
<1>1. \A w \in Workers : pc[w] \in Executing =>
        job[w] \in Jobs /\ state[job[w]] \in {"running", "cancelled", "purged"}
  BY DEF IInv, MemoryMatchesPc, ExecutedIsNotQueued
<1>2. ASSUME NEW j \in Jobs, Enqueue(j) \/ Cancel(j)
      PROVE  job' = job /\ Settled' = Settled
  BY <1>2 DEF Enqueue, Cancel, Cancellable
<1>3. ASSUME NEW old \in SUBSET Jobs, Purge(old) PROVE Work!Forget(old)
  BY <1>3 DEF Purge, Work!Forget
<1>4. ASSUME NEW w \in Workers, NEW j \in Jobs, Claim(w, j) PROVE Work!Take(w, j)
  <2>1. job[w] = NoJob /\ job' = [job EXCEPT ![w] = j]
    BY <1>4 DEF Claim, IInv, MemoryMatchesPc
  <2>2. j \notin Settled /\ Settled' = Settled
    BY <1>4 DEF Claim, Runnable
  <2>3. \A v \in Workers : job[v] # j
    BY <1>1, <1>4, JobsAssumption DEF Claim, Runnable, IInv, MemoryMatchesPc
  <2> QED
    BY <2>1, <2>2, <2>3 DEF Work!Take
<1>5. ASSUME NEW w \in Workers,
             Renew(w) \/ Progress(w) \/ WorkerExits(w)
             \/ \E o \in {"ok", "error", "interrupted"} : HandlerReturns(w, o)
      PROVE  job' = job /\ Settled' = Settled
  BY <1>5 DEF Renew, Progress, WorkerExits, HandlerReturns
<1>6. ASSUME NEW w \in Workers, FinishSucceeded(w) \/ FinishFailed(w)
      PROVE  Work!Settle(w)
  <2>1. pc[w] \in Executing /\ job[w] # NoJob /\ job' = [job EXCEPT ![w] = NoJob]
    BY <1>6 DEF FinishSucceeded, FinishFailed, LetGo, IInv, MemoryMatchesPc
  <2>2. Settled' = Settled \cup {job[w]}
    BY <1>1, <1>6, <2>1 DEF FinishSucceeded, FinishFailed, Write, MatchesNoRow
  <2> QED
    BY <2>1, <2>2 DEF Work!Settle
<1>7. ASSUME NEW w \in Workers, Retry(w) \/ Release(w) \/ RecordFails(w)
      PROVE  Work!Drop(w)
  <2>1. pc[w] \in Executing /\ job' = [job EXCEPT ![w] = NoJob]
    BY <1>7 DEF Retry, Release, RecordFails, LetGo
  <2>2. Settled' = Settled
    BY <1>1, <1>7, <2>1 DEF Retry, Release, RecordFails, Write, MatchesNoRow
  <2> QED
    BY <2>1, <2>2 DEF Work!Drop
<1>8. CASE Start \/ Crash
  <2>1. job' = [w \in Workers |-> NoJob] /\ Settled' = Settled
    BY <1>8 DEF Start, Crash, Forgotten, ReclaimExpired, Expired
  <2> QED
    BY <2>1 DEF Work!Next, Work!DropAll
<1>9. CASE Reclaim \/ Shutdown \/ Stop \/ Tick \/ Stall \/ UNCHANGED vars
  BY <1>9 DEF Reclaim, ReclaimExpired, Expired, Shutdown, Stop, Tick, Stall, vars
<1> QED
  BY <1>2, <1>3, <1>4, <1>5, <1>6, <1>7, <1>8, <1>9 DEF Next, Record, Work!Next

(* With no stall, and fewer failed writes than a lease has ticks, the table,
   leases and workers implement exclusive work on jobs that end once. *)
THEOREM ImplementsExclusion ==
  ASSUME Calm PROVE Spec => ImplementsExclusiveWork
<1>1. Init => Work!Init
  BY DEF Init, Work!Init
<1>2. Init => WithinBudget
  BY MaxFaultsAssumption DEF Init, WithinBudget
<1>3. TypeOK /\ IInv /\ WithinBudget /\ [Next]_vars => [Work!Next]_(Work!vars)
  BY CalmIsPunctual, WorkStep
<1> QED
  BY <1>1, <1>2, <1>3, BudgetStep, Invariance, PTL
     DEF Spec, ImplementsExclusiveWork, Work!Spec

(* Under any bounds: as long as no renewal of a live worker has come too late,
   every step is one of exclusive work.  What stalls and failed writes can take
   away, they take away only from then on. *)
THEOREM ExclusionWhilePunctual == Spec => [][Punctual => [Work!Next]_(Work!vars)]_vars
<1>1. TypeOK /\ IInv /\ [Next]_vars => [Punctual => [Work!Next]_(Work!vars)]_vars
  BY WorkStep
<1> QED
  BY <1>1, Invariance, PTL DEF Spec

(* While the process is punctual a recorded success or failure is final, and
   only the worker that was executing a cancelled job gives it another state. *)
THEOREM ReopenedByItsWorker == Spec => OnlyItsWorkerReopens
<1>1. TypeOK /\ IInv /\ [Next]_vars => [ReopeningStep]_vars
  <2> SUFFICES ASSUME TypeOK, IInv, Punctual, Next, NEW j \in Jobs,
                      state[j] \in Terminal, state'[j] \notin {state[j], "purged"}
               PROVE  /\ state[j] = "cancelled"
                      /\ \E w \in Workers : job[w] = j /\ job'[w] = NoJob
    BY DEF ReopeningStep
  <2> USE DEF TypeOK, Pending, Terminal, Executing, tableVars, workerVars
  <2>1. PICK w \in Workers : Record(w) /\ job[w] = j
    <3>1. ASSUME NEW i \in Jobs, Enqueue(i) \/ Cancel(i) PROVE FALSE
      BY <3>1 DEF Enqueue, Cancel, Cancellable
    <3>2. ASSUME NEW old \in SUBSET Jobs, Purge(old) PROVE FALSE
      BY <3>2 DEF Purge
    <3>3. ASSUME NEW v \in Workers, NEW i \in Jobs, Claim(v, i) PROVE FALSE
      BY <3>3 DEF Claim, Runnable
    <3>4. ASSUME NEW v \in Workers, Record(v) PROVE job[v] = j
      BY <3>4 DEF Record, FinishSucceeded, FinishFailed, Retry, Release, Write,
                  MatchesNoRow
    <3>5. CASE Reclaim \/ Start
      BY <3>5 DEF Reclaim, Start, ReclaimExpired, Expired
    <3>6. state' # state
      OBVIOUS
    <3>7. \A v \in Workers :
            /\ ~Renew(v) /\ ~Progress(v) /\ ~RecordFails(v) /\ ~WorkerExits(v)
            /\ \A o \in {"ok", "error", "interrupted"} : ~HandlerReturns(v, o)
      BY <3>6 DEF Renew, Progress, HandlerReturns, RecordFails, WorkerExits
    <3>8. ~Shutdown /\ ~Stop /\ ~Crash /\ ~Tick /\ ~Stall
      BY <3>6 DEF Shutdown, Stop, Crash, Tick, Stall
    <3>9. \E v \in Workers : Record(v)
      <4> HIDE DEF TypeOK, Pending, Terminal, Executing, tableVars, workerVars
      <4> QED
        BY <3>1, <3>2, <3>3, <3>5, <3>7, <3>8 DEF Next
    <3> QED
      BY <3>4, <3>9
  <2>2. pc[w] \in Executing /\ LetGo(w)
    BY <2>1 DEF Record, FinishSucceeded, FinishFailed, Retry, Release
  <2>3. state[j] \in {"running", "cancelled", "purged"}
    BY <2>1, <2>2 DEF IInv, ExecutedIsNotQueued
  <2> QED
    BY <2>1, <2>2, <2>3 DEF LetGo
<1> QED
  BY <1>1, Invariance, PTL DEF Spec, OnlyItsWorkerReopens
===============================================================================
