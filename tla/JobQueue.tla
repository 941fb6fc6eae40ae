------------------------------- MODULE JobQueue -------------------------------
(***************************************************************************)
(* The background job queue of manualbox: the jobs table of the SQLite     *)
(* database (internal/db), the operations of the API on it (Queue, in      *)
(* internal/jobs/queue.go) and the pool of workers that executes it (Pool, *)
(* in internal/jobs/worker.go), through shutdowns, crashes and restarts of *)
(* the one process that serves it.                                         *)
(*                                                                         *)
(* Every SQL statement of internal/db/queries/jobs.sql is one atomic step: *)
(* the write pool has a single connection.  What happens between two       *)
(* statements of a worker (the handler runs, a lease lapses, a user        *)
(* cancels, the process is told to stop) interleaves freely.               *)
(*                                                                         *)
(* Time.  One Tick is one renewal interval, a third of a lease.  The two   *)
(* timestamps that decide anything are kept as the number of ticks that    *)
(* are left: leaseUntil[j] = 0 says lease_until < now, runAfter[j] = 0     *)
(* says run_after <= now.                                                  *)
(*                                                                         *)
(* Left out: payload, progress, usage accounting, error texts and display  *)
(* timestamps, which decide nothing here; finished_at, which every write   *)
(* of a terminal state sets; the worker's name, which no statement reads;  *)
(* and the events published after each write.                              *)
(***************************************************************************)
EXTENDS Integers, FiniteSets

CONSTANTS
  Jobs,         \* the IDs Enqueue will draw; they sort like the ULIDs they are
  Workers,      \* the worker goroutines of the pool
  NoJob,        \* a worker's job while it has none
  NoKey,        \* dedupe_key NULL
  \* The arguments of the Enqueue call that draws the ID:
  Key,          \* its DedupeKey
  Priority,     \* its Priority
  MaxAttempts,  \* its MaxAttempts, defaulted
  StartDelay,   \* its RunAfter
  Handled,      \* the jobs whose kind has a registered handler
  Reporting,    \* of those, the jobs whose handler reports progress
  Backoffs,     \* the delays ExponentialBackoff can return, in ticks
  Lease,        \* the lease duration, in ticks
  MaxFaults     \* bound on what is counted in faults, for each kind

Fault == {"crash", "stop", "write", "stall"}
NoLease == -1   \* lease_until NULL

ASSUME JobsAssumption == Jobs \subseteq Nat /\ NoJob \notin Jobs
ASSUME ArgumentsAssumption ==
  /\ DOMAIN Key = Jobs
  /\ Priority \in [Jobs -> Int]
  /\ MaxAttempts \in [Jobs -> Nat \ {0}]
  /\ StartDelay \in [Jobs -> Nat]
  /\ Handled \subseteq Jobs
  /\ Reporting \subseteq Handled
ASSUME WorkersAssumption == IsFiniteSet(Workers)
ASSUME TimesAssumption == Backoffs \subseteq Nat /\ Lease \in Nat \ {0, 1}
ASSUME MaxFaultsAssumption == MaxFaults \in [Fault -> Nat]

VARIABLES
  \* The jobs table.
  state,       \* "none" before the row is inserted, "purged" once deleted
  attempts,
  leaseUntil,
  runAfter,
  \* The workers' memory, lost when the process ends.
  pc,          \* what each goroutine is doing
  job,         \* the Job its claim returned
  attempt,     \* Attempts in that in-memory Job
  outcome,     \* how the handler ended
  due,         \* a tick of the renewal timer has not been served yet
  report,      \* what the last Progress call of the handler returned
  \* The process.
  mode,        \* "stopping" once the pool's context is cancelled
  faults       \* how often each kind of disturbance has happened

tableVars == <<state, attempts, leaseUntil, runAfter>>
workerVars == <<pc, job, attempt, outcome, due, report>>
vars == <<state, attempts, leaseUntil, runAfter,
          pc, job, attempt, outcome, due, report, mode, faults>>

Pending == {"queued", "running"}
Terminal == {"succeeded", "failed", "cancelled"}
Executing == {"handling", "recording"}

TypeOK ==
  /\ state \in [Jobs -> {"none", "purged"} \cup Pending \cup Terminal]
  /\ attempts \in [Jobs -> Nat]
  /\ leaseUntil \in [Jobs -> Nat \cup {NoLease}]
  /\ runAfter \in [Jobs -> Nat]
  /\ pc \in [Workers -> {"idle", "exited"} \cup Executing]
  /\ job \in [Workers -> Jobs \cup {NoJob}]
  /\ attempt \in [Workers -> Nat]
  /\ outcome \in [Workers -> {"none", "ok", "error", "interrupted", "unhandled"}]
  /\ due \in [Workers -> BOOLEAN]
  /\ report \in [Workers -> {"none", "nil", "error"}]
  /\ mode \in {"down", "up", "stopping"}
  /\ faults \in [Fault -> Nat]

Forgotten(p) ==   \* the workers' memory when every one of them is at p
  /\ pc' = [w \in Workers |-> p]
  /\ job' = [w \in Workers |-> NoJob]
  /\ attempt' = [w \in Workers |-> 0]
  /\ outcome' = [w \in Workers |-> "none"]
  /\ due' = [w \in Workers |-> FALSE]
  /\ report' = [w \in Workers |-> "none"]

Init ==
  /\ state = [j \in Jobs |-> "none"]
  /\ attempts = [j \in Jobs |-> 0]
  /\ leaseUntil = [j \in Jobs |-> NoLease]
  /\ runAfter = [j \in Jobs |-> 0]
  /\ pc = [w \in Workers |-> "exited"]
  /\ job = [w \in Workers |-> NoJob]
  /\ attempt = [w \in Workers |-> 0]
  /\ outcome = [w \in Workers |-> "none"]
  /\ due = [w \in Workers |-> FALSE]
  /\ report = [w \in Workers |-> "none"]
  /\ mode = "down"
  /\ faults = [f \in Fault |-> 0]

Suffer(f) ==
  /\ faults[f] < MaxFaults[f]
  /\ faults' = [faults EXCEPT ![f] = @ + 1]

(***************************************************************************)
(* The operations of Queue, called by HTTP handlers.  They run under the   *)
(* request's context, so they still work while the process is stopping.    *)
(***************************************************************************)
Serving == mode \in {"up", "stopping"}

(* Mutant: the index covers queued rows only. *)
KeyTakenByQueued(j) ==
  /\ Key[j] # NoKey
  /\ \E i \in Jobs \ {j} : Key[i] = Key[j] /\ state[i] = "queued"

(* The partial unique index: another pending row holds the key of j. *)
KeyTaken(j) ==
  /\ Key[j] # NoKey
  /\ \E i \in Jobs \ {j} : Key[i] = Key[j] /\ state[i] \in Pending

(* A rejected insert (the caller gets the pending job) changes nothing. *)
Enqueue(j) ==
  /\ Serving
  /\ state[j] = "none"
  /\ ~KeyTaken(j)
  /\ state' = [state EXCEPT ![j] = "queued"]
  /\ runAfter' = [runAfter EXCEPT ![j] = StartDelay[j]]
  /\ UNCHANGED <<attempts, leaseUntil, mode, faults>>
  /\ UNCHANGED workerVars

(* Mutant: CancelJob without its condition on the state. *)
AnyRowIsCancellable(j) == state[j] \notin {"none", "purged"}

Cancellable(j) == state[j] \in Pending

(* The job goes; a handler that is executing it does not. *)
Cancel(j) ==
  /\ Serving
  /\ Cancellable(j)
  /\ state' = [state EXCEPT ![j] = "cancelled"]
  /\ leaseUntil' = [leaseUntil EXCEPT ![j] = NoLease]
  /\ UNCHANGED <<attempts, runAfter, mode, faults>>
  /\ UNCHANGED workerVars

(* The cutoff may fall anywhere among the finished jobs. *)
Purge(old) ==
  /\ Serving
  /\ old # {}
  /\ \A j \in old : state[j] \in Terminal
  /\ state' = [j \in Jobs |-> IF j \in old THEN "purged" ELSE state[j]]
  /\ attempts' = [j \in Jobs |-> IF j \in old THEN 0 ELSE attempts[j]]
  /\ runAfter' = [j \in Jobs |-> IF j \in old THEN 0 ELSE runAfter[j]]
  /\ UNCHANGED <<leaseUntil, mode, faults>>
  /\ UNCHANGED workerVars

(***************************************************************************)
(* A worker of the pool.                                                   *)
(***************************************************************************)
(* Mutant: the claim refuses a job that has no attempt left. *)
RunnableWithinLimit(j) ==
  state[j] = "queued" /\ runAfter[j] = 0 /\ attempts[j] < MaxAttempts[j]

Runnable(j) == state[j] = "queued" /\ runAfter[j] = 0

RunsBefore(i, j) == \/ Priority[i] > Priority[j]
                    \/ Priority[i] = Priority[j] /\ i < j

(* ClaimNextJob, and execute up to the call of the handler. *)
Claim(w, j) ==
  /\ mode = "up"
  /\ pc[w] = "idle"
  /\ Runnable(j)
  /\ \A i \in Jobs \ {j} : Runnable(i) => RunsBefore(j, i)
  /\ state' = [state EXCEPT ![j] = "running"]
  /\ attempts' = [attempts EXCEPT ![j] = @ + 1]
  /\ leaseUntil' = [leaseUntil EXCEPT ![j] = Lease]
  /\ job' = [job EXCEPT ![w] = j]
  /\ attempt' = [attempt EXCEPT ![w] = attempts[j] + 1]
  /\ \/ /\ j \in Handled
        /\ pc' = [pc EXCEPT ![w] = "handling"]
        /\ UNCHANGED outcome
     \/ /\ j \notin Handled
        /\ pc' = [pc EXCEPT ![w] = "recording"]
        /\ outcome' = [outcome EXCEPT ![w] = "unhandled"]
  /\ UNCHANGED <<runAfter, due, report, mode, faults>>

(* Mutants: the statement misses the row; it forgets its condition. *)
ExtendNoLease(j) == UNCHANGED leaseUntil
ExtendAnyLease(j) == leaseUntil' = [leaseUntil EXCEPT ![j] = Lease]

ExtendLease(j) ==
  leaseUntil' = [leaseUntil EXCEPT ![j] = IF state[j] = "running" THEN Lease ELSE @]

(* The renewal goroutine serves its timer; a failed write is only logged. *)
Renew(w) ==
  /\ mode = "up"
  /\ pc[w] = "handling"
  /\ due[w]
  /\ due' = [due EXCEPT ![w] = FALSE]
  /\ \/ ExtendLease(job[w]) /\ UNCHANGED faults
     \/ Suffer("write") /\ UNCHANGED leaseUntil
  /\ UNCHANGED <<state, attempts, runAfter, pc, job, attempt, outcome, report,
                 mode>>

(* The handler reports progress.  UpdateJobProgress touches only a running
   row, but whether it touched one is not looked at: the call fails only
   because its context, the pool's, is cancelled. *)
Progress(w) ==
  /\ pc[w] = "handling"
  /\ job[w] \in Reporting
  /\ report' = [report EXCEPT ![w] = IF mode = "stopping" THEN "error" ELSE "nil"]
  /\ UNCHANGED tableVars
  /\ UNCHANGED <<pc, job, attempt, outcome, due, mode, faults>>

(* The handler returns, and the renewal goroutine is stopped.  A panic is an
   error; the error of the cancelled context exists only once it is cancelled. *)
HandlerReturns(w, o) ==
  /\ pc[w] = "handling"
  /\ o \in {"ok", "error"} \/ (o = "interrupted" /\ mode = "stopping")
  /\ pc' = [pc EXCEPT ![w] = "recording"]
  /\ outcome' = [outcome EXCEPT ![w] = o]
  /\ UNCHANGED tableVars
  /\ UNCHANGED <<job, attempt, due, report, mode, faults>>

LetGo(w) ==   \* execute returns, and the worker loops
  /\ pc' = [pc EXCEPT ![w] = "idle"]
  /\ job' = [job EXCEPT ![w] = NoJob]
  /\ attempt' = [attempt EXCEPT ![w] = 0]
  /\ outcome' = [outcome EXCEPT ![w] = "none"]
  /\ due' = [due EXCEPT ![w] = FALSE]
  /\ report' = [report EXCEPT ![w] = "none"]

(* An UPDATE that ends the claim on j: the row goes to state s. *)
Write(j, s) ==
  /\ state[j] # "purged"
  /\ state' = [state EXCEPT ![j] = s]
  /\ leaseUntil' = [leaseUntil EXCEPT ![j] = NoLease]

MatchesNoRow(j) ==
  /\ state[j] = "purged"
  /\ UNCHANGED <<state, leaseUntil>>

FinishSucceeded(w) ==
  /\ pc[w] = "recording" /\ outcome[w] = "ok"
  /\ mode = "up"
  /\ Write(job[w], "succeeded") \/ MatchesNoRow(job[w])
  /\ LetGo(w)
  /\ UNCHANGED <<attempts, runAfter, mode, faults>>

(* Mutants: one attempt too few, one too many. *)
ExhaustedTooSoon(w) == attempt[w] >= MaxAttempts[job[w]] - 1
ExhaustedTooLate(w) == attempt[w] > MaxAttempts[job[w]]

(* The attempt counted in the worker's own copy of the job was the last. *)
Exhausted(w) == attempt[w] >= MaxAttempts[job[w]]

FinishFailed(w) ==
  /\ pc[w] = "recording"
  /\ \/ outcome[w] = "unhandled"
     \/ outcome[w] = "error" /\ Exhausted(w)
  /\ mode = "up"
  /\ Write(job[w], "failed") \/ MatchesNoRow(job[w])
  /\ LetGo(w)
  /\ UNCHANGED <<attempts, runAfter, mode, faults>>

(* Mutant: the shift overflows, and the delay is negative. *)
OverflowedDelays == {-1}

(* ExponentialBackoff: five seconds to ten minutes, whatever the attempt. *)
BackoffDelays == Backoffs

(* RetryJob makes the row pending whatever it was; if that would break the
   unique index the statement fails, which is only logged. *)
Retry(w) ==
  /\ pc[w] = "recording" /\ outcome[w] = "error"
  /\ ~Exhausted(w)
  /\ mode = "up"
  /\ \/ /\ ~KeyTaken(job[w])
        /\ Write(job[w], "queued")
        /\ \E d \in BackoffDelays : runAfter' = [runAfter EXCEPT ![job[w]] = d]
     \/ /\ KeyTaken(job[w])
        /\ UNCHANGED <<state, leaseUntil, runAfter>>
     \/ /\ MatchesNoRow(job[w])
        /\ UNCHANGED runAfter
  /\ LetGo(w)
  /\ UNCHANGED <<attempts, mode, faults>>

(* release: on a context of its own, so it works while stopping. *)
Release(w) ==
  /\ pc[w] = "recording" /\ outcome[w] = "interrupted"
  /\ \/ /\ state[job[w]] = "running"
        /\ Write(job[w], "queued")
        /\ attempts' = [attempts EXCEPT ![job[w]] = IF @ > 0 THEN @ - 1 ELSE 0]
        /\ runAfter' = [runAfter EXCEPT ![job[w]] = 0]
     \/ /\ state[job[w]] # "running"
        /\ UNCHANGED tableVars
  /\ LetGo(w)
  /\ UNCHANGED <<mode, faults>>

(* The write that should record the outcome fails: always when it uses the
   pool's cancelled context, otherwise because the database refuses it.  The
   error is logged and the row stays as it is. *)
RecordFails(w) ==
  /\ pc[w] = "recording"
  /\ \/ mode = "stopping" /\ outcome[w] # "interrupted" /\ UNCHANGED faults
     \/ Suffer("write")
  /\ LetGo(w)
  /\ UNCHANGED tableVars
  /\ UNCHANGED mode

(* Mutant: workers drain the queue before they leave. *)
WorkerExitsOnceDrained(w) ==
  /\ mode = "stopping"
  /\ pc[w] = "idle"
  /\ \A j \in Jobs : ~Runnable(j)
  /\ pc' = [pc EXCEPT ![w] = "exited"]
  /\ UNCHANGED tableVars
  /\ UNCHANGED <<job, attempt, outcome, due, report, mode, faults>>

WorkerExits(w) ==
  /\ mode = "stopping"
  /\ pc[w] = "idle"
  /\ pc' = [pc EXCEPT ![w] = "exited"]
  /\ UNCHANGED tableVars
  /\ UNCHANGED <<job, attempt, outcome, due, report, mode, faults>>

(***************************************************************************)
(* The reclaimer, the process and time.                                    *)
(***************************************************************************)
(* Mutants: every running row; only rows that may be attempted again. *)
ExpiredOrNot(j) == state[j] = "running"
ExpiredWithinLimit(j) ==
  state[j] = "running" /\ leaseUntil[j] = 0 /\ attempts[j] < MaxAttempts[j]

Expired(j) == state[j] = "running" /\ leaseUntil[j] = 0

ReclaimExpired ==
  /\ state' = [j \in Jobs |-> IF Expired(j) THEN "queued" ELSE state[j]]
  /\ leaseUntil' = [j \in Jobs |-> IF Expired(j) THEN NoLease ELSE leaseUntil[j]]
  /\ UNCHANGED <<attempts, runAfter>>

Reclaim ==
  /\ mode = "up"
  /\ \E j \in Jobs : Expired(j)
  /\ ReclaimExpired
  /\ UNCHANGED workerVars
  /\ UNCHANGED <<mode, faults>>

(* Pool.Run: reclaim once (a failure is only logged), then start the workers. *)
Start ==
  /\ mode = "down"
  /\ mode' = "up"
  /\ \/ ReclaimExpired /\ UNCHANGED faults
     \/ Suffer("write") /\ UNCHANGED tableVars
  /\ Forgotten("idle")

(* A signal, or the HTTP server failing, cancels the pool's context. *)
Shutdown ==
  /\ mode = "up"
  /\ Suffer("stop")
  /\ mode' = "stopping"
  /\ UNCHANGED tableVars
  /\ UNCHANGED workerVars

(* Every worker has returned, so Run returns and the process exits. *)
Stop ==
  /\ mode = "stopping"
  /\ \A w \in Workers : pc[w] = "exited"
  /\ mode' = "down"
  /\ UNCHANGED tableVars
  /\ UNCHANGED workerVars
  /\ UNCHANGED faults

Crash ==
  /\ Serving
  /\ Suffer("crash")
  /\ mode' = "down"
  /\ Forgotten("exited")
  /\ UNCHANGED tableVars

Sooner(t) == IF t > 0 THEN t - 1 ELSE t

(* One renewal interval goes by.  A worker of a pool that is up serves its
   renewal timer, and records an outcome, within an interval. *)
Tick ==
  /\ mode = "up" => \A w \in Workers : ~due[w]
  /\ \E j \in Jobs : leaseUntil[j] > 0 \/ runAfter[j] > 0
  /\ leaseUntil' = [j \in Jobs |-> Sooner(leaseUntil[j])]
  /\ runAfter' = [j \in Jobs |-> Sooner(runAfter[j])]
  /\ due' = [w \in Workers |-> pc[w] \in Executing]
  /\ UNCHANGED <<state, attempts, pc, job, attempt, outcome, report, mode, faults>>

(* ... unless the host sleeps, or the wall clock jumps, past every lease. *)
Stall ==
  /\ Suffer("stall")
  /\ \E w \in Workers : pc[w] \in Executing
  /\ leaseUntil' = [j \in Jobs |-> IF leaseUntil[j] > 0 THEN 0 ELSE leaseUntil[j]]
  /\ runAfter' = [j \in Jobs |-> 0]
  /\ due' = [w \in Workers |-> pc[w] \in Executing]
  /\ UNCHANGED <<state, attempts, pc, job, attempt, outcome, report, mode>>

Record(w) == FinishSucceeded(w) \/ FinishFailed(w) \/ Retry(w) \/ Release(w)

Next ==
  \/ \E j \in Jobs : Enqueue(j) \/ Cancel(j)
  \/ \E old \in SUBSET Jobs : Purge(old)
  \/ \E w \in Workers, j \in Jobs : Claim(w, j)
  \/ \E w \in Workers : Renew(w) \/ Progress(w)
  \/ \E w \in Workers, o \in {"ok", "error", "interrupted"} : HandlerReturns(w, o)
  \/ \E w \in Workers : Record(w) \/ RecordFails(w) \/ WorkerExits(w)
  \/ Reclaim \/ Start \/ Shutdown \/ Stop \/ Crash
  \/ Tick \/ Stall

Spec == Init /\ [][Next]_vars

(***************************************************************************)
(* Fairness: goroutines are scheduled, handlers return, time goes by, and  *)
(* whoever runs the server restarts it (restart: unless-stopped).  Nothing *)
(* makes a user enqueue, cancel or purge, or the process stop or crash.    *)
(***************************************************************************)
Fairness ==
  /\ \A w \in Workers :
       /\ WF_vars(\E j \in Jobs : Claim(w, j))
       /\ WF_vars(Renew(w))
       /\ WF_vars(\E o \in {"ok", "error", "interrupted"} : HandlerReturns(w, o))
       /\ WF_vars(Record(w) \/ RecordFails(w))
       /\ WF_vars(WorkerExits(w))
  /\ WF_vars(Reclaim) /\ WF_vars(Start) /\ WF_vars(Stop) /\ WF_vars(Tick)

FairSpec == Spec /\ Fairness

(***************************************************************************)
(* Properties.                                                             *)
(***************************************************************************)

(* No live worker was kept from renewing its lease: the process never slept
   through one, and failed writes cost less than a lease's worth of ticks. *)
Punctual == faults["stall"] = 0 /\ faults["write"] + 1 < Lease

(* Two workers never execute the same job at the same time, whatever is
   cancelled, purged, interrupted or restarted (worker.go:75, "a live worker's
   lease lapse and its job be stolen mid-flight"). *)
ExclusiveExecution ==
  Punctual =>
    \A v, w \in Workers :
      v # w /\ pc[v] \in Executing /\ pc[w] \in Executing => job[v] # job[w]

(* Two workers execute jobs of one dedupe key together only when one of the
   jobs has been cancelled: clicking twice does not translate twice. *)
KeyedWorkIsExclusive ==
  Punctual =>
    \A v, w \in Workers :
      /\ v # w /\ pc[v] \in Executing /\ pc[w] \in Executing
      /\ Key[job[v]] = Key[job[w]] /\ Key[job[v]] # NoKey
      => {state[job[v]], state[job[w]]} \ Pending # {}

(* A row has a lease exactly while it is running, so every running row is one
   that ReclaimExpiredLeases can find. *)
LeaseIffRunning ==
  \A j \in Jobs : leaseUntil[j] # NoLease <=> state[j] = "running"

(* The two halves of why execution is exclusive.  The row of a job that is
   being executed is running until somebody cancels it ... *)
ExecutedIsNotQueued ==
  Punctual =>
    \A w \in Workers :
      pc[w] \in Executing => state[job[w]] \in {"running", "cancelled", "purged"}

(* ... and while the pool is up no live worker's lease runs out: "a slow
   database write cannot let a live worker's lease lapse" (worker.go:75).
   It has lost at most a tick, and one for each renewal that failed. *)
LiveLeasesLast ==
  Punctual /\ mode = "up" =>
    \A w \in Workers :
      pc[w] \in Executing /\ state[job[w]] = "running" =>
        leaseUntil[job[w]] >= Lease - faults["write"] - (IF due[w] THEN 1 ELSE 0)

(* A job of a known kind fails permanently only with all its attempts used:
   what interrupts an attempt or refunds one never loses the job a retry. *)
FailedMeansExhausted ==
  Punctual =>
    \A j \in Handled : state[j] = "failed" => attempts[j] >= MaxAttempts[j]

(* Attempts beyond MaxAttempts are paid for: each took a crash, a shutdown, a
   failed write or a stall that made the reclaimer hand the job out again. *)
AttemptsAccounted ==
  \A j \in Jobs :
    attempts[j] <= MaxAttempts[j] + faults["crash"] + faults["stop"]
                                  + faults["write"] + faults["stall"]

(* A worker has a job exactly while it executes one, and none does while the
   process is down. *)
MemoryMatchesPc ==
  /\ \A w \in Workers : job[w] # NoJob <=> pc[w] \in Executing
  /\ mode = "down" => \A w \in Workers : pc[w] = "exited"

(* The inductive invariant behind ExclusiveExecution. *)
IInv ==
  /\ MemoryMatchesPc
  /\ LeaseIffRunning
  /\ ExecutedIsNotQueued
  /\ ExclusiveExecution
  /\ LiveLeasesLast

(* A recorded success or failure is final; a cancelled job is reopened, or
   given another outcome, only by the worker that was still executing it. *)
ReopeningStep ==
  Punctual =>
    \A j \in Jobs :
      state[j] \in Terminal /\ state'[j] \notin {state[j], "purged"} =>
        /\ state[j] = "cancelled"
        /\ \E w \in Workers : job[w] = j /\ job'[w] = NoJob
OnlyItsWorkerReopens == [][ReopeningStep]_vars

(* The queue implements its abstract specification. *)
Work == INSTANCE ExclusiveWork WITH
  work <- job,
  settled <- {j \in Jobs : state[j] \in {"succeeded", "failed", "purged"}}
ImplementsExclusiveWork == Work!Spec

(* Every job is over one day, and stays so, once the disturbances end. *)
JobsSettle ==
  \A j \in Jobs :
    state[j] \in Pending ~> [](state[j] \in Terminal \cup {"purged"})

(* A running row that nobody executes goes back to the queue (or is cancelled):
   "a killed process loses no work" (jobs.sql:92). *)
AbandonedJobsReturn ==
  \A j \in Jobs :
    (state[j] = "running" /\ \A w \in Workers : job[w] # j)
      ~> (state[j] # "running" \/ \E w \in Workers : job[w] = j)

(* A shutdown comes to its end. *)
ShutdownCompletes == mode = "stopping" ~> mode = "down"

(***************************************************************************)
(* What comments in the source say, and the code does not do.              *)
(***************************************************************************)

(* "Terminal reports whether no further work will happen" (jobs.go:36). *)
TerminalIsFinal ==
  [][\A j \in Jobs :
       state[j] \in Terminal => state'[j] \in Terminal \cup {"purged"}]_vars

(* Run blocks "until ctx is cancelled and all in-flight jobs have been
   released" (worker.go:99): no row is running after an orderly stop. *)
StopReleasesJobs ==
  [][mode = "stopping" /\ mode' = "down" /\ faults' = faults =>
       \A j \in Jobs : state[j] # "running"]_vars

(* A running handler "observes cancellation the next time it reports progress"
   (queue.go:184): the call does not return nil once the job is cancelled. *)
CancelObserved ==
  [][\A w \in Workers :
       report'[w] = "nil" /\ report[w] # "nil" => state[job[w]] # "cancelled"]_vars
===============================================================================
