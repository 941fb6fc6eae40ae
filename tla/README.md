# Manualbox in TLA+

Manualbox is a self-hosted server, one Go process with one SQLite database, that
keeps the manuals of household appliances and works on them in background jobs.
This directory holds TLA+ specifications of its core logic, TLC configurations
that model-check them, and TLAPS proofs.

Modelled are the five components that keep state others rely on: the
**background job queue**, the **events** by which its changes reach the page,
**accounts and sessions**, the **blob store** and the **keyring**. Each is one
module with one action per statement, system call or lock section of the code,
so that what concurrent callers, lost answers and crashes do between two of
them is part of the model.

## Inventory

| Component | State | Operations | Interacts with |
|---|---|---|---|
| Job queue `internal/jobs/queue.go`, `db/queries/jobs.sql` | table `jobs` with the partial unique index on `dedupe_key` | Enqueue, Get, List, Cancel, PurgeFinishedBefore | called by HTTP handlers, publishes to the broker |
| Worker pool `internal/jobs/worker.go` | per goroutine: the claimed `Job`, the renewal timer | claim, execute, renewLease, Progress, finishSucceeded, finishFailed, retry, release, reclaim | reads and writes the table, publishes to the broker, its context is the server's |
| Broker and event stream `internal/jobs/broker.go`, `api/handlers.go:276`, `web/src/api/client.ts` | subscribers and their bounded buffers; the page's connection and list | Subscribe, Publish, cancel, Close; snapshot, forward; refetch, reconnect | fed by queue and pool, drained by one goroutine per browser |
| Accounts and sessions `internal/auth`, `api/handlers.go`, `api/middleware.go` | tables `users`, `sessions`; the cookie of each browser | Setup, Login (with rehash), Authenticate (sliding expiry), Logout, ChangePassword, Sweep | called by handlers and middleware |
| Blob store `internal/store` | files named by content, temp files | Put, Open, Delete, Verify, CleanTemp | the file system |
| Keyring `internal/keyring` | wrapped keys in memory and in `keyring.json` | Create, Open, Add*, RemoveWrap, Verify, save | the file system |
| Life cycle `cmd/manualbox/main.go` | the group's context, the HTTP server | serve, drain, stop | everything |
| Configuration, migrations, identifiers, external tools, fixtures, logging, other screens of the web client | read once, pure or I/O | | |

What is hard, and what makes each component correct:

* **Queue and pool.** Workers, users, the reclaimer and the process's own life
  interleave between any two SQL statements. A worker can lose its claim while
  it works: a lease lapses, a user cancels, history is purged, the process is
  told to stop. Correct means: a job is executed by one worker at a time; one
  dedupe key is worked on once; a finished job stays finished; no job is lost
  or retried beyond its limit; a shutdown ends.
* **Broker and stream.** Events may be dropped, and overtake each other and the
  snapshot a stream begins with. Correct means: a browser that stays connected
  ends up showing the real state; nothing is sent on a closed channel; an open
  stream does not hold up a shutdown.
* **Sessions.** Checks and hashing happen outside the statement that acts on
  them. Correct means: one first user; after a password change the old password
  and the old sessions are worth nothing; a deleted session stays deleted, and one
  that has run out comes back at most for a request that was under way.
* **Blob store.** Concurrent uploads of one content, deletes, crashes between
  write, sync, rename and chmod. Correct means: a visible blob has the content
  of its name, and a successful Put is not undone by anybody else's failure.
* **Keyring.** Memory and file can disagree after a failed save. Correct means:
  some secret always opens the file, and what was removed stays removed.

`PROJECT.json` lists the hazards one by one, with the line where each bites and
the properties that cover it, or the reason why none does.

## The modules

| Module | What it is |
|---|---|
| `ExclusiveWork` | Abstract: what the queue promises the handlers. Who works on what, and which jobs are over. No table, no leases, no clock. |
| `JobQueue` | The table, the queue's operations, the workers, the reclaimer, shutdown, crash and restart; the properties; the deliberate faults used to test them. |
| `MCJobQueue` | Finite instances of `JobQueue` for TLC. |
| `JobQueueProofs` | Type correctness, the inductive invariant and the safety theorems. |
| `JobQueueRefinement` | `JobQueue` implements `ExclusiveWork`; finished jobs stay finished. |
| `JobQueueAttempts` | Why attempts beyond the limit are paid for: `AttemptsAccounted`. |
| `JobEvents`, `JobEventsProofs` | From a committed write through the broker and a stream to the list a page shows. |
| `AccessControl` | Abstract: accounts and sessions as a door that opens for tokens. No hashes, no rows, no clock, no browsers. |
| `Sessions`, `MCSessions`, `SessionsProofs` | Accounts, sessions, the requests that use them and the cookies of browsers. |
| `SessionsRefinement` | `Sessions` implements `AccessControl`. |
| `ContentStore` | Abstract: the blob store as a set of contents with atomic uploads. |
| `BlobStore`, `MCBlobStore`, `BlobStoreProofs` | The same store system call by system call; it implements `ContentStore`. |
| `SharedKey` | Abstract: one key under wraps, changed by one whole call at a time. No copies in memory, no saves. |
| `Keyring`, `MCKeyring`, `KeyringProofs` | The keyring file, its copies in memory, failing saves. |

The modules meet at their edges and are checked apart, for their states would
multiply and their properties do not mix: `JobEvents` has the writes of
`JobQueue` as "some write, published afterwards" and "some write nobody
publishes", which `JobQueue`'s `Reclaim` and `Purge` are. The processes that crash in
`JobQueue`, `BlobStore` and `Keyring` are one process; nothing in one of them
reads the state of another.

### JobQueue: state

| Variable | Code |
|---|---|
| `state`, `attempts` | the columns of `jobs`; `"none"` before the insert, `"purged"` after the delete |
| `leaseUntil`, `runAfter` | the two timestamps that decide anything, as ticks left: 0 is "in the past", `NoLease` is NULL |
| `pc` | where a worker goroutine is: in `claim`/`sleepCtx` (`idle`), in the handler (`handling`), between its return and the recording statement (`recording`), returned (`exited`) |
| `job`, `attempt` | the `*Job` that the claim returned, and `Attempts` in that copy, which the decision to retry uses instead of the row's |
| `outcome` | what `execute` found: no handler, no error, an error, the cancelled context's error |
| `due` | the renewal ticker has fired and the goroutine has not served it |
| `report` | what `Progress` last returned to the handler |
| `mode` | no process, serving, or stopping (the group's context is cancelled, `main.go:232`) |
| `faults` | how often each kind of disturbance has happened, bounded by `MaxFaults` |

One `Tick` is one renewal interval, a third of the lease, so the program's lease
is `Lease = 3`. Everything the pool times (poll interval, backoff, `RunAfter`)
is counted in such ticks, or left to fairness (the polls of an idle worker).

### JobQueue: actions

| Action | Code | Notes |
|---|---|---|
| `Enqueue` | `Queue.Enqueue` | every ID carries the arguments of the call that draws it. A rejected duplicate changes nothing and is a stutter |
| `Cancel`, `Purge` | `Queue.Cancel`, `PurgeFinishedBefore` | the request's own context: they also work while stopping |
| `Claim` | `ClaimNextJob`, then `execute` up to the handler | priority, then ID. An unknown kind goes straight to recording |
| `Renew` | `renewLease` | extends only running rows; a failed write is logged |
| `Progress` | `reporter.Progress` | changes nothing that decides anything; what it returns is what matters |
| `HandlerReturns` | `runHandler` returns, the renewal goroutine is stopped | a panic is an error |
| `FinishSucceeded`, `FinishFailed`, `Retry`, `Release` | the four recording statements | none but `ReleaseJob` looks at the state of the row, none at who owns it. `RetryJob` can violate the unique index, and then fails |
| `RecordFails` | any of these statements failing | on the cancelled context always, except for `release`, which has its own |
| `WorkerExits`, `Stop` | `Pool.worker`, `Pool.Run` | |
| `Reclaim`, `Start` | `reclaim` in the loop, and at the start of `Run` | a failed first reclaim is logged and the pool starts |
| `Shutdown`, `Crash` | cancellation of the context; the death of the process | a crash forgets what the workers hold; rows stay |
| `Tick`, `Stall` | time | see below |

A statement is one step because the write pool has one connection. A claim, a
return of the handler and the statement that records it are separate steps:
everything that can happen in between, does.

**Time and the two ways to be late.** `Tick` waits while a live pool has a
renewal to serve: a goroutine gets to run, and a recording statement gets
through, within a third of a lease (five minutes by default). That is the
assumption the code itself makes by renewing at a third. It is broken in two ways,
both in the model: a renewal's write fails (`faults["write"]`), and the host
sleeps or its clock jumps past every lease (`Stall`). `Punctual` names the
executions in which the heartbeat is enough: no stall, and fewer failed writes
than a lease has ticks. Which properties need it is a result: what says
`Punctual =>` fails without it, what does not say so holds even when
live workers are robbed of their jobs.

### JobEvents

| Variable | Code |
|---|---|
| `row`, `rev` | the table as the page can tell it: which jobs are active, and how many writes there were |
| `pub` | a goroutine that writes: before its write, between commit and `Publish`, or inside `Publish` with the subscribers it has yet to offer the event to |
| `subs`, `shut`, `closed` | the broker's map, the channels that are closed, its `closed` flag |
| `at`, `chan`, `wire` | a stream handler: before `Subscribe`, before its snapshot, in its loop, before its deferred cancel; its buffered events; events on the connection |
| `conn`, `deaf`, `asked`, `answers`, `list` | the page: its `EventSource`, whether that has given up, its requests for the list, the answers on their way, what it shows |
| `faults` | connections lost or refused, reads and requests that failed, bounded by `MaxFaults` |
| `excused` | the list may be old by something nobody tells the page (history, not code) |

`Publish` takes the read lock, offers to each subscriber (`Offer`, which drops
where the buffer is full) and returns it (`Published`); `Subscribe`, the deferred
cancel (`Unsubscribe`) and `Close` need `NobodyPublishes`, the write lock. A stream
subscribes, reads the active jobs, and forwards (`Snapshot`, `Forward`). If the read
fails, whatever jobs are active, it sends nothing and forwards all the same
(`SendNothing`). A stream
ends because its channel is closed (`EndOfEvents`) or its context is done
(`ContextDone`: the client has gone, or the 60 seconds of `middleware.Timeout`, to
which event streams are subject too, are over). The page looks at no
event's content: each one makes it fetch the list again (`Take`, `List`, `Land`),
and answers may overtake each other. Events are therefore counted. The stream is behind
`requireUser`: an answer of 401 or 500 (`Refuse`) ends the page's `EventSource` for good,
and nothing opens another.

What `StalePagesAreWarned` and `PagesConverge` excuse is what the code does not tell the
page: a reclaim or a purge (`WriteSilently`); a snapshot that is empty or failed while the list was old;
a request for the list that failed; an older answer that landed last; and a refused
stream (`deaf`). An excuse ends when the list is right again. Three of them, the empty snapshot, the older answer and the
refused stream, contradict a comment of the client: the first is finding 4, the others are noted after the findings.

### Sessions

| Variable | Code |
|---|---|
| `password`, `outdated` | `users`: the password the hash verifies, and whether its parameters are weaker than today's |
| `owner`, `age` | `sessions`: whose, and how old the reading of the clock is from which `expires_at` was set |
| `cookie`, `cookieAge` | what a browser keeps, and since when |
| `req` | a request: which statement it is before, what it has read so far, and whether a `Tick` has passed since it was sent (`tick`) |
| `openedBy`, `raced` | history: the password a session was opened with; whether the last change of password overlapped another request between its check and its write |

A request is sent (`Send*`), goes on one database statement at a time
(`CheckSetup`, `CreateUser`; `VerifyLogin`, `Rehash`, `OpenSession`; `Authenticate`,
`Extend`, `Handle`, `ChangePassword`; `Logout`), and its answer reaches the browser
as a step of its own (`Answer`), after whatever the browser did meanwhile. It
can be given up before any of them (`Abandon`). `ChangePassword` is one step, for
it is one transaction.

**Time.** A `Tick` is a day, the least that `extendAfter` tells apart. A request lasts a
minute at most (`middleware.Timeout`), so it may straddle one `Tick`, at any of its stages,
and no two. What it then holds may be older than the day: a request that read its session before
the `Tick` extends it by the clock it read then (`stale`, `AgeFrom`), also when the session has run
out in between, for `ExtendSession` looks at no expiry; and a cookie may be set, with its full
`MaxAge`, a day after the session it carries. The day is coarse, and errs to the side of more
behaviours: a straddling request makes a difference of a whole `Tick`, where it is a minute in the code.
So a session may run out before its cookie, by a `Tick` at most (`CookiesRunOut`), and one that
has run out may be extended within a `Tick`, and not later (`GoneForGood`).

At the door (`AccessControl`) a request is a call, and its stage is what it has shown so
far (`Standing`): it claims to be a user until its password has been verified, is
proven until its session is opened, shows a token until that is looked up, is admitted,
perhaps after a renewal, and is entitled to a change once the current password has been verified too.
When its answer is written it is over. A token opens while its row is there and has not
expired; a row that has run out is `Lapsed`. A day on which sessions run out is `Lapse`, the extension
is `Renew`, which may put a lapsed token back, the sweep is `EndLapsed`, and the rehash is `PutBack`. In
both `Renew` and `PutBack` the abstract specification says openly what the code allows: a request
let in with a token while it opened may renew it after it has lapsed, and a login
may put back the password it verified, although it has been changed since.

### BlobStore

| Variable | Code |
|---|---|
| `blob`, `durable` | the file at a content's path, absent, writable or read-only; what a loss of power leaves of it |
| `unsynced`, `torn` | contents whose bytes may be lost, or are |
| `put`, `temps` | an upload: which system call it is before, of what; its temporary file |
| `litter`, `up` | files of an earlier process in `tmp/`; the process serves |
| `ever`, `cut` | history: contents once stored; uploads that ended between rename and chmod |

`Put` is `CreateTemp`, `Copy`, `Sync`, `Check`, `Rename`, `Chmod`, each of which can
fail (`GiveUp`, `RenameFails`, `ChmodFails`), with the deferred removal of the temporary file
part of whichever step ends it. `Start` is `New` with `CleanTemp`. A process that
dies loses uploads only; a loss of power also loses what the system has not flushed,
for the code syncs files and no directory.

### Keyring

| Variable | Code |
|---|---|
| `disk`, `durable` | `keyring.json`: its data key and its wraps; what a loss of power leaves |
| `mem`, `op` | a `*Keyring`: its data key and its copy of the wraps, and the call it is in |
| `base`, `told`, `limbo`, `mixed`, `replaced` | history: what the handle last read or wrote; what callers were told; changes never answered; whether a file was replaced by one not made from it; whether `Create` replaced a keyring |

A call changes memory (`Create`, `Add`, `RemoveWrap`) and then saves: the rename is
`Rename` when the caller is answered and `RenameUnanswered` when the process dies
first; `SaveFails` leaves the change in memory. A wrap stands for the one secret that
opens it, so passphrases and operational keys are the same.

## Runs

Seven must pass, the other five each exhibit a finding. Every property
of a passing run has been seen to fail when one definition of the model is
broken (see "Tests of the properties"), so no instance is too small for it.

| Run | Instance | What it shows |
|---|---|---|
| `job_queue_safety` | 2 jobs of one dedupe key, 2 attempts each, 2 workers, lease 3, one crash, one orderly stop, one failed write; 205,652 states up to symmetry | `ExclusiveExecution`, `KeyedWorkIsExclusive`, `LiveLeasesLast`, `FailedMeansExhausted`, `OnlyItsWorkerReopens`, and `ExclusiveWork` is implemented |
| `job_queue_liveness` | 2 jobs without a key, one of an unknown kind and more urgent, 2 workers, lease 2, one crash, one stop, one stall; 165,825 states | `JobsSettle`, `AbandonedJobsReturn`, `ShutdownCompletes`, `AttemptsAccounted`, and `LeaseIffRunning` with robbed workers |
| `terminal_state` | 1 job, nothing goes wrong | finding 1 |
| `orderly_stop` | 1 job, one stop | finding 2 |
| `cancel_observed` | 1 job that reports progress | finding 3 |
| `job_events` | 1 job, 1 publisher, 2 streams, buffers and connections of one event, one request for the list at a time, 2 writes, 1 fault (a connection lost or refused, a read or a request that fails); 465,949 states | `ChannelsAreSound`, `StalePagesAreWarned`, `PagesConverge`, `PublishersReturn`, `LostStreamsEnd` |
| `job_events_reconnect` | the same, without faults | finding 4 |
| `sessions` | 2 addresses, 2 passwords, 2 tokens, 1 browser, 2 requests, sessions of 3 days extended after 1; 1,986,672 states up to symmetry | `OldPasswordsDie`, `CookiesRunOut`, `OnlyTheOwnerChanges`, `GoneForGood`, `LiveSessionsAreKept` |
| `sessions_door` | the same with 1 address; 510,000 states | `AccessControl` is implemented |
| `sessions_setup` | 2 addresses, 1 token | finding 5 |
| `blob_store` | 2 contents, 2 uploads, 2 crashes, 2 losses of power; 130,206 states up to symmetry | `VisibleIsWhole`, `WritableIsExplained`, `TempsHaveUploads`, and `ContentStore` is implemented |
| `keyring` | 3 wraps, 2 data keys, 2 handles, 1 failed save, 1 loss of power; 210,364 states up to symmetry | `NeverWithoutAWrap`, `EveryHandleHasTheKey`, `TheFileIsWhatWasTold` |

**Why these bounds.** Exclusion and key conflicts are about pairs: two workers,
two jobs. Two attempts give a retry and a last attempt. Lease 3 is the program's
own, and admits one failed renewal within `Punctual`; lease 2 in the liveness
run keeps the graph small and no property there depends on it. Each kind of
disturbance happens once, and all of them combine: a crash after a failed write
after a stop. The proofs cover all other sizes. Stalls are left to the liveness
run because everything in the safety run but `TypeOK` assumes there are none.
Worker symmetry is used only in the run without liveness properties.

Events: a full buffer, a full connection and a list on its way are each reached
with one; two streams are the page's new one and the one it has lost. The
page's own guarantees are also proved for any numbers. Sessions: races are between two requests, and any two of them
can be of one user or of two; two tokens are enough for a session that should
have gone and one that should not. One browser suffices, since its second request
and a late answer already race; that sessions of several browsers go together is
a matter of `owner`, and proved. The refinement is a run of its own, `sessions_door`, for checking it
costs several times as much as the invariants; one address is enough there, since with one user there are
already two sessions, two passwords and two requests to confuse, and `Implements` is
proved for any number of them. Three days with an extension after one give a session
that is extended, one that expires and one that is read at the boundary. Blobs:
two uploads of one content, or of two. Keyring: three wraps allow an addition and a
removal against one that stays; two handles, a stale one.

**Deadlock** is not checked in the runs of the job queue. The model really may stop: an `Enqueue` draws a new
ID, and when all IDs are used, every job is purged and the bounds on
stops and crashes are spent, nothing is left to do. It is not checked in `keyring`
either, where IDs and keys are drawn from finite sets, nor in `job_events`, where a page whose stream
was refused, with its writes used up and the broker closed, rests for good. In the other runs it is checked.

**Fairness** (`JobQueue`, `Fairness`): weak fairness for each worker's claim, renewal,
return of the handler, recording and exit, for the reclaimer, the start, the stop
and time. Goroutines are scheduled; handlers are taken to return, as the
`Handler` contract asks; the deployment restarts the server
(`deploy/docker-compose.yml:58`, `restart: unless-stopped`). No user is obliged
to do anything, nothing is obliged to fail, and no strong fairness is needed:
once enqueueing is used up, the more urgent jobs settle and the others become
the next one for good. `JobsSettle` thus includes that priority starves nobody
among finitely many jobs; with an endless stream of urgent jobs it would.

In `JobEvents`: weak fairness for the publishers, for each stream handler, for the
page's connecting, noticing, taking, asking and landing (a refusal, one of the bounded faults, may come
instead of the connection), and for the end of a stream
the page has lost, which the 60 seconds of `middleware.Timeout` bring about if nothing else
does. Nothing has to be written, and no connection has to break. The order in which
Go's `RWMutex` serves waiting writers is left out; it gives more than is assumed,
except that `NobodyPublishes` must recur, which `PublishersReturn` shows.
`Sessions`, `BlobStore` and `Keyring` state no fairness: their clients may go away at
any statement, and what they promise is safety.

**Tests of the properties.** Operators marked "Mutant" in the modules are
plausible bugs. In `JobQueue`: a renewal that misses its row or forgets its condition, an index that
covers queued rows only, an attempt counted one too few or too many, a cancel or a
reclaim without its condition, a delay that overflows, a claim or a
reclaim that respects the attempt limit, workers that drain the queue before
they leave. In the others: a send that waits for room, a snapshot before the subscription,
a forgotten lock or unsubscription; an extension that
inserts, a hash whose parameters are looked at before its digest, sessions of which only one is revoked, a cookie or a sweep off by a day; bytes
never synced, a blob never made read-only, an error taken for a lost race; a last wrap that
may be removed, a secret verified against memory. Put in the place of the definition they stand before, each makes the
property listed for it in `PROJECT.json` fail. The specification never uses them.

## Findings

Five times a comment says what the code does not do, and a run exhibits it.

1. **`TerminalIsFinal`** (`jobs.go:36`, `queue.go:182`): a job cancelled while its
   handler runs is queued again by `RetryJob` when the handler fails, and
   executed again. `OnlyItsWorkerReopens` says what does hold.
2. **`StopReleasesJobs`** (`worker.go:99`): an orderly stop is said to release what
   is in flight. If the handler has just ended, or ends with an error of
   its own, the recording statement runs on the cancelled context and fails; the
   row stays running, and work that had succeeded is done again.
3. **`CancelObserved`** (`queue.go:184`): a handler is said to observe cancellation
   when it next reports progress. The update matches no row, and nobody looks.
4. **`ReconnectResynchronises`** (`client.ts:117`): since the server replays the active jobs, a
   reconnect is said to re-synchronise the page. If the last active job has ended meanwhile, the
   server has nothing to send, and the page keeps showing it as running.
5. **`SetupHappensOnce`** (`auth.go:129`): `Setup` is said to fail once any user exists. It counts,
   hashes and inserts; two setups with different addresses make two administrators.

Noted while modelling, and without a run of their own. The behaviours are all in the models, and the passing
runs and the theorems hold with them:

* A job left running by a previous process is said to be reclaimed on startup "rather than waiting out its
  lease" (`worker.go:102`). `ReclaimExpiredLeases` takes only expired leases, so after a quick restart the
  job waits, up to 15 minutes.
* Counting attempts on claim is said to stop a job that kills its process from being "retried forever"
  (`jobs.sql:16`). Only `execute` compares the count, after the handler has returned. `AttemptsAccounted` says
  what does hold: one attempt more for each disturbance.
* A session is said to slide forward, "so day-to-day use never forces a re-login" (`auth.go:34`). `Authenticate`
  slides `expires_at` in the table; the cookie's MaxAge counts from the login and is never renewed, so a browser in
  daily use loses the cookie of a live session. `CookiesRunOut` is the other side.
* Refetching is said to make the list "always what the server actually holds" (`Home.tsx:25`). With two requests
  under way the older answer may land last, and stays (`Land`).
* `EventSource` is said to reconnect on its own (`client.ts:117`). It does, until `requireUser` answers 401 or
  500 (`Refuse`); then it gives up for good.
* A change of password is said to invalidate every other session (`auth.go:325`). A login that has verified the
  old password by then opens its session afterwards. `OldPasswordsDie` says what holds of every change that
  nothing raced.
* The login's rehash is said to upgrade a hash whose plaintext is known (`auth.go:214`). If the password was changed
  since it was verified, the rehash puts the old one back. `OnlyTheOwnerChanges` and `PutBack` say what holds.
* Adding a passphrase and rotating the operational key are said to be safe at any time (`docs/design/keys.md:39`).
  Two handles on one file do not see each other's changes: the second to save drops the wrap the first has added.
  `TheFileIsWhatWasTold` says what holds up to there.
* `RemoveWrap` is said to refuse the only remaining way to unlock the data (`keyring.go:104`). It counts wraps in
  memory, where one that could not be saved remains, so it removes the only one anybody was told works.
* The data key is said to be generated once (`keyring.go:14`). `Create` does not look for a keyring; a second one
  replaces the first, and its data key. `EveryHandleHasTheKey` says what holds until then.
* `auth.go:325` says "every other session"; `ChangePassword` deletes all of them, and the handler clears
  the cookie that asked.
* An expired session that has not been swept is extended by a request that read it just before its end
  (`auth.go:300`, no condition on `expires_at` in `ExtendSession`). No document says otherwise; `GoneForGood` and
  `AccessControl` say how far it goes.
* The answer to a refused request with an old cookie clears the cookie of a login that came between.

## Proofs

For every value of the constants that the named assumptions of each module allow,
which are the types of the constants, distinct names, sizes that are not zero, finitely many
workers and a lease of more than one renewal interval (any number
of jobs, workers, streams, requests, uploads and handles; any other lease, lifetime, buffer and
bounds on the disturbances). The code's lease is three intervals (`worker.go:77`) and its workers
are goroutines it starts. Every module's type invariant, every invariant its passing runs check,
every action property and all four refinements are proved, that of `SharedKey` up to the first mixed save.
(What a run shows to be violated is, of course, not among them.)

### Job queue

| Theorem | Says |
|---|---|
| `TypeCorrect` | `TypeOK`; attempts and `run_after` do not become negative |
| `Invariance` | `TypeOK /\ IInv` |
| `ExecutionIsExclusive` | `ExclusiveExecution` |
| `LeasesOutliveWork` | `LiveLeasesLast` |
| `RunningIsReclaimable` | `LeaseIffRunning`, with no condition on stalls |
| `KeyedWorkExclusion` | `KeyedWorkIsExclusive` |
| `ImplementsExclusion` | `Calm /\ Spec => ImplementsExclusiveWork`, where `Calm` bounds stalls by none and failed writes by less than a lease |
| `ReopenedByItsWorker` | `OnlyItsWorkerReopens` |
| `ExclusionWhilePunctual` | under any bounds, every step until the first late renewal is one of `ExclusiveWork` or a stutter |
| `FailureIsExhaustion` | `FailedMeansExhausted` |
| `AttemptsAreAccounted` | `AttemptsAccounted`, with no condition on stalls |

**The argument.** Exclusion is not inductive: a claim takes any queued row, and
nothing in `ExclusiveExecution` says that the row of a job somebody executes is
not queued (`ExecutedIsNotQueued`). Four things could queue it again. `Enqueue`
needs a row that does not exist. A retry or a release is by the worker that
executes it, which is the only one, by exclusion, and lets go in the same step
(`LetGoStep`). The reclaimer needs a lease that has run out, and
while the pool is up a live lease never has (`LiveLeasesLast`): each tick takes
one off, waits for the renewal, and each failed renewal is counted. While it is
stopping nothing is reclaimed, and a new process starts with no worker holding
anything (`MemoryMatchesPc`). `LeaseIffRunning` is needed because the
reclaimer's condition is about leases. `IInv` is the conjunction. `PunctualStep`
is what allows `Punctual =>` on both sides of a step: disturbances are only
counted up. `KeyedWorkExclusion` adds that pending rows have distinct keys. For
the refinement, steps are mapped one by one (`WorkStep`): claims to `Take`,
recorded outcomes to `Settle` or `Drop`, crashes to `DropAll`, purges to
`Forget`, everything else to a stutter.

`FailedMeansExhausted` rests on `FailInv`: while the process is punctual, the copy of
`attempts` a worker decides by is the row's (`CopyIsTheRow`), because only a claim counts up and
nobody claims a job that is being executed; and only jobs of an unknown kind end without
a look at the limit (`UnhandledAreUnknown`).

`AttemptsAccounted` compares a counter of a row with the number of disturbances, and says
nothing about what is still to come: after a crash the job is queued with its attempts unchanged, and the
attempt that the crash paid for is made later. `AttemptInv` therefore counts, besides the attempts
beyond the limit (`Beyond`), the ways in which a job can be claimed again without a further
disturbance (`WaysBack`): its row is queued, or is running with nobody keeping its lease (`ComesBack`);
and, once for each worker that executes it, that worker's own copy of the job has an attempt left
(`Retriers`). With robbed workers there are several. `Paid`
says that both together are at most the disturbances, where one way
back is free as long as the limit is not reached (`Beyond` is then -1). A claim turns a way back into
an attempt or a retrier, a retry turns a retrier into a queued row (`OneForAnother`), most steps
do nothing (`NothingMore`), and whatever adds one is a disturbance that is counted
(`OneMoreIsPaid`): a worker's forgotten outcome, a failed renewal, a stall, a crash, a shutdown.
That a live heartbeat adds none is `KeptStep`: who has renewed its lease has it for another tick, and a
tick waits for the renewal. Here a lease of one interval would fail, which would run out
before it is first renewed. A release refunds the attempt it queues
again, and happens only in a shutdown (`InterruptedByShutdown`); a new row starts from zero (`NewRows`).

### Events

`SoundChannels` (`ChannelsAreSound`) and `StalePagesWarned` (`StalePagesAreWarned`), after
`TypeCorrect`. The first needs `Locked`: while somebody sends, the streams it has
yet to send to are registered, so closing and unsubscribing wait; and whoever is between
`Subscribe` and its cancel is registered unless `Close` came. The second is inductive with that, `FreshWires` (a stream that has not sent its
snapshot has sent nothing) and `ReadBefore` (no list is from the future): each step that
takes one warning away leaves another. A dropped event leaves a full buffer, a fetched list
leaves an answer on its way, a snapshot leaves an event or, where none is sent to a page with an old list,
the excuse; a lost connection leaves the page to connect, and a refused one leaves it deaf, which the
invariant excepts.

### Sessions

`OldSessionsDie` (`OldPasswordsDie`), `CookiesEnd` (`CookiesRunOut`), `OwnersChange` (`OnlyTheOwnerChanges`),
`NoReturn` (`GoneForGood`) and `LiveSessionsStay` (`LiveSessionsAreKept`), after `TypeCorrect`, which needs to
know what a request carries at each stage (`Carries`). `PasswordInv` adds to `OldPasswordsDie` that whoever
has verified a password and not yet acted has verified the present one, unless raced (`Checked`), and that sessions
have users.

`CookieInv` compares two clocks: a session is at most a `Tick` older than a cookie that carries its token
(`CookiesFollow`). The `Tick` is the one an answer may take on its way to the browser: until it
arrives, its token is in no browser and no other request, so nobody extends its session, which is as old as the `Tick`s
the answer has seen (`NewWhenAnswered`); for that, a token that is not drawn yet must be nowhere (`Unseen`).
An extension only makes a session younger: it is due after `ExtendAfter` ticks, at least one, and writes an age of one at most.

`NoReturn` rests on `ExtendedInTime`: a session some request is about to extend is less than a `Tick` past its end,
for it lived when that request read it, and a request sees one `Tick`. Nothing else makes an old
session younger, and nothing brings back a row.

`Implements`: `Sessions` implements `AccessControl`, with no condition on races or on time. Each step of each
request is mapped on its own (`DoorStep`), and all follow from types and from what a request carries. The
life of sessions is on the abstract side too: tokens lapse, are renewed by a request that was let in, and end.

### Blob store

`WholeBlobs`, `NoTempsLeft`, `WritableBlobs`, after `TypeCorrect`, and `Implements`: `BlobStore` implements
`ContentStore`. `IInv` says that an upload past its sync is synced, so that no visible
file ever has bytes to lose, and that whatever can be read, now or after a loss of power, was stored once,
which is what the abstract `Lose` allows. The rename stores, a chmod confirms,
a check or a rename that fails over a blob finds; everything else stutters.

### Keyring

`AlwaysAWrap` (`NeverWithoutAWrap`), `OneKey` (`EveryHandleHasTheKey`) and `ToldTheTruth`
(`TheFileIsWhatWasTold`), after `TypeCorrect`. The last needs `CleanSaves`: a call that began on a clean handle
is one change ahead of the file the handle was last equal to, so its save, if it replaces that very file,
does what the caller is told and nothing else.

`OneChangeAtATime`: until the first save that does not start from the file it replaces (`mixed`), the keyring
implements `SharedKey`. A call is asked for when it changes memory and done at its rename, answered
or not; a failure, a death and a loss of power end it undone. It rests on `CleanSaves` for what is saved, on
`NeverWithoutAWrap` for the wrap that remains and on `TypeCorrect`. The condition is needed: a handle that is stale, and one whose last save has failed, both lose what another
caller was told. Nothing in the code keeps it, and no theorem assumes
that a keyring has one handle or that saves succeed. `EverySaveIsOneChange` is not a property of a run; it
holds on the instance of the run `keyring` too.

### Only model-checked

* All liveness: `JobsSettle`, `AbandonedJobsReturn`, `ShutdownCompletes`, `PagesConverge`,
  `PublishersReturn`, `LostStreamsEnd`. The prover handles neither fairness nor ENABLED.

## Not modelled, and why

* In the queue: payload, progress values, usage accounting, error texts and
  display timestamps, which decide nothing; a failing claim, which has the
  effect of an idle worker; the rejected branch of `Enqueue`, which changes no state.
  A claim that commits although its context was cancelled meanwhile is not
  told apart from one that does not.
* The delay before a retry is one of a set of values (`BackoffDelays`); the doubling and its overflow are not computed.
* In the events: keep-alives, the contents of events, and several pages, which share nothing but
  the broker. In sessions: names, roles, addresses, syntactic rejections, bearer headers, which are
  cookies kept by a script. In the blob store: reading, which changes nothing, bit rot, and a failing
  removal of a temporary file, whose error `Put` ignores (`store.go:94`): such a file stays until the next start. In the keyring:
  encryption and key derivation, which are pure, and the temporary file a dying process leaves, and the
  steps of a save before its rename, which nobody reads the results of.
* The 20 seconds the HTTP drain waits (`main.go:259`): the broker is closed after the drain by a
  deferred call, so open streams hold the drain up until their own timeout or its limit.
  `JobEvents` lets `Close` come at any time, which includes that order.
* The rejected branch of `Enqueue`, which looks up the job that holds its key after the insert failed: it changes
  no state, and that the job may have ended in between is visible in its answer only.
* Statements on blobs and settings in the generated queries: nothing calls them yet.
* Configuration, identifiers, logging, fixtures, external tools, the embedded frontend, opening and
  migrating the database, origin checks, request decoding and the other screens of the web client:
  pure, or sequential I/O without state of their own.

## Plan

1. *(done)* `JobQueue` with `ExclusiveWork`, `JobEvents`, `Sessions` with `AccessControl`, `BlobStore` with
   `ContentStore`, `Keyring` with `SharedKey`; their inductive invariants and the four refinements.
2. `JobQueue` and `JobEvents` composed for one job, so that `excused` becomes a statement about `Reclaim`
   and `Purge` by name; the drain with its limit; a second browser in `Sessions`.
3. Pure operators against references: the doubling backoff with its overflow beyond the two values
   `JobQueue` tells apart, the defaults and the normalisation of the configuration.
