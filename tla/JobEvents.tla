------------------------------- MODULE JobEvents --------------------------------
(***************************************************************************)
(* How a change of the jobs table reaches the page: the broker of          *)
(* internal/jobs, the event streams of internal/api, and the web client,   *)
(* which refetches the list of jobs whenever an event arrives.             *)
(*                                                                         *)
(* Whoever writes to the table publishes an event after the write has      *)
(* committed.  The broker offers it to every subscribed stream in turn     *)
(* and drops it where the buffer is full.  A stream subscribes, then sends *)
(* a snapshot of the active jobs, then what its channel brings.            *)
(*                                                                         *)
(* There is one page, whose streams come and go; a stream the page has     *)
(* lost lives on until its handler notices.  The page looks at no event's  *)
(* content, so events are counted; a list of jobs is known by the revision *)
(* of the table it was read at.                                            *)
(*                                                                         *)
(* Left out: what the writes are (JobQueue has them) beyond which jobs are *)
(* active afterwards; keep-alives; the order in which a waiting Lock of    *)
(* the broker's RWMutex holds new readers back.                            *)
(***************************************************************************)
EXTENDS Integers

CONSTANTS
  Jobs,
  Publishers,  \* goroutines that write to the table: workers and requests
  Streams,     \* slots for requests for the event stream
  None,
  Buffer,      \* eventBuffer
  Wire,        \* bound: events sent and not yet taken by the page
  MaxFetches,  \* bound: requests for the list on the way at a time
  MaxWrites,   \* bound: writes to the table
  MaxFaults    \* bound: connections cut or refused, and reads and requests that fail

ASSUME NamesAssumption == None \notin Streams
ASSUME SizesAssumption ==
  Buffer \in Nat \ {0} /\ Wire \in Nat \ {0} /\ MaxFaults \in Nat
  /\ MaxWrites \in Nat /\ MaxFetches \in Nat \ {0}

VARIABLES
  \* the table
  row,         \* "none", "active" (queued or running) or "ended"
  rev,         \* the number of writes so far
  \* the broker
  pub,         \* per publisher: what it is at, and the streams it has yet to send to
  subs,        \* the streams registered
  shut,        \* the streams whose channel is closed
  closed,
  \* the stream handlers
  at,
  chan,        \* events in the channel
  wire,        \* events on the way to the page
  \* the page
  conn,        \* the stream its EventSource is connected to
  deaf,        \* its EventSource has given up
  asked,       \* requests for the list on the way
  answers,     \* the revisions of the responses on the way
  list,        \* the revision it shows
  faults,
  \* history
  excused      \* the list may be out of date, by something nobody tells the page

table == <<row, rev>>
broker == <<subs, shut, closed>>
handlers == <<at, chan, wire>>
page == <<conn, deaf, asked, answers, list, faults, excused>>
vars == <<row, rev, pub, subs, shut, closed, at, chan, wire, conn, deaf, asked, answers,
          list, faults, excused>>

Resting == [at |-> "idle", left |-> {}]
Read == 0..MaxWrites

TypeOK ==
  /\ row \in [Jobs -> {"none", "active", "ended"}] /\ rev \in Read
  /\ pub \in [Publishers -> [at: {"idle", "written", "sending"}, left: SUBSET Streams]]
  /\ subs \subseteq Streams /\ shut \subseteq Streams /\ closed \in BOOLEAN
  /\ at \in [Streams -> {"free", "open", "subscribed", "live", "leaving"}]
  /\ chan \in [Streams -> 0..Buffer]
  /\ wire \in [Streams -> 0..Wire + 1]
  /\ conn \in Streams \cup {None} /\ deaf \in BOOLEAN
  /\ asked \in 0..MaxFetches /\ answers \subseteq Read
  /\ list \in -1..MaxWrites
  /\ faults \in 0..MaxFaults /\ excused \in BOOLEAN

(* The page is mounted: it asks for the list and opens the stream. *)
Init ==
  /\ row \in [Jobs -> {"active"}] /\ rev = 0
  /\ pub = [a \in Publishers |-> Resting]
  /\ subs = {} /\ shut = {} /\ closed = FALSE
  /\ at = [s \in Streams |-> "free"]
  /\ chan = [s \in Streams |-> 0]
  /\ wire = [s \in Streams |-> 0]
  /\ conn = None /\ deaf = FALSE
  /\ asked = 1 /\ answers = {}
  /\ list = -1
  /\ faults = 0 /\ excused = FALSE

(***************************************************************************)
(* Writes and their events.                                                *)
(***************************************************************************)
(* An enqueued job is active; a job that is there goes on or ends.         *)
WriteRow(j, state) ==
  /\ rev < MaxWrites
  /\ rev' = rev + 1
  /\ row[j] = "none" => state = "active"
  /\ row' = [row EXCEPT ![j] = state]

(* Enqueue, claim, the outcomes, Cancel and Progress publish afterwards. *)
Write(a, j, state) ==
  /\ pub[a].at = "idle"
  /\ state \in {"active", "ended"}
  /\ WriteRow(j, state)
  /\ pub' = [pub EXCEPT ![a].at = "written"]
  /\ UNCHANGED <<broker, handlers, page>>

(* The reclaim of expired leases and the purge publish nothing, nor does a *)
(* Cancel that cannot read the job back.                                   *)
WriteSilently(j, state) ==
  /\ \/ row[j] = "active" /\ state \in {"active", "ended"}
     \/ row[j] = "ended" /\ state = "none"
  /\ WriteRow(j, state)
  /\ excused' = TRUE
  /\ UNCHANGED <<pub, broker, handlers, conn, deaf, asked, answers, list, faults>>

(* Publish holds the read lock from here to its last send. *)
Publish(a) ==
  /\ pub[a].at = "written"
  /\ pub' = [pub EXCEPT ![a] = [at |-> "sending", left |-> subs]]
  /\ UNCHANGED <<table, broker, handlers, page>>

(* Mutant: the send waits for room. *)
WaitsForRoom(s) == chan[s] < Buffer
DropsWhenFull(s) == TRUE

(* Mutant: a queue that grows. *)
Queued(n) == n + 1

(* The select with a default: there is room, or the event is lost. *)
Buffered(n) == IF n < Buffer THEN n + 1 ELSE n

Offer(a, s) ==
  /\ s \in pub[a].left
  /\ DropsWhenFull(s)
  /\ chan' = [chan EXCEPT ![s] = Buffered(@)]
  /\ pub' = [pub EXCEPT ![a].left = @ \ {s}]
  /\ UNCHANGED <<table, broker, at, wire, page>>

Published(a) ==
  /\ pub[a].at = "sending" /\ pub[a].left = {}
  /\ pub' = [pub EXCEPT ![a] = Resting]
  /\ UNCHANGED <<table, broker, handlers, page>>

(* Mutant: the write lock is forgotten. *)
AlwaysUnlocked == TRUE

(* What the write lock waits for. *)
NobodyPublishes == \A a \in Publishers : pub[a].at # "sending"

(* The deferred Close at the end of cmdServe. *)
Close ==
  /\ NobodyPublishes
  /\ ~closed
  /\ closed' = TRUE
  /\ shut' = shut \cup subs
  /\ subs' = {}
  /\ UNCHANGED <<table, pub, handlers, page>>

(***************************************************************************)
(* A stream.                                                               *)
(***************************************************************************)
(* Mutant: the snapshot is read first. *)
SnapshotThenSubscribe == [subscribe |-> "subscribed", snapshot |-> "open"]

(* What the handler has done before it subscribes, and before it reads the *)
(* snapshot.                                                               *)
SubscribeThenSnapshot == [subscribe |-> "open", snapshot |-> "subscribed"]

(* The steps come in this order: open, subscribed, live. *)
After(s) == IF at[s] = "open" THEN "subscribed" ELSE "live"

Subscribe(s) ==
  /\ at[s] = SubscribeThenSnapshot.subscribe
  /\ NobodyPublishes
  /\ subs' = IF closed THEN subs ELSE subs \cup {s}
  /\ shut' = IF closed THEN shut \cup {s} ELSE shut \ {s}
  /\ at' = [at EXCEPT ![s] = After(s)]
  /\ UNCHANGED <<table, pub, closed, chan, wire, page>>

Active == {j \in Jobs : row[j] = "active"}

(* The page is shown a list that is old, and this stream will not say so.  *)
Untold(s) == s = conn /\ list # rev

(* An event for every active job, of which there may be none.  (One event  *)
(* does for all.)                                                          *)
SendActive(s) ==
  /\ wire' = [wire EXCEPT ![s] = IF Active # {} THEN @ + 1 ELSE @]
  /\ excused' = (excused \/ (Active = {} /\ Untold(s)))
  /\ UNCHANGED faults

(* The jobs cannot be read: nothing is sent, and the stream goes on.       *)
SendNothing(s) ==
  /\ faults < MaxFaults
  /\ faults' = faults + 1
  /\ excused' = (excused \/ Untold(s))
  /\ UNCHANGED wire

Snapshot(s) ==
  /\ at[s] = SubscribeThenSnapshot.snapshot
  /\ SendActive(s) \/ SendNothing(s)
  /\ at' = [at EXCEPT ![s] = After(s)]
  /\ UNCHANGED <<table, pub, broker, chan, conn, deaf, asked, answers, list>>

(* The loop writes the next event; a full connection holds it up. *)
Forward(s) ==
  /\ at[s] = "live"
  /\ chan[s] > 0 /\ wire[s] < Wire
  /\ chan' = [chan EXCEPT ![s] = @ - 1]
  /\ wire' = [wire EXCEPT ![s] = @ + 1]
  /\ UNCHANGED <<table, pub, broker, at, page>>

Leaves(s) ==
  /\ at' = [at EXCEPT ![s] = "leaving"]
  /\ UNCHANGED <<table, pub, broker, chan, wire, page>>

(* The channel is closed and empty. *)
EndOfEvents(s) == at[s] = "live" /\ s \in shut /\ chan[s] = 0 /\ Leaves(s)

(* The request's context is done: the client has gone, or the 60 seconds   *)
(* of middleware.Timeout are over, which end every stream.                 *)
ContextDone(s) == at[s] = "live" /\ Leaves(s)

(* Mutant: the deferred call is missing. *)
Forgotten(s) == subs

(* What the deferred call of cancel leaves registered. *)
Remaining(s) == subs \ {s}

(* The deferred unsubscribe, and the end of the response. *)
Unsubscribe(s) ==
  /\ at[s] = "leaving"
  /\ NobodyPublishes
  /\ subs' = Remaining(s)
  /\ shut' = IF s \in subs THEN shut \cup {s} ELSE shut
  /\ at' = [at EXCEPT ![s] = "free"]
  /\ chan' = [chan EXCEPT ![s] = 0]
  /\ wire' = [wire EXCEPT ![s] = IF s = conn THEN @ ELSE 0]
  /\ UNCHANGED <<table, pub, closed, page>>

(***************************************************************************)
(* The page.                                                               *)
(***************************************************************************)
Connect ==
  /\ conn = None /\ ~deaf
  /\ \E s \in Streams : at[s] = "free"
  /\ conn' = CHOOSE s \in Streams : at[s] = "free"
  /\ at' = [at EXCEPT ![conn'] = "open"]
  /\ UNCHANGED <<table, pub, broker, chan, wire>>
  /\ UNCHANGED <<deaf, asked, answers, list, faults, excused>>

(* requireUser answers 401 or 500: an EventSource does not try again after *)
(* an answer other than 200, and the page opens no other.                  *)
Refuse ==
  /\ conn = None /\ ~deaf
  /\ faults < MaxFaults
  /\ faults' = faults + 1
  /\ deaf' = TRUE
  /\ UNCHANGED <<table, pub, broker, handlers, conn, asked, answers, list, excused>>

(* The response has ended and all of it has been read. *)
NoticeEnd ==
  /\ conn # None
  /\ at[conn] = "free" /\ wire[conn] = 0
  /\ conn' = None
  /\ UNCHANGED <<table, pub, broker, handlers>>
  /\ UNCHANGED <<deaf, asked, answers, list, faults, excused>>

(* The connection breaks, and what was on the way is lost. *)
Cut ==
  /\ conn # None
  /\ faults < MaxFaults
  /\ faults' = faults + 1
  /\ conn' = None
  /\ wire' = [wire EXCEPT ![conn] = IF at[conn] = "free" THEN 0 ELSE @]
  /\ UNCHANGED <<table, pub, broker, at, chan, deaf, asked, answers, list, excused>>

(* An event arrives, and the page asks for the list. *)
Take ==
  /\ conn # None
  /\ wire[conn] > 0
  /\ asked < MaxFetches
  /\ wire' = [wire EXCEPT ![conn] = @ - 1]
  /\ asked' = asked + 1
  /\ UNCHANGED <<table, pub, broker, at, chan>>
  /\ UNCHANGED <<conn, deaf, answers, list, faults, excused>>

(* handleListJobs.  Bound: one response of a revision is on the way. *)
List ==
  /\ asked > 0 /\ rev \notin answers
  /\ asked' = asked - 1
  /\ answers' = answers \cup {rev}
  /\ UNCHANGED <<table, pub, broker, handlers, conn, deaf, list, faults, excused>>

(* A response lands and is shown, also when a later one has overtaken it. *)
Land(v) ==
  /\ v \in answers
  /\ answers' = answers \ {v}
  /\ list' = v
  /\ excused' = (list' # rev /\ (excused \/ list' < list))
  /\ UNCHANGED <<table, pub, broker, handlers, conn, deaf, asked, faults>>

(* A failed request is forgotten: the list stays as it is. *)
FetchFails ==
  /\ asked > 0
  /\ faults < MaxFaults
  /\ faults' = faults + 1
  /\ asked' = asked - 1
  /\ excused' = (excused \/ list # rev)
  /\ UNCHANGED <<table, pub, broker, handlers, conn, deaf, answers, list>>

(***************************************************************************)
(* The system.                                                             *)
(***************************************************************************)
Writes ==
  \E j \in Jobs, state \in {"none", "active", "ended"} :
    WriteSilently(j, state) \/ \E a \in Publishers : Write(a, j, state)

Publishing(a) == Publish(a) \/ Published(a) \/ \E s \in Streams : Offer(a, s)

Streaming(s) ==
  Subscribe(s) \/ Snapshot(s) \/ Forward(s) \/ EndOfEvents(s) \/ Unsubscribe(s)

Next ==
  \/ Writes \/ Close
  \/ \E a \in Publishers : Publishing(a)
  \/ \E s \in Streams : Streaming(s) \/ ContextDone(s)
  \/ \E v \in Read : Land(v)
  \/ Connect \/ Refuse \/ NoticeEnd \/ Cut \/ Take \/ List \/ FetchFails

Spec == Init /\ [][Next]_vars

(* Goroutines are scheduled, locks are granted, and a page that is open    *)
(* reads its connection and its responses, and reconnects.  A stream the   *)
(* page has lost ends by the timeout, if by nothing else.  Nothing has to  *)
(* be written, and no connection has to break.                             *)
Fairness ==
  /\ \A a \in Publishers : WF_vars(Publishing(a))
  /\ \A s \in Streams : WF_vars(Streaming(s)) /\ WF_vars(s # conn /\ ContextDone(s))
  /\ WF_vars(Connect \/ NoticeEnd) /\ WF_vars(Take)
  /\ WF_vars(List) /\ WF_vars(\E v \in Read : Land(v))

FairSpec == Spec /\ Fairness

(***************************************************************************)
(* Properties.                                                             *)
(***************************************************************************)
(* No publisher sends to a channel that Close or a stream's cancel has     *)
(* closed, none is closed twice, and the streams that are registered are   *)
(* those between Subscribe and the deferred cancel: no subscription leaks. *)
ChannelsAreSound ==
  /\ \A a \in Publishers : pub[a].left \cap shut = {}
  /\ subs \cap shut = {}
  /\ \A s \in subs : at[s] \in {"subscribed", "live", "leaving"}

(* Something is on its way that makes the page ask again, or an answer     *)
(* that is up to date.                                                     *)
Warned ==
  \/ conn = None
  \/ at[conn] # "live" \/ conn \in shut
  \/ chan[conn] > 0 \/ wire[conn] > 0
  \/ \E a \in Publishers : pub[a].at = "written" \/ conn \in pub[a].left
  \/ asked > 0 \/ rev \in answers

(* A page that shows an old list will ask again, however events are        *)
(* dropped, streams end and reconnect, and a change falls between the      *)
(* subscription and the snapshot.  What it is not told about: a reclaim or *)
(* a purge; that a job ended while it was not connected, if none is active *)
(* when it is again, or they cannot be read; a response that fails or is   *)
(* overtaken by a later one; and anything, once its stream was refused.    *)
StalePagesAreWarned == list # rev /\ ~excused /\ ~deaf => Warned

(* ... and so its list becomes right. *)
PagesConverge == []<>(list = rev \/ excused \/ deaf)

(* client.ts: "the server replays the current active jobs whenever a       *)
(* client connects - so a reconnect re-synchronises state".  Once a stream *)
(* has sent them, the page shows what the table holds or is about to ask.  *)
ReconnectResynchronises ==
  [][\A s \in Streams :
       s = conn /\ Snapshot(s) /\ ~excused => list' = rev' \/ Warned']_vars

(* Publishing never waits for a subscriber, frozen, slow or gone, so that  *)
(* whoever reports progress gets on with its work.                         *)
PublishersReturn == \A a \in Publishers : []<>(pub[a].at = "idle")

(* A stream the page has lost is unsubscribed and ends. *)
LostStreamsEnd ==
  \A s \in Streams : []<>(s = conn \/ (at[s] = "free" /\ s \notin subs))
=================================================================================
