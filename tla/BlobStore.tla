------------------------------- MODULE BlobStore --------------------------------
(***************************************************************************)
(* The blob store of manualbox (internal/store): files named by the digest *)
(* of their bytes, uploaded by concurrent requests, in a process that can  *)
(* die and on a machine that can lose power at any moment.                 *)
(*                                                                         *)
(* A content stands for its bytes, its digest and the path made of it.     *)
(* Put is modelled system call by system call, since those of concurrent   *)
(* uploads of one content and of a Delete interleave.  What a process sees *)
(* (blob) is told from what a loss of power leaves (durable): a rename, a  *)
(* chmod and a removal become durable when the system flushes them, for    *)
(* nothing syncs a directory; the bytes, when the file is synced.          *)
(*                                                                         *)
(* Left out: reading (Open, ReadAll, Stat, Exists, Verify), which changes  *)
(* nothing, and the rejection of malformed digests.                        *)
(***************************************************************************)
EXTENDS Naturals

CONSTANTS
  Contents,
  Uploads,    \* slots for calls of Put
  None,
  MaxCrashes, \* bound: deaths of the process
  MaxLosses   \* bound: losses of power

ASSUME NamesAssumption == None \notin Contents
ASSUME BoundsAssumption == MaxCrashes \in Nat /\ MaxLosses \in Nat

Entry == {"none", "writable", "readonly"}
Stage == {"idle", "copying", "syncing", "checking", "renaming", "chmod",
          "stored", "failed"}

VARIABLES
  blob,      \* the file at a content's path
  durable,   \* what a loss of power leaves of it
  unsynced,  \* contents whose file has bytes that may still be lost
  torn,      \* contents whose file has lost bytes
  put,       \* per upload: how far it is, of what, and if its file is synced
  temps,     \* uploads whose temporary file is in tmp/
  litter,    \* tmp/ has files of uploads of an earlier process
  up,        \* the process serves
  crashes, losses,
  \* history
  ever,      \* contents that were at their path at some time
  cut        \* contents whose file was not made read-only, by an error or death

faults == <<crashes, losses>>
directory == <<blob, durable, unsynced, torn>>
vars == <<blob, durable, unsynced, torn, put, temps, litter, up, crashes, losses,
          ever, cut>>

NoPut == [at |-> "idle", of |-> None, synced |-> FALSE]

TypeOK ==
  /\ blob \in [Contents -> Entry] /\ durable \in [Contents -> Entry]
  /\ unsynced \subseteq Contents /\ torn \subseteq Contents
  /\ put \in [Uploads -> [at: Stage, of: Contents \cup {None}, synced: BOOLEAN]]
  /\ \A u \in Uploads : put[u].at # "idle" => put[u].of \in Contents
  /\ temps \subseteq Uploads
  /\ litter \in BOOLEAN /\ up \in BOOLEAN
  /\ crashes \in 0..MaxCrashes /\ losses \in 0..MaxLosses
  /\ ever \subseteq Contents /\ cut \subseteq Contents

Init ==
  /\ blob = [d \in Contents |-> "none"] /\ durable = [d \in Contents |-> "none"]
  /\ unsynced = {} /\ torn = {}
  /\ put = [u \in Uploads |-> NoPut]
  /\ temps = {} /\ litter = FALSE
  /\ up = TRUE
  /\ crashes = 0 /\ losses = 0
  /\ ever = {} /\ cut = {}

There(d) == blob[d] # "none"

(***************************************************************************)
(* Put                                                                     *)
(***************************************************************************)
(* Mutant: the digest does not survive the next step. *)
GoesBlank(u, stage) == put' = [put EXCEPT ![u] = [NoPut EXCEPT !.at = stage]]

Goes(u, stage) == put' = [put EXCEPT ![u].at = stage]

(* Mutant: the deferred removal is skipped for a duplicate. *)
RemoveTempOfFailed(u, stage) ==
  temps' = IF stage = "failed" THEN temps \ {u} ELSE temps

(* The deferred removal of a temporary file that was not renamed away. *)
RemoveTemp(u, stage) == temps' = temps \ {u}

(* Put ends before its rename, with an answer. *)
Ends(u, stage) ==
  /\ Goes(u, stage)
  /\ RemoveTemp(u, stage)
  /\ UNCHANGED <<directory, litter, up, faults, ever, cut>>

CreateTemp(u, d) ==
  /\ up
  /\ put[u] = NoPut
  /\ put' = [put EXCEPT ![u] = [NoPut EXCEPT !.at = "copying", !.of = d]]
  /\ temps' = temps \cup {u}
  /\ UNCHANGED <<directory, litter, up, faults, ever, cut>>

(* All of the bytes have arrived, and with them the digest. *)
Copy(u) ==
  /\ put[u].at = "copying"
  /\ Goes(u, "syncing")
  /\ UNCHANGED <<directory, temps, litter, up, faults, ever, cut>>

(* Mutant: the bytes are left to the page cache. *)
NeverSynced == FALSE
SyncedBySync == TRUE

Sync(u) ==
  /\ put[u].at = "syncing"
  /\ put' = [put EXCEPT ![u].at = "checking", ![u].synced = SyncedBySync]
  /\ UNCHANGED <<directory, temps, litter, up, faults, ever, cut>>

(* The client hangs up, the disk is full, a directory cannot be made.      *)
GiveUp(u) ==
  /\ put[u].at \in {"copying", "syncing", "checking"}
  /\ Ends(u, "failed")

(* The upload of a content that is there is discarded. *)
Check(u) ==
  /\ put[u].at = "checking"
  /\ \/ There(put[u].of) /\ Ends(u, "stored")
     \/ /\ ~There(put[u].of)
        /\ Goes(u, "renaming")
        /\ UNCHANGED <<directory, temps, litter, up, faults, ever, cut>>

(* Mutant: the blob is left as the temporary file was created. *)
StoredAtOnce == "stored"
AfterRename == "chmod"

(* Over the file of a concurrent upload, if that was there first. *)
Rename(u) ==
  LET d == put[u].of IN
  /\ put[u].at = "renaming"
  /\ blob' = [blob EXCEPT ![d] = "writable"]
  /\ unsynced' = IF put[u].synced THEN unsynced \ {d} ELSE unsynced \cup {d}
  /\ torn' = torn \ {d}
  /\ temps' = temps \ {u}
  /\ ever' = ever \cup {d}
  /\ Goes(u, AfterRename)
  /\ UNCHANGED <<durable, litter, up, faults, cut>>

(* Mutant: a failed rename means that another upload was first. *)
OthersWin(d) == TRUE
WonByOther(d) == There(d)

RenameFails(u) ==
  /\ put[u].at = "renaming"
  /\ \/ WonByOther(put[u].of) /\ Ends(u, "stored")
     \/ ~There(put[u].of) /\ Ends(u, "failed")

Chmod(u) ==
  LET d == put[u].of IN
  /\ put[u].at = "chmod"
  /\ There(d)
  /\ blob' = [blob EXCEPT ![d] = "readonly"]
  /\ cut' = cut \ {d}
  /\ Goes(u, "stored")
  /\ UNCHANGED <<durable, unsynced, torn, temps, litter, up, faults, ever>>

(* It must fail when the blob has been deleted; Put then fails although it *)
(* has stored its content.                                                 *)
ChmodFails(u) ==
  LET d == put[u].of IN
  /\ put[u].at = "chmod"
  /\ cut' = IF blob[d] = "writable" THEN cut \cup {d} ELSE cut
  /\ Goes(u, "failed")
  /\ UNCHANGED <<directory, temps, litter, up, faults, ever>>

Answer(u) ==
  /\ put[u].at \in {"stored", "failed"}
  /\ put' = [put EXCEPT ![u] = NoPut]
  /\ UNCHANGED <<directory, temps, litter, up, faults, ever, cut>>

(***************************************************************************)
(* Delete                                                                  *)
(***************************************************************************)
Delete(d) ==
  /\ up
  /\ There(d)
  /\ blob' = [blob EXCEPT ![d] = "none"]
  /\ unsynced' = unsynced \ {d} /\ torn' = torn \ {d} /\ cut' = cut \ {d}
  /\ UNCHANGED <<durable, put, temps, litter, up, faults, ever>>

(***************************************************************************)
(* The system, and the process.                                            *)
(***************************************************************************)
Flush(d) ==
  /\ durable[d] # blob[d]
  /\ durable' = [durable EXCEPT ![d] = blob[d]]
  /\ UNCHANGED <<blob, unsynced, torn, put, temps, litter, up, faults, ever, cut>>

ProcessEnds ==
  /\ up' = FALSE
  /\ put' = [u \in Uploads |-> NoPut]
  /\ temps' = {}
  /\ litter' = (litter \/ temps # {})
  /\ cut' = {d \in Contents : blob'[d] = "writable"}
  /\ UNCHANGED <<durable, ever>>

Crash ==
  /\ up
  /\ crashes < MaxCrashes
  /\ crashes' = crashes + 1
  /\ UNCHANGED <<blob, unsynced, torn, losses>>
  /\ ProcessEnds

(* Any of the bytes that were not synced may be missing. *)
PowerLoss ==
  /\ losses < MaxLosses
  /\ losses' = losses + 1
  /\ blob' = durable
  /\ \E lost \in SUBSET unsynced : torn' = torn \cup lost
  /\ unsynced' = {}
  /\ ProcessEnds
  /\ UNCHANGED crashes

(* New and CleanTemp; a file that cannot be removed is only logged. *)
Start ==
  /\ ~up
  /\ up' = TRUE
  /\ litter' \in {litter, FALSE}
  /\ UNCHANGED <<directory, put, temps, faults, ever, cut>>

Next ==
  \/ \E u \in Uploads :
       \/ \E d \in Contents : CreateTemp(u, d)
       \/ Copy(u) \/ Sync(u) \/ GiveUp(u) \/ Check(u) \/ Rename(u) \/ RenameFails(u)
       \/ Chmod(u) \/ ChmodFails(u) \/ Answer(u)
  \/ \E d \in Contents : Delete(d) \/ Flush(d)
  \/ Crash \/ PowerLoss \/ Start

Spec == Init /\ [][Next]_vars

(***************************************************************************)
(* Properties.                                                             *)
(***************************************************************************)
(* A file at a content's path has all of its bytes, also after a crash or  *)
(* a loss of power in the middle of an upload (Put syncs before it renames *)
(* and renames only what it has read to the end).                          *)
VisibleIsWhole == \A d \in Contents : There(d) => d \notin torn

(* A blob that can be overwritten is about to be made read-only, or the    *)
(* upload that stored it was cut off before its chmod, or the chmod        *)
(* failed.                                                                 *)
WritableIsExplained ==
  \A d \in Contents :
    blob[d] = "writable" =>
      d \in cut \/ \E u \in Uploads : put[u].at = "chmod" /\ put[u].of = d

(* No upload leaves its temporary file behind: whatever is in tmp/ belongs *)
(* to an upload that is still before its rename, or to an earlier process. *)
TempsHaveUploads ==
  \A u \in temps : put[u].at \in {"copying", "syncing", "checking", "renaming"}

(* What a caller can tell of an upload. *)
Outward(stage) ==
  CASE stage = "idle" -> "idle"
    [] stage = "chmod" -> "kept"
    [] stage = "stored" -> "ok"
    [] stage = "failed" -> "failed"
    [] OTHER -> "pending"

Stored == {d \in Contents : There(d)}
Calls == [u \in Uploads |-> [at |-> Outward(put[u].at), of |-> {put[u].of} \ {None}]]

(* The store is a set of contents with atomic uploads. *)
Promised == INSTANCE ContentStore WITH stored <- Stored, call <- Calls

(* An upload answered ok has found its content stored or stored it, and    *)
(* nothing but a Delete or a loss of power takes one away.                 *)
ImplementsContentStore == Promised!Spec
=================================================================================
