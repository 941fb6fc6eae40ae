-------------------------------- MODULE Keyring ---------------------------------
(***************************************************************************)
(* The keyring of manualbox (internal/keyring): one data key, wrapped once *)
(* for every secret that opens it, in a file that is replaced whole.       *)
(*                                                                         *)
(* A handle is a *Keyring in the memory of some process: it keeps the key  *)
(* and a copy of the file's wraps, changes the copy and then saves it.  So *)
(* a save that fails leaves the copy ahead of the file, and two handles on *)
(* one file do not see each other's changes.  A handle is used by one      *)
(* goroutine at a time.                                                    *)
(*                                                                         *)
(* A wrap is known by its ID and stands for the one secret that opens it,  *)
(* passphrase or operational key alike.  A save writes and syncs a private *)
(* temporary file and renames it over the keyring; the rename is what      *)
(* others see, and no fsync of the directory makes it durable, so a loss   *)
(* of power can undo it until the system flushes.                          *)
(*                                                                         *)
(* Left out: Encrypt, Decrypt, Index and the derivation of keys, which are *)
(* pure functions of the data key; labels and times; the temporary file a  *)
(* dying process leaves behind.                                            *)
(***************************************************************************)
EXTENDS Integers, FiniteSets

CONSTANTS
  Wraps,       \* the wrap IDs newID will draw
  Keys,        \* the data keys rand.Read will draw
  Handles,
  None,
  MaxFailures, \* bound: saves that fail
  MaxLosses    \* bound: losses of power

ASSUME NamesAssumption == None \notin Keys
ASSUME BoundsAssumption == MaxFailures \in Nat /\ MaxLosses \in Nat

File == [key: Keys, wraps: SUBSET Wraps]
NoFile == [key |-> None, wraps |-> {}]

VARIABLES
  \* the data directory
  disk,        \* keyring.json as processes see it
  durable,     \* as it would be after a loss of power
  \* per handle
  mem,         \* the data key and the wraps in memory
  op,          \* the call that is being served
  \* drawn so far
  drawn, drawnKeys,
  \* history
  base,        \* per handle: the file its memory was last equal to
  told,        \* the wraps the callers have been told open the data
  limbo,       \* the wraps of changes that were never answered, or undone,
               \* and not tested or removed since
  mixed,       \* a file was replaced by one that was not made from it: by a
               \* handle that was stale, or ahead of the file after a failure
  replaced,    \* Create replaced a keyring that was there
  failures, losses

files == <<disk, durable>>
history == <<told, limbo, mixed, replaced>>
bounds == <<drawn, drawnKeys, failures, losses>>
vars == <<disk, durable, mem, op, drawn, drawnKeys, base, told, limbo, mixed,
          replaced, failures, losses>>

(* clean: when the call began, memory was what the handle had last read or *)
(* written.                                                                *)
NoOp == [act |-> "none", at |-> "idle", ids |-> {}, clean |-> TRUE]
Op == [act: {"none", "create", "add", "remove"}, at: {"idle", "saving"},
       ids: SUBSET Wraps, clean: BOOLEAN]

TypeOK ==
  /\ disk \in File \cup {NoFile} /\ durable \in File \cup {NoFile}
  /\ mem \in [Handles -> File \cup {NoFile}]
  /\ base \in [Handles -> File \cup {NoFile}]
  /\ op \in [Handles -> Op]
  /\ drawn \subseteq Wraps /\ drawnKeys \subseteq Keys
  /\ told \subseteq drawn /\ limbo \subseteq drawn
  /\ mixed \in BOOLEAN /\ replaced \in BOOLEAN
  /\ failures \in 0..MaxFailures /\ losses \in 0..MaxLosses

Init ==
  /\ disk = NoFile /\ durable = NoFile
  /\ mem = [h \in Handles |-> NoFile]
  /\ base = [h \in Handles |-> NoFile]
  /\ op = [h \in Handles |-> NoOp]
  /\ drawn = {} /\ drawnKeys = {}
  /\ told = {} /\ limbo = {} /\ mixed = FALSE /\ replaced = FALSE
  /\ failures = 0 /\ losses = 0

Opened(h) == mem[h] # NoFile /\ op[h].at = "idle"
Closed(h) == mem[h] = NoFile

(***************************************************************************)
(* The calls, up to their save: memory is changed first.                   *)
(***************************************************************************)
Begins(h, act, ids, file) ==
  /\ mem' = [mem EXCEPT ![h] = file]
  /\ op' = [op EXCEPT ![h] = [act |-> act, at |-> "saving", ids |-> ids,
                              clean |-> mem[h] = base[h]]]
  /\ drawn' = drawn \cup ids
  /\ UNCHANGED <<files, base, history, failures, losses>>

(* A wrap for the passphrase, one for the operational key, or both.        *)
(* Nothing asks whether the file is there already.                         *)
Create(h, key, ids) ==
  /\ Closed(h)
  /\ key \notin drawnKeys
  /\ ids \cap drawn = {} /\ Cardinality(ids) \in {1, 2}
  /\ drawnKeys' = drawnKeys \cup {key}
  /\ Begins(h, "create", ids, [key |-> key, wraps |-> ids])

(* AddPassphrase, AddOperationalKey *)
Add(h, id) ==
  /\ Opened(h)
  /\ id \notin drawn
  /\ UNCHANGED drawnKeys
  /\ Begins(h, "add", {id}, [mem[h] EXCEPT !.wraps = @ \cup {id}])

(* Mutant: the last wrap may go. *)
MayRemoveAny(h, id) == id \in mem[h].wraps

MayRemove(h, id) == id \in mem[h].wraps /\ Cardinality(mem[h].wraps) # 1

RemoveWrap(h, id) ==
  /\ Opened(h)
  /\ MayRemove(h, id)
  /\ UNCHANGED drawnKeys
  /\ Begins(h, "remove", {id}, [mem[h] EXCEPT !.wraps = @ \ {id}])

(***************************************************************************)
(* save, and the answer.                                                   *)
(***************************************************************************)
Replace(h) ==
  /\ op[h].at = "saving"
  /\ disk' = mem[h]
  /\ op' = [op EXCEPT ![h] = NoOp]
  /\ mixed' = (mixed \/ ~op[h].clean \/ base[h] # disk)
  /\ replaced' = (replaced \/ (op[h].act = "create" /\ disk # NoFile))
  /\ UNCHANGED <<durable, bounds>>

(* The rename, and the answer to the caller. *)
Rename(h) ==
  /\ Replace(h)
  /\ base' = [base EXCEPT ![h] = mem[h]]
  /\ told' = IF op[h].act = "remove" THEN told \ op[h].ids ELSE told \cup op[h].ids
  /\ limbo' = limbo \ op[h].ids
  /\ UNCHANGED mem

(* The rename, and the process is gone before it has answered. *)
RenameUnanswered(h) ==
  /\ Replace(h)
  /\ mem' = [mem EXCEPT ![h] = NoFile]
  /\ base' = [base EXCEPT ![h] = NoFile]
  /\ limbo' = limbo \cup op[h].ids
  /\ UNCHANGED told

(* Mutant: the keyring is returned along with the error. *)
KeptInMemory(h) == mem[h]

(* Mutant: the data key is wiped, and the keyring returned. *)
WipedInMemory(h) ==
  IF op[h].act = "create" THEN [mem[h] EXCEPT !.key = None] ELSE mem[h]

(* What a handle is after a save that failed: a change that did not reach  *)
(* the file stays in memory; Create returns no handle.                     *)
LeftInMemory(h) == IF op[h].act = "create" THEN NoFile ELSE mem[h]

(* Any step of save fails: the directory, the temporary file, the write,   *)
(* the sync, the permissions or the rename.                                *)
SaveFails(h) ==
  /\ op[h].at = "saving"
  /\ failures < MaxFailures
  /\ failures' = failures + 1
  /\ mem' = [mem EXCEPT ![h] = LeftInMemory(h)]
  /\ op' = [op EXCEPT ![h] = NoOp]
  /\ UNCHANGED <<files, base, history, drawn, drawnKeys, losses>>

(***************************************************************************)
(* Reading the file.                                                       *)
(***************************************************************************)
Opens(id) == id \in disk.wraps

(* Whichever wrap the secret opens, the whole file goes into memory. *)
Open(h, id) ==
  /\ Closed(h)
  /\ Opens(id)
  /\ mem' = [mem EXCEPT ![h] = disk]
  /\ base' = [base EXCEPT ![h] = disk]
  /\ UNCHANGED <<files, op, history, bounds>>

(* Mutant: the secret is tried on the wraps in memory. *)
VerifiesInMemory(h, id) == id \in mem[h].wraps

Verifies(h, id) == Opens(id) /\ disk.key = mem[h].key

(* Somebody tests a secret against the file and is told that it works. *)
Verify(h, id) ==
  /\ Opened(h)
  /\ Verifies(h, id)
  /\ told' = told \cup {id}
  /\ limbo' = limbo \ {id}
  /\ UNCHANGED <<files, mem, op, base, mixed, replaced, bounds>>

(***************************************************************************)
(* Processes end, and power is lost.                                       *)
(***************************************************************************)
Die(h) ==
  /\ ~Closed(h)
  /\ mem' = [mem EXCEPT ![h] = NoFile]
  /\ base' = [base EXCEPT ![h] = NoFile]
  /\ op' = [op EXCEPT ![h] = NoOp]
  /\ UNCHANGED <<files, history, bounds>>

Flush ==
  /\ durable # disk
  /\ durable' = disk
  /\ UNCHANGED <<disk, mem, op, base, history, bounds>>

(* Every process ends, and renames that were not flushed are undone. *)
PowerLoss ==
  /\ losses < MaxLosses
  /\ losses' = losses + 1
  /\ disk' = durable
  /\ mem' = [h \in Handles |-> NoFile]
  /\ base' = [h \in Handles |-> NoFile]
  /\ op' = [h \in Handles |-> NoOp]
  /\ limbo' = limbo \cup (disk.wraps \ durable.wraps) \cup (durable.wraps \ disk.wraps)
  /\ UNCHANGED <<durable, told, mixed, replaced, drawn, drawnKeys, failures>>

Next ==
  \/ \E h \in Handles :
       \/ \E key \in Keys, ids \in SUBSET Wraps : Create(h, key, ids)
       \/ \E id \in Wraps : Add(h, id) \/ RemoveWrap(h, id) \/ Open(h, id) \/ Verify(h, id)
       \/ Rename(h) \/ RenameUnanswered(h) \/ SaveFails(h) \/ Die(h)
  \/ Flush \/ PowerLoss

Spec == Init /\ [][Next]_vars

(***************************************************************************)
(* Properties.                                                             *)
(***************************************************************************)
(* The file and every keyring in memory can be opened with something,      *)
(* whatever failed before: RemoveWrap refuses the last wrap it knows of,   *)
(* and a save replaces the file whole (ErrLastWrap, save).                 *)
NeverWithoutAWrap ==
  /\ disk # NoFile => disk.wraps # {}
  /\ durable # NoFile => durable.wraps # {}
  /\ \A h \in Handles : ~Closed(h) => mem[h].wraps # {}

(* A keyring in use has the key of the file, so what it encrypts can be    *)
(* read after a restart; unless a Create has replaced a keyring that was   *)
(* there, which nothing in it prevents.                                    *)
EveryHandleHasTheKey ==
  ~replaced =>
    \A h \in Handles :
      ~Closed(h) /\ op[h].act # "create" =>
        disk # NoFile /\ mem[h].key = disk.key

(* What callers have been told is what the file holds: an added or tested  *)
(* secret opens it, a removed one does not, a call that failed changed     *)
(* nothing.  So it is as long as every save starts from the file it        *)
(* replaces, that is, by a handle that is not stale and not ahead of the   *)
(* file after a failed save; changes never answered, or undone by a loss   *)
(* of power, are open.                                                     *)
TheFileIsWhatWasTold ==
  ~mixed => /\ told \ limbo \subseteq disk.wraps
            /\ disk.wraps \subseteq told \cup limbo

=================================================================================
