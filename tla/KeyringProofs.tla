------------------------------ MODULE KeyringProofs -----------------------------
(***************************************************************************)
(* Proofs about Keyring, for any wraps, keys and handles, and any number   *)
(* of failed saves and losses of power.                                    *)
(***************************************************************************)
EXTENDS Keyring, FiniteSetTheorems, TLAPS

(* Wraps that are anywhere have been drawn, and a handle that is saving has *)
(* a call and a keyring to save.                                            *)
Drawn ==
  /\ disk.wraps \subseteq drawn /\ durable.wraps \subseteq drawn
  /\ \A h \in Handles : mem[h].wraps \subseteq drawn /\ op[h].ids \subseteq drawn
  /\ \A h \in Handles :
       IF op[h].at = "saving" THEN mem[h] # NoFile /\ op[h].act # "none"
                              ELSE op[h].act = "none"

Typed == TypeOK /\ Drawn

(* A handle at rest has a value of its type. *)
LEMMA NoOpType == NoOp \in Op /\ NoOp.at = "idle" /\ NoOp.act = "none" /\ NoOp.ids = {}
  BY DEF NoOp, Op

(* The missing file is told from every keyring. *)
LEMMA NoFileType == NoFile.wraps = {} /\ NoFile.key = None /\ NoFile \notin File
  BY NamesAssumption DEF NoFile, File

(* One step per action of Next. *)
LEMMA TypeStep == Typed /\ [Next]_vars => Typed'
<1> SUFFICES ASSUME Typed, [Next]_vars PROVE Typed'
  OBVIOUS
<1> USE NamesAssumption, BoundsAssumption, NoOpType, NoFileType
<1> USE DEF Typed, TypeOK, Drawn, File, Op, files, history, bounds
<1>1. ASSUME NEW h \in Handles, NEW key \in Keys, NEW ids \in SUBSET Wraps,
             Create(h, key, ids)
      PROVE  Typed'
  BY <1>1 DEF Create, Begins, Closed
<1>2. ASSUME NEW h \in Handles, NEW id \in Wraps, Add(h, id)
      PROVE  Typed'
  BY <1>2 DEF Add, Begins, Opened
<1>3. ASSUME NEW h \in Handles, NEW id \in Wraps, RemoveWrap(h, id)
      PROVE  Typed'
  BY <1>3 DEF RemoveWrap, MayRemove, Begins, Opened
<1>4. ASSUME NEW h \in Handles, NEW id \in Wraps, Open(h, id)
      PROVE  Typed'
  BY <1>4 DEF Open, Opens, Closed
<1>5. ASSUME NEW h \in Handles, NEW id \in Wraps, Verify(h, id)
      PROVE  Typed'
  BY <1>5 DEF Verify, Verifies, Opens, Opened
<1>6. ASSUME NEW h \in Handles, Rename(h)
      PROVE  Typed'
  BY <1>6 DEF Rename, Replace
<1>7. ASSUME NEW h \in Handles, RenameUnanswered(h)
      PROVE  Typed'
  BY <1>7 DEF RenameUnanswered, Replace
<1>8. ASSUME NEW h \in Handles, SaveFails(h)
      PROVE  Typed'
  BY <1>8 DEF SaveFails, LeftInMemory
<1>9. ASSUME NEW h \in Handles, Die(h)
      PROVE  Typed'
  BY <1>9 DEF Die, Closed
<1>10. CASE Flush
  BY <1>10 DEF Flush
<1>11. CASE PowerLoss
  BY <1>11 DEF PowerLoss
<1>12. CASE UNCHANGED vars
  BY <1>12 DEF vars
<1> QED
  BY <1>1, <1>2, <1>3, <1>4, <1>5, <1>6, <1>7, <1>8, <1>9, <1>10, <1>11,
     <1>12 DEF Next

(* What a call has done when it comes to its save. *)
LEMMA BeginsStep ==
  ASSUME Typed, NEW h \in Handles, NEW act, NEW ids, NEW file, Begins(h, act, ids, file)
  PROVE  /\ mem'[h] = file
         /\ op'[h].act = act /\ op'[h].at = "saving" /\ op'[h].ids = ids
         /\ op'[h].clean <=> mem[h] = base[h]
         /\ \A g \in Handles \ {h} : mem'[g] = mem[g] /\ op'[g] = op[g]
         /\ UNCHANGED <<disk, durable, base, told, limbo, mixed, replaced>>
  BY DEF Begins, Typed, TypeOK, files, history

(* Types, and what has been drawn, in every execution. *)
LEMMA AlwaysTyped == Spec => []Typed
<1>1. Init => Typed
  <2> SUFFICES ASSUME Init PROVE Typed
    OBVIOUS
  <2>1. /\ mem \in [Handles -> File \cup {NoFile}]
        /\ base \in [Handles -> File \cup {NoFile}]
        /\ op \in [Handles -> Op]
        /\ \A h \in Handles : mem[h] = NoFile /\ op[h] = NoOp
    BY NoOpType DEF Init
  <2>2. 0 \in 0..MaxFailures /\ 0 \in 0..MaxLosses
    BY BoundsAssumption
  <2>3. Drawn
    BY <2>1, NoOpType, NoFileType DEF Init, Drawn
  <2> QED
    BY <2>1, <2>2, <2>3 DEF Init, Typed, TypeOK
<1> QED
  BY <1>1, TypeStep, PTL DEF Spec

(* Every call, failure and loss of power keeps the types; in particular a  *)
(* handle has a whole keyring or none.                                     *)
THEOREM TypeCorrect == Spec => []TypeOK
<1>1. Typed => TypeOK
  BY DEF Typed
<1> QED
  BY <1>1, AlwaysTyped, PTL

(* One step per action of Next: a removal counts before it takes. *)
LEMMA WrapStep == Typed /\ NeverWithoutAWrap /\ [Next]_vars => NeverWithoutAWrap'
<1> SUFFICES ASSUME Typed, NeverWithoutAWrap, [Next]_vars PROVE NeverWithoutAWrap'
  OBVIOUS
<1> USE NamesAssumption, NoFileType
<1> USE DEF Typed, TypeOK, Drawn, File, NeverWithoutAWrap, Closed, files, history, bounds
<1>1. ASSUME NEW h \in Handles, NEW key \in Keys, NEW ids \in SUBSET Wraps,
             Create(h, key, ids)
      PROVE  NeverWithoutAWrap'
  <2>1. ids # {}
    BY <1>1, FS_EmptySet, 0 \notin {1, 2} DEF Create
  <2>2. Begins(h, "create", ids, [key |-> key, wraps |-> ids])
    BY <1>1 DEF Create
  <2> QED
    BY <2>1, <2>2, BeginsStep
<1>2. ASSUME NEW h \in Handles, NEW id \in Wraps, Add(h, id)
      PROVE  NeverWithoutAWrap'
  BY <1>2 DEF Add, Begins, Opened
<1>3. ASSUME NEW h \in Handles, NEW id \in Wraps, RemoveWrap(h, id)
      PROVE  NeverWithoutAWrap'
  <2>1. mem[h].wraps \ {id} # {}
    <3>1. mem[h].wraps # {id}
      BY <1>3, FS_Singleton DEF RemoveWrap, MayRemove
    <3> QED
      BY <1>3, <3>1 DEF RemoveWrap, MayRemove
  <2>2. Begins(h, "remove", {id}, [mem[h] EXCEPT !.wraps = @ \ {id}]) /\ mem[h] \in File
    BY <1>3 DEF RemoveWrap, Opened
  <2>3. mem'[h].wraps = mem[h].wraps \ {id}
    BY <2>2, BeginsStep
  <2> QED
    BY <2>1, <2>2, <2>3, BeginsStep
<1>4. ASSUME NEW h \in Handles, NEW id \in Wraps, Open(h, id)
      PROVE  NeverWithoutAWrap'
  BY <1>4 DEF Open, Opens, Closed
<1>5. ASSUME NEW h \in Handles, NEW id \in Wraps, Verify(h, id)
      PROVE  NeverWithoutAWrap'
  BY <1>5 DEF Verify, Verifies, Opens, Opened
<1>6. ASSUME NEW h \in Handles, Rename(h)
      PROVE  NeverWithoutAWrap'
  BY <1>6 DEF Rename, Replace
<1>7. ASSUME NEW h \in Handles, RenameUnanswered(h)
      PROVE  NeverWithoutAWrap'
  BY <1>7 DEF RenameUnanswered, Replace
<1>8. ASSUME NEW h \in Handles, SaveFails(h)
      PROVE  NeverWithoutAWrap'
  BY <1>8 DEF SaveFails, LeftInMemory
<1>9. ASSUME NEW h \in Handles, Die(h)
      PROVE  NeverWithoutAWrap'
  BY <1>9 DEF Die, Closed
<1>10. CASE Flush
  BY <1>10 DEF Flush
<1>11. CASE PowerLoss
  BY <1>11 DEF PowerLoss
<1>12. CASE UNCHANGED vars
  BY <1>12 DEF vars
<1> QED
  BY <1>1, <1>2, <1>3, <1>4, <1>5, <1>6, <1>7, <1>8, <1>9, <1>10, <1>11,
     <1>12 DEF Next

(* Whatever is removed and whichever saves fail, something opens the file  *)
(* and every keyring in memory.                                            *)
THEOREM AlwaysAWrap == Spec => []NeverWithoutAWrap
<1>1. Init => NeverWithoutAWrap
  BY DEF Init, NeverWithoutAWrap, Closed
<1> QED
  BY <1>1, AlwaysTyped, WrapStep, PTL DEF Spec

(* One step per action of Next. *)
LEMMA KeyStep == Typed /\ EveryHandleHasTheKey /\ [Next]_vars => EveryHandleHasTheKey'
<1> SUFFICES ASSUME Typed, EveryHandleHasTheKey, [Next]_vars PROVE EveryHandleHasTheKey'
  OBVIOUS
<1> USE NamesAssumption, NoFileType, NoOpType
<1> USE DEF Typed, TypeOK, Drawn, File, EveryHandleHasTheKey, Closed, files, history,
            bounds
<1>1. ASSUME NEW h \in Handles, NEW key \in Keys, NEW ids \in SUBSET Wraps,
             Create(h, key, ids)
      PROVE  EveryHandleHasTheKey'
  BY <1>1 DEF Create, Begins, Closed
<1>2. ASSUME NEW h \in Handles, NEW id \in Wraps, Add(h, id)
      PROVE  EveryHandleHasTheKey'
  <2>1. Begins(h, "add", {id}, [mem[h] EXCEPT !.wraps = @ \cup {id}])
    BY <1>2 DEF Add
  <2>2. mem[h] \in File /\ op[h].at = "idle"
    BY <1>2 DEF Add, Opened
  <2>3. mem'[h].key = mem[h].key /\ mem'[h] # NoFile
    BY <2>1, <2>2, BeginsStep
  <2> QED
    BY <2>1, <2>2, <2>3, BeginsStep
<1>3. ASSUME NEW h \in Handles, NEW id \in Wraps, RemoveWrap(h, id)
      PROVE  EveryHandleHasTheKey'
  <2>1. Begins(h, "remove", {id}, [mem[h] EXCEPT !.wraps = @ \ {id}])
    BY <1>3 DEF RemoveWrap
  <2>2. mem[h] \in File /\ op[h].at = "idle"
    BY <1>3 DEF RemoveWrap, Opened
  <2>3. mem'[h].key = mem[h].key /\ mem'[h] # NoFile
    BY <2>1, <2>2, BeginsStep
  <2> QED
    BY <2>1, <2>2, <2>3, BeginsStep
<1>4. ASSUME NEW h \in Handles, NEW id \in Wraps, Open(h, id)
      PROVE  EveryHandleHasTheKey'
  BY <1>4 DEF Open, Opens, Closed
<1>5. ASSUME NEW h \in Handles, NEW id \in Wraps, Verify(h, id)
      PROVE  EveryHandleHasTheKey'
  BY <1>5 DEF Verify, Verifies, Opens, Opened
<1>6. ASSUME NEW h \in Handles, Rename(h)
      PROVE  EveryHandleHasTheKey'
  BY <1>6 DEF Rename, Replace
<1>7. ASSUME NEW h \in Handles, RenameUnanswered(h)
      PROVE  EveryHandleHasTheKey'
  BY <1>7 DEF RenameUnanswered, Replace
<1>8. ASSUME NEW h \in Handles, SaveFails(h)
      PROVE  EveryHandleHasTheKey'
  BY <1>8 DEF SaveFails, LeftInMemory
<1>9. ASSUME NEW h \in Handles, Die(h)
      PROVE  EveryHandleHasTheKey'
  BY <1>9 DEF Die, Closed
<1>10. CASE Flush
  BY <1>10 DEF Flush
<1>11. CASE PowerLoss
  BY <1>11 DEF PowerLoss
<1>12. CASE UNCHANGED vars
  BY <1>12 DEF vars
<1> QED
  BY <1>1, <1>2, <1>3, <1>4, <1>5, <1>6, <1>7, <1>8, <1>9, <1>10, <1>11,
     <1>12 DEF Next

(* The keyring a process works with has the key of the file, unless a      *)
(* Create has replaced a keyring.                                          *)
THEOREM OneKey == Spec => []EveryHandleHasTheKey
<1>1. Init => EveryHandleHasTheKey
  BY DEF Init, EveryHandleHasTheKey, Closed
<1> QED
  BY <1>1, AlwaysTyped, KeyStep, PTL DEF Spec

(* What a handle is about to save, if the call began with what the handle  *)
(* had last read or written.                                               *)
Changed(act, wraps, ids) ==
  CASE act = "create" -> ids
    [] act = "add" -> wraps \cup ids
    [] OTHER -> wraps \ ids

CleanSaves ==
  \A h \in Handles :
    op[h].at = "saving" /\ op[h].clean =>
      /\ op[h].act \in {"create", "add", "remove"}
      /\ op[h].act = "create" => base[h] = NoFile
      /\ op[h].act # "create" => base[h] # NoFile /\ mem[h].key = base[h].key
      /\ mem[h].wraps = Changed(op[h].act, base[h].wraps, op[h].ids)

ToldInv == CleanSaves /\ TheFileIsWhatWasTold

(* A call that begins on a clean handle leaves memory one change ahead. *)
LEMMA CleanBegins ==
  ASSUME Typed, CleanSaves, NEW h \in Handles, NEW act \in {"add", "remove"}, NEW ids,
         NEW file, Begins(h, act, ids, file), mem[h] # NoFile,
         file.key = mem[h].key, file.wraps = Changed(act, mem[h].wraps, ids)
  PROVE  CleanSaves'
<1> SUFFICES ASSUME NEW s \in Handles, op'[s].at = "saving", op'[s].clean
             PROVE  /\ op'[s].act \in {"create", "add", "remove"}
                    /\ op'[s].act = "create" => base'[s] = NoFile
                    /\ op'[s].act # "create" => /\ base'[s] # NoFile
                                               /\ mem'[s].key = base'[s].key
                    /\ mem'[s].wraps = Changed(op'[s].act, base'[s].wraps, op'[s].ids)
  BY DEF CleanSaves
<1>1. CASE s = h
  BY <1>1, BeginsStep
<1>2. CASE s # h
  BY <1>2, BeginsStep DEF CleanSaves
<1> QED
  BY <1>1, <1>2

(* One step per action of Next. *)
LEMMA ToldStep == Typed /\ ToldInv /\ [Next]_vars => ToldInv'
<1> SUFFICES ASSUME Typed, ToldInv, [Next]_vars PROVE ToldInv'
  OBVIOUS
<1> USE NamesAssumption, NoFileType, NoOpType
<1> USE DEF Typed, TypeOK, Drawn, File, ToldInv, CleanSaves, TheFileIsWhatWasTold,
            Changed, files, history, bounds
<1>1. ASSUME NEW h \in Handles, NEW key \in Keys, NEW ids \in SUBSET Wraps,
             Create(h, key, ids)
      PROVE  ToldInv'
  BY <1>1 DEF Create, Begins, Closed
<1>2. ASSUME NEW h \in Handles, NEW id \in Wraps, Add(h, id)
      PROVE  ToldInv'
  <2>1. Begins(h, "add", {id}, [mem[h] EXCEPT !.wraps = @ \cup {id}])
    BY <1>2 DEF Add
  <2>2. mem[h] \in File
    BY <1>2 DEF Add, Opened
  <2>3. mem'[h].wraps = mem[h].wraps \cup {id}
    BY <2>1, <2>2, BeginsStep
  <2>4. CleanSaves'
    <3>1. Changed("add", mem[h].wraps, {id}) = mem[h].wraps \cup {id}
      BY DEF Changed
    <3> QED
      BY <2>1, <2>2, <3>1, CleanBegins
  <2> QED
    BY <2>1, <2>4, BeginsStep
<1>3. ASSUME NEW h \in Handles, NEW id \in Wraps, RemoveWrap(h, id)
      PROVE  ToldInv'
  <2>1. Begins(h, "remove", {id}, [mem[h] EXCEPT !.wraps = @ \ {id}])
    BY <1>3 DEF RemoveWrap
  <2>2. mem[h] \in File
    BY <1>3 DEF RemoveWrap, Opened
  <2>3. mem'[h].wraps = mem[h].wraps \ {id}
    BY <2>1, <2>2, BeginsStep
  <2>4. CleanSaves'
    <3>1. Changed("remove", mem[h].wraps, {id}) = mem[h].wraps \ {id}
      BY DEF Changed
    <3> QED
      BY <2>1, <2>2, <3>1, CleanBegins
  <2> QED
    BY <2>1, <2>4, BeginsStep
<1>4. ASSUME NEW h \in Handles, NEW id \in Wraps, Open(h, id)
      PROVE  ToldInv'
  BY <1>4 DEF Open, Opens, Closed
<1>5. ASSUME NEW h \in Handles, NEW id \in Wraps, Verify(h, id)
      PROVE  ToldInv'
  BY <1>5 DEF Verify, Verifies, Opens, Opened
<1>6. ASSUME NEW h \in Handles, Rename(h)
      PROVE  ToldInv'
  <2> DEFINE ids == op[h].ids
  <2>1. /\ disk' = mem[h] /\ op' = [op EXCEPT ![h] = NoOp] /\ op[h].at = "saving"
        /\ told' = IF op[h].act = "remove" THEN told \ ids ELSE told \cup ids
        /\ limbo' = limbo \ ids
        /\ mixed' = (mixed \/ ~op[h].clean \/ base[h] # disk)
    BY <1>6 DEF Rename, Replace
  <2>2. CleanSaves'
    BY <1>6 DEF Rename, Replace
  <2>3. ASSUME ~mixed' PROVE /\ told' \ limbo' \subseteq disk'.wraps
                             /\ disk'.wraps \subseteq told' \cup limbo'
    <3>1. ~mixed /\ op[h].clean /\ base[h] = disk
      BY <2>1, <2>3
    <3>2. /\ told \ limbo \subseteq disk.wraps /\ disk.wraps \subseteq told \cup limbo
          /\ op[h].act \in {"create", "add", "remove"}
          /\ disk'.wraps = Changed(op[h].act, disk.wraps, ids)
          /\ op[h].act = "create" => disk.wraps = {}
      BY <2>1, <3>1
    <3> QED
      BY <2>1, <3>2
  <2> QED
    BY <2>2, <2>3
<1>7. ASSUME NEW h \in Handles, RenameUnanswered(h)
      PROVE  ToldInv'
  <2> DEFINE ids == op[h].ids
  <2>1. /\ disk' = mem[h] /\ op' = [op EXCEPT ![h] = NoOp] /\ op[h].at = "saving"
        /\ told' = told /\ limbo' = limbo \cup ids
        /\ mixed' = (mixed \/ ~op[h].clean \/ base[h] # disk)
    BY <1>7 DEF RenameUnanswered, Replace
  <2>2. CleanSaves'
    BY <1>7 DEF RenameUnanswered, Replace
  <2>3. ASSUME ~mixed' PROVE /\ told' \ limbo' \subseteq disk'.wraps
                             /\ disk'.wraps \subseteq told' \cup limbo'
    <3>1. ~mixed /\ op[h].clean /\ base[h] = disk
      BY <2>1, <2>3
    <3>2. /\ told \ limbo \subseteq disk.wraps /\ disk.wraps \subseteq told \cup limbo
          /\ op[h].act \in {"create", "add", "remove"}
          /\ disk'.wraps = Changed(op[h].act, disk.wraps, ids)
          /\ op[h].act = "create" => disk.wraps = {}
      BY <2>1, <3>1
    <3> QED
      BY <2>1, <3>2
  <2> QED
    BY <2>2, <2>3
<1>8. ASSUME NEW h \in Handles, SaveFails(h)
      PROVE  ToldInv'
  BY <1>8 DEF SaveFails, LeftInMemory
<1>9. ASSUME NEW h \in Handles, Die(h)
      PROVE  ToldInv'
  BY <1>9 DEF Die, Closed
<1>10. CASE Flush
  BY <1>10 DEF Flush
<1>11. CASE PowerLoss
  BY <1>11 DEF PowerLoss
<1>12. CASE UNCHANGED vars
  BY <1>12 DEF vars
<1> QED
  BY <1>1, <1>2, <1>3, <1>4, <1>5, <1>6, <1>7, <1>8, <1>9, <1>10, <1>11,
     <1>12 DEF Next

(* Clean saves, and a file that is what was told, in every execution. *)
LEMMA AlwaysTold == Spec => []ToldInv
<1>1. Init => ToldInv
  <2> SUFFICES ASSUME Init PROVE ToldInv
    OBVIOUS
  <2>1. \A h \in Handles : op[h].at = "idle"
    BY NoOpType DEF Init
  <2> QED
    BY <2>1, NoFileType DEF Init, ToldInv, CleanSaves, TheFileIsWhatWasTold
<1> QED
  BY <1>1, AlwaysTyped, ToldStep, PTL DEF Spec

(* The file is what callers have been told, as long as every save starts   *)
(* from the file it replaces.                                              *)
THEOREM ToldTheTruth == Spec => []TheFileIsWhatWasTold
<1>1. ToldInv => TheFileIsWhatWasTold
  BY DEF ToldInv
<1> QED
  BY <1>1, AlwaysTold, PTL

(***************************************************************************)
(* The keyring implements SharedKey until the first save that does not     *)
(* start from the file it replaces.                                        *)
(***************************************************************************)
Calls == [h \in Handles |->
            IF op[h].at = "saving" THEN [act |-> op[h].act, ids |-> op[h].ids]
                                   ELSE [act |-> "none", ids |-> {}]]

Shared == INSTANCE SharedKey
            WITH Callers <- Handles, file <- disk, kept <- durable, call <- Calls,
                 seen <- drawn

(* Whatever calls, failures, deaths and losses of power there are, the     *)
(* file changes by one whole call at a time, its key stays, and something  *)
(* always opens it.                                                        *)
EverySaveIsOneChange == [][~mixed' => [Shared!Next]_(Shared!vars)]_vars

(* What a call is once memory is changed. *)
LEMMA AskStep ==
  ASSUME Typed, NEW h \in Handles, NEW act \in {"create", "add", "remove"},
         NEW ids \in SUBSET Wraps, NEW file, Begins(h, act, ids, file), op[h].at = "idle",
         ids # {}, act # "remove" => ids \cap drawn = {}
  PROVE  Shared!Ask(h)
<1> DEFINE q == [act |-> act, ids |-> ids]
<1>1. Calls' = [Calls EXCEPT ![h] = q]
  <2>1. op'[h].at = "saving" /\ op'[h].act = act /\ op'[h].ids = ids
    BY BeginsStep
  <2>2. \A g \in Handles \ {h} : op'[g] = op[g]
    BY BeginsStep
  <2> QED
    BY <2>1, <2>2 DEF Calls
<1>2. Calls'[h] = q /\ q \in Shared!Call /\ q.ids = ids /\ q.act = act
  BY <1>1 DEF Calls, Shared!Call
<1>3. Calls[h] = Shared!NoCall
  BY DEF Calls, Shared!NoCall
<1>4. drawn' = drawn \cup ids /\ UNCHANGED <<disk, durable>>
  BY DEF Begins, files
<1> QED
  BY <1>1, <1>2, <1>3, <1>4 DEF Shared!Ask

(* A call that ends is nobody's call any more, whatever its handle is now. *)
LEMMA EndsStep ==
  ASSUME Typed, NEW h \in Handles, op' = [op EXCEPT ![h] = NoOp]
  PROVE  Calls' = [Calls EXCEPT ![h] = Shared!NoCall]
  BY NoOpType DEF Calls, Shared!NoCall, Typed, TypeOK

(* A clean save founds the key, or adds what was asked for, or takes it    *)
(* away, and leaves something that opens the file.                         *)
LEMMA ReplaceStep ==
  ASSUME Typed, CleanSaves, NeverWithoutAWrap, NEW h \in Handles, Replace(h), ~mixed'
  PROVE  Shared!Found(h) \/ Shared!Grant(h) \/ Shared!Withdraw(h)
<1> USE NamesAssumption, NoFileType
<1>1. /\ op[h].at = "saving" /\ op[h].clean /\ base[h] = disk /\ disk' = mem[h]
      /\ op' = [op EXCEPT ![h] = NoOp] /\ UNCHANGED <<durable, drawn>>
  BY DEF Replace, bounds
<1>2. mem[h] \in File /\ disk \in File \cup {NoFile} /\ mem[h].wraps # {}
  BY <1>1 DEF Typed, TypeOK, Drawn, NeverWithoutAWrap, Closed
<1>3. /\ op[h].act \in {"create", "add", "remove"}
      /\ op[h].act = "create" => disk = NoFile
      /\ op[h].act # "create" => disk # NoFile /\ mem[h].key = disk.key
      /\ mem[h].wraps = Changed(op[h].act, disk.wraps, op[h].ids)
  BY <1>1 DEF CleanSaves
<1>4. mem[h] = [key |-> mem[h].key, wraps |-> mem[h].wraps] /\ mem[h].key \in Keys
  BY <1>2 DEF File
<1>5. Calls[h].act = op[h].act /\ Calls[h].ids = op[h].ids
  BY <1>1 DEF Calls
<1>6. Shared!Answers(h, op[h].act)
  BY <1>1, <1>5, EndsStep DEF Shared!Answers
<1>7. Shared!NoFile = NoFile
  BY DEF Shared!NoFile, NoFile
<1>8. CASE op[h].act = "create"
  <2>1. disk' = [key |-> mem[h].key, wraps |-> Calls[h].ids]
    BY <1>1, <1>3, <1>4, <1>5, <1>8 DEF Changed
  <2> QED
    BY <1>3, <1>4, <1>6, <1>7, <1>8, <2>1 DEF Shared!Found
<1>9. CASE op[h].act = "add"
  <2>1. disk' = [key |-> disk.key, wraps |-> disk.wraps \cup Calls[h].ids]
    BY <1>1, <1>3, <1>4, <1>5, <1>9 DEF Changed
  <2> QED
    BY <1>3, <1>6, <1>7, <1>9, <2>1 DEF Shared!Grant
<1>10. CASE op[h].act = "remove"
  <2>1. mem[h].wraps = disk.wraps \ Calls[h].ids
    BY <1>3, <1>5, <1>10 DEF Changed
  <2>2. disk' = [key |-> disk.key, wraps |-> disk.wraps \ Calls[h].ids]
    BY <1>1, <1>3, <1>4, <1>10, <2>1
  <2> QED
    BY <1>2, <1>3, <1>6, <1>7, <1>10, <2>1, <2>2 DEF Shared!Withdraw
<1> QED
  BY <1>3, <1>8, <1>9, <1>10

(* A call that is cut short has done nothing, nor has the end of a process *)
(* that serves no call.                                                    *)
LEMMA FailStep ==
  ASSUME Typed, NEW h \in Handles, op' = [op EXCEPT ![h] = NoOp],
         UNCHANGED <<disk, durable, drawn>>
  PROVE  Shared!Fail(h) \/ UNCHANGED Shared!vars
<1>1. CASE op[h].at = "saving"
  <2>1. Calls[h].act = op[h].act /\ op[h].act # "none"
    BY <1>1 DEF Calls, Typed, Drawn
  <2>2. Calls[h] # Shared!NoCall
    BY <2>1 DEF Shared!NoCall
  <2>3. Calls' = [Calls EXCEPT ![h] = Shared!NoCall]
    BY EndsStep
  <2> QED
    BY <2>2, <2>3 DEF Shared!Fail
<1>2. CASE op[h].at = "idle"
  <2>1. Calls[h] = Shared!NoCall
    BY <1>2 DEF Calls, Shared!NoCall
  <2>2. Calls' = [Calls EXCEPT ![h] = Shared!NoCall]
    BY EndsStep
  <2>3. Calls = [g \in Handles |-> Calls[g]]
    BY DEF Calls
  <2>4. Calls' = Calls
    BY <2>1, <2>2, <2>3
  <2> QED
    BY <2>4 DEF Shared!vars
<1> QED
  BY <1>1, <1>2 DEF Typed, TypeOK, Op

(* One step per action of Next: what it is for those who share the key. *)
LEMMA ChangeStep ==
  Typed /\ ToldInv /\ NeverWithoutAWrap /\ [Next]_vars /\ ~mixed'
    => [Shared!Next]_(Shared!vars)
<1> SUFFICES ASSUME Typed, CleanSaves, NeverWithoutAWrap, [Next]_vars, ~mixed'
             PROVE  [Shared!Next]_(Shared!vars)
  BY DEF ToldInv
<1>a. ASSUME UNCHANGED <<disk, durable, op, drawn>> PROVE UNCHANGED Shared!vars
  BY <1>a DEF Shared!vars, Calls
<1>1. ASSUME NEW h \in Handles, NEW key \in Keys, NEW ids \in SUBSET Wraps,
             Create(h, key, ids)
      PROVE  Shared!Ask(h)
  <2>1. ids # {}
    BY <1>1, FS_EmptySet, 0 \notin {1, 2} DEF Create
  <2>2. op[h].at = "idle"
    BY <1>1 DEF Create, Closed, Typed, TypeOK, Drawn, Op
  <2> QED
    BY <1>1, <2>1, <2>2, AskStep DEF Create
<1>2. ASSUME NEW h \in Handles, NEW id \in Wraps, Add(h, id) PROVE Shared!Ask(h)
  BY <1>2, AskStep DEF Add, Opened
<1>3. ASSUME NEW h \in Handles, NEW id \in Wraps, RemoveWrap(h, id) PROVE Shared!Ask(h)
  BY <1>3, AskStep DEF RemoveWrap, Opened
<1>4. ASSUME NEW h \in Handles, NEW id \in Wraps, Open(h, id) PROVE UNCHANGED Shared!vars
  BY <1>4, <1>a DEF Open, files, bounds
<1>5. ASSUME NEW h \in Handles, NEW id \in Wraps, Verify(h, id)
      PROVE  UNCHANGED Shared!vars
  BY <1>5, <1>a DEF Verify, files, bounds
<1>6. ASSUME NEW h \in Handles, Rename(h) \/ RenameUnanswered(h)
      PROVE  Shared!Found(h) \/ Shared!Grant(h) \/ Shared!Withdraw(h)
  BY <1>6, ReplaceStep DEF Rename, RenameUnanswered
<1>7. ASSUME NEW h \in Handles, SaveFails(h) \/ Die(h)
      PROVE  Shared!Fail(h) \/ UNCHANGED Shared!vars
  BY <1>7, FailStep DEF SaveFails, Die, files, bounds
<1>8. CASE Flush
  <2>1. Calls' = Calls
    BY <1>8 DEF Flush, Calls
  <2> QED
    BY <1>8, <2>1 DEF Flush, bounds, Shared!Keep, Shared!Next
<1>9. CASE PowerLoss
  <2>1. Calls' = [h \in Handles |-> Shared!NoCall]
    BY <1>9, NoOpType DEF PowerLoss, Calls, Shared!NoCall
  <2> QED
    BY <1>9, <2>1 DEF PowerLoss, Shared!Lose, Shared!Next
<1>10. CASE UNCHANGED vars
  BY <1>10, <1>a DEF vars
<1> QED
  BY <1>1, <1>2, <1>3, <1>4, <1>5, <1>6, <1>7, <1>8, <1>9, <1>10 DEF Next, Shared!Next

(* The keyring is the shared key of SharedKey, until the first save that   *)
(* does not start from the file it replaces.                               *)
THEOREM OneChangeAtATime == Spec => Shared!Init /\ EverySaveIsOneChange
<1>1. Init => Shared!Init
  BY NoOpType DEF Init, Calls, Shared!Init, Shared!NoFile, Shared!NoCall, NoFile
<1>2. (Typed /\ ToldInv /\ NeverWithoutAWrap /\ [Next]_vars)
        => [~mixed' => [Shared!Next]_(Shared!vars)]_vars
  BY ChangeStep
<1> QED
  BY <1>1, <1>2, AlwaysTyped, AlwaysTold, AlwaysAWrap, PTL
     DEF Spec, EverySaveIsOneChange
=================================================================================
