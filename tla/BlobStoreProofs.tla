---------------------------- MODULE BlobStoreProofs -----------------------------
(***************************************************************************)
(* Proofs about BlobStore, for any contents, any number of uploads and any *)
(* number of crashes and losses of power.                                  *)
(***************************************************************************)
EXTENDS BlobStore, TLAPS

(* What the properties rest on: an upload has synced its file before it    *)
(* looks for the content, so no file that is renamed has bytes to lose; a  *)
(* temporary file belongs to an upload before its rename; and whatever is  *)
(* at its path, or may be there after a loss of power, was stored once.    *)
SyncedBeforeRename ==
  \A u \in Uploads : put[u].at \in {"checking", "renaming"} => put[u].synced

OnceStored == \A d \in Contents : There(d) \/ durable[d] # "none" => d \in ever

IInv ==
  /\ unsynced = {} /\ torn = {}
  /\ SyncedBeforeRename
  /\ OnceStored
  /\ TempsHaveUploads
  /\ WritableIsExplained

(* An idle slot is a value of its type. *)
LEMMA NoPutType ==
  NoPut \in [at: Stage, of: Contents \cup {None}, synced: BOOLEAN] /\ NoPut.at = "idle"
  BY DEF NoPut, Stage

(* One step per action of Next. *)
LEMMA TypeStep == TypeOK /\ [Next]_vars => TypeOK'
<1> SUFFICES ASSUME TypeOK, [Next]_vars PROVE TypeOK'
  OBVIOUS
<1> USE NamesAssumption, BoundsAssumption
<1> USE DEF TypeOK, NoPut, Stage, Entry, directory, faults, There
<1>1. ASSUME NEW u \in Uploads, NEW d \in Contents, CreateTemp(u, d) PROVE TypeOK'
  BY <1>1 DEF CreateTemp
<1>2. ASSUME NEW u \in Uploads, Copy(u) PROVE TypeOK'
  BY <1>2 DEF Copy, Goes
<1>3. ASSUME NEW u \in Uploads, Sync(u) PROVE TypeOK'
  BY <1>3 DEF Sync, SyncedBySync
<1>4. ASSUME NEW u \in Uploads, GiveUp(u) PROVE TypeOK'
  BY <1>4 DEF GiveUp, Ends, Goes, RemoveTemp
<1>5. ASSUME NEW u \in Uploads, Check(u) PROVE TypeOK'
  BY <1>5 DEF Check, Ends, Goes, RemoveTemp
<1>6. ASSUME NEW u \in Uploads, Rename(u) PROVE TypeOK'
  BY <1>6 DEF Rename, Goes, AfterRename
<1>7. ASSUME NEW u \in Uploads, RenameFails(u) PROVE TypeOK'
  BY <1>7 DEF RenameFails, Ends, Goes, RemoveTemp, WonByOther
<1>8. ASSUME NEW u \in Uploads, Chmod(u) PROVE TypeOK'
  BY <1>8 DEF Chmod, Goes
<1>9. ASSUME NEW u \in Uploads, ChmodFails(u) PROVE TypeOK'
  BY <1>9 DEF ChmodFails, Goes
<1>10. ASSUME NEW u \in Uploads, Answer(u) PROVE TypeOK'
  BY <1>10 DEF Answer
<1>11. ASSUME NEW d \in Contents, Delete(d) PROVE TypeOK'
  BY <1>11 DEF Delete
<1>12. ASSUME NEW d \in Contents, Flush(d) PROVE TypeOK'
  BY <1>12 DEF Flush
<1>13. CASE Crash
  <2>1. /\ crashes' \in 0..MaxCrashes
        /\ UNCHANGED <<blob, unsynced, torn, losses, durable, ever>>
        /\ up' = FALSE /\ temps' = {}
        /\ litter' = (litter \/ temps # {})
        /\ cut' \subseteq Contents
    BY <1>13 DEF Crash, ProcessEnds
  <2>2. put' = [u \in Uploads |-> NoPut]
    BY <1>13 DEF Crash, ProcessEnds
  <2> QED
    BY <2>1, <2>2, NoPutType
<1>14. CASE PowerLoss
  <2>1. /\ losses' \in 0..MaxLosses
        /\ blob' = durable /\ unsynced' = {} /\ torn' \subseteq Contents
        /\ UNCHANGED <<crashes, durable, ever>>
        /\ up' = FALSE /\ temps' = {}
        /\ litter' = (litter \/ temps # {})
        /\ cut' \subseteq Contents
    BY <1>14 DEF PowerLoss, ProcessEnds
  <2>2. put' = [u \in Uploads |-> NoPut]
    BY <1>14 DEF PowerLoss, ProcessEnds
  <2> QED
    BY <2>1, <2>2, NoPutType
<1>15. CASE Start
  BY <1>15 DEF Start
<1>16. CASE UNCHANGED vars
  BY <1>16 DEF vars
<1> QED
  BY <1>1, <1>2, <1>3, <1>4, <1>5, <1>6, <1>7, <1>8, <1>9, <1>10, <1>11,
     <1>12, <1>13, <1>14, <1>15, <1>16 DEF Next

(* Every step of an upload, of Delete, of the system and of a process that *)
(* dies keeps the types; in particular an upload that is under way keeps   *)
(* its content.                                                            *)
THEOREM TypeCorrect == Spec => []TypeOK
<1>1. Init => TypeOK
  <2> SUFFICES ASSUME Init PROVE TypeOK
    OBVIOUS
  <2>1. /\ put = [u \in Uploads |-> NoPut]
        /\ \A u \in Uploads : put[u] = NoPut
    BY DEF Init
  <2>2. put \in [Uploads -> [at: Stage, of: Contents \cup {None}, synced: BOOLEAN]]
    BY <2>1, NoPutType
  <2>3. \A u \in Uploads : put[u].at = "idle"
    BY <2>1, NoPutType
  <2>4. crashes \in 0..MaxCrashes /\ losses \in 0..MaxLosses
    BY BoundsAssumption DEF Init
  <2>5. /\ blob \in [Contents -> Entry] /\ durable \in [Contents -> Entry]
        /\ unsynced \subseteq Contents /\ torn \subseteq Contents
        /\ temps \subseteq Uploads /\ litter \in BOOLEAN /\ up \in BOOLEAN
        /\ ever \subseteq Contents /\ cut \subseteq Contents
    BY DEF Init, Entry
  <2> QED
    BY <2>2, <2>3, <2>4, <2>5 DEF TypeOK
<1> QED
  BY <1>1, TypeStep, PTL DEF Spec

(* One step per action of Next. *)
LEMMA InductiveStep == TypeOK /\ IInv /\ [Next]_vars => IInv'
<1> SUFFICES ASSUME TypeOK, IInv, [Next]_vars PROVE IInv'
  OBVIOUS
<1> USE NamesAssumption
<1> USE DEF TypeOK, IInv, SyncedBeforeRename, OnceStored, TempsHaveUploads,
            WritableIsExplained, NoPut, Stage, Entry, directory, There
<1>1. ASSUME NEW u \in Uploads, NEW d \in Contents, CreateTemp(u, d) PROVE IInv'
  BY <1>1 DEF CreateTemp
<1>2. ASSUME NEW u \in Uploads, Copy(u) PROVE IInv'
  BY <1>2 DEF Copy, Goes
<1>3. ASSUME NEW u \in Uploads, Sync(u) PROVE IInv'
  BY <1>3 DEF Sync, SyncedBySync
<1>4. ASSUME NEW u \in Uploads, GiveUp(u) PROVE IInv'
  BY <1>4 DEF GiveUp, Ends, Goes, RemoveTemp
<1>5. ASSUME NEW u \in Uploads, Check(u) PROVE IInv'
  BY <1>5 DEF Check, Ends, Goes, RemoveTemp
<1>6. ASSUME NEW u \in Uploads, Rename(u) PROVE IInv'
  BY <1>6 DEF Rename, Goes, AfterRename
<1>7. ASSUME NEW u \in Uploads, RenameFails(u) PROVE IInv'
  BY <1>7 DEF RenameFails, Ends, Goes, RemoveTemp, WonByOther
<1>8. ASSUME NEW u \in Uploads, Chmod(u) PROVE IInv'
  BY <1>8 DEF Chmod, Goes
<1>9. ASSUME NEW u \in Uploads, ChmodFails(u) PROVE IInv'
  BY <1>9 DEF ChmodFails, Goes
<1>10. ASSUME NEW u \in Uploads, Answer(u) PROVE IInv'
  BY <1>10 DEF Answer
<1>11. ASSUME NEW d \in Contents, Delete(d) PROVE IInv'
  BY <1>11 DEF Delete
<1>12. ASSUME NEW d \in Contents, Flush(d) PROVE IInv'
  BY <1>12 DEF Flush
<1>13. CASE Crash
  BY <1>13 DEF Crash, ProcessEnds
<1>14. CASE PowerLoss
  BY <1>14 DEF PowerLoss, ProcessEnds
<1>15. CASE Start
  BY <1>15 DEF Start
<1>16. CASE UNCHANGED vars
  BY <1>16 DEF vars
<1> QED
  BY <1>1, <1>2, <1>3, <1>4, <1>5, <1>6, <1>7, <1>8, <1>9, <1>10, <1>11,
     <1>12, <1>13, <1>14, <1>15, <1>16 DEF Next

(* The strengthening holds in every execution. *)
LEMMA Inductive == Spec => [](TypeOK /\ IInv)
<1>1. Init => IInv
  BY DEF Init, IInv, SyncedBeforeRename, OnceStored, TempsHaveUploads,
         WritableIsExplained, NoPut, There
<1> QED
  BY <1>1, TypeCorrect, InductiveStep, PTL DEF Spec

(* A file at its path is whole, through crashes and losses of power: there *)
(* never is a visible file with bytes that were not synced.                *)
THEOREM WholeBlobs == Spec => []VisibleIsWhole
<1>1. IInv => VisibleIsWhole
  BY DEF IInv, VisibleIsWhole
<1> QED
  BY <1>1, Inductive, PTL

(* The deferred removal in Put leaves no temporary file of a finished      *)
(* upload, whichever way it has finished.                                  *)
THEOREM NoTempsLeft == Spec => []TempsHaveUploads
<1>1. IInv => TempsHaveUploads
  BY DEF IInv
<1> QED
  BY <1>1, Inductive, PTL

(* A blob is writable only between a rename and its chmod, or because the  *)
(* chmod failed or the process ended between the two.                      *)
THEOREM WritableBlobs == Spec => []WritableIsExplained
<1>1. IInv => WritableIsExplained
  BY DEF IInv
<1> QED
  BY <1>1, Inductive, PTL

(***************************************************************************)
(* The refinement.  A rename is the step that stores a content; what an    *)
(* upload does before it, the flushing of directories and the start of a   *)
(* process are stutters.                                                   *)
(***************************************************************************)
LEMMA RefinesInit == Init => Promised!Init
<1> SUFFICES ASSUME Init PROVE Promised!Init
  OBVIOUS
<1>1. \A u \in Uploads : put[u].at = "idle" /\ put[u].of = None
  BY DEF Init, NoPut
<1>2. Stored = {} /\ ever = {}
  BY DEF Init, Stored, There
<1>3. Calls = [u \in Uploads |-> Promised!NoCall]
  BY <1>1 DEF Calls, Outward, Promised!NoCall
<1> QED
  BY <1>2, <1>3 DEF Promised!Init

(* How an upload that goes from one stage to another appears to its caller. *)
LEMMA Appears ==
  ASSUME TypeOK, TypeOK', NEW u \in Uploads, put[u].at # "idle",
         put'[u].at # "idle", put'[u].of = put[u].of,
         \A v \in Uploads \ {u} : put'[v] = put[v]
  PROVE  /\ Calls[u] = [at |-> Outward(put[u].at), of |-> {put[u].of}]
         /\ Calls' = [Calls EXCEPT ![u].at = Outward(put'[u].at)]
         /\ Outward(put'[u].at) = Outward(put[u].at) => Calls' = Calls
<1>1. {put[u].of} \ {None} = {put[u].of} /\ {put'[u].of} \ {None} = {put[u].of}
  BY NamesAssumption DEF TypeOK, Stage
<1>2. Calls[u] = [at |-> Outward(put[u].at), of |-> {put[u].of}]
  BY <1>1 DEF Calls
<1>3. Calls'[u] = [at |-> Outward(put'[u].at), of |-> {put[u].of}]
  BY <1>1 DEF Calls
<1>4. \A v \in Uploads \ {u} : Calls'[v] = Calls[v]
  BY DEF Calls
<1>5. Calls = [v \in Uploads |-> Calls[v]] /\ Calls' = [v \in Uploads |-> Calls'[v]]
  BY DEF Calls
<1> QED
  BY <1>2, <1>3, <1>4, <1>5

(* Every step is one of the abstract store, or a stutter of it. *)
LEMMA RefinesStep ==
  TypeOK /\ TypeOK' /\ IInv /\ [Next]_vars => [Promised!Next]_(Promised!vars)
<1> SUFFICES ASSUME TypeOK, TypeOK', IInv, [Next]_vars
             PROVE  [Promised!Next]_(Promised!vars)
  OBVIOUS
<1>1. ASSUME NEW u \in Uploads, NEW d \in Contents, CreateTemp(u, d)
      PROVE  Promised!Begin(u, d)
  <2>1. put' = [put EXCEPT ![u] = [NoPut EXCEPT !.at = "copying", !.of = d]]
    BY <1>1 DEF CreateTemp
  <2>2. put[u] = NoPut /\ Stored' = Stored /\ ever' = ever
    BY <1>1 DEF CreateTemp, directory, Stored, There
  <2>3. Calls[u] = Promised!NoCall
    BY <2>2 DEF Calls, NoPut, Outward, Promised!NoCall
  <2>4. put'[u].at = "copying" /\ put'[u].of = d
    BY <2>1 DEF NoPut, TypeOK
  <2>5. Calls'[u] = [at |-> "pending", of |-> {d}]
    BY <2>4, NamesAssumption DEF Calls, Outward
  <2>6. \A v \in Uploads \ {u} : Calls'[v] = Calls[v]
    BY <2>1 DEF Calls, TypeOK
  <2>7. Calls = [v \in Uploads |-> Calls[v]] /\ Calls' = [v \in Uploads |-> Calls'[v]]
    BY DEF Calls
  <2> QED
    BY <2>2, <2>3, <2>5, <2>6, <2>7 DEF Promised!Begin
<1>2. ASSUME NEW u \in Uploads, Copy(u)
      PROVE  UNCHANGED Promised!vars
  <2>1. /\ put[u].at = "copying" /\ put'[u].at = "syncing"
        /\ put'[u].of = put[u].of
        /\ \A v \in Uploads \ {u} : put'[v] = put[v]
        /\ Stored' = Stored /\ ever' = ever
    BY <1>2 DEF Copy, Goes, Stored, There, TypeOK, directory
  <2>2. /\ Outward(put[u].at) = "pending"
        /\ Outward(put'[u].at) = "pending"
    BY <2>1 DEF Outward
  <2>3. Calls' = Calls
    BY <2>1, <2>2, Appears
  <2> QED
    BY <2>1, <2>3 DEF Promised!vars
<1>3. ASSUME NEW u \in Uploads, Sync(u)
      PROVE  UNCHANGED Promised!vars
  <2>1. /\ put[u].at = "syncing" /\ put'[u].at = "checking"
        /\ put'[u].of = put[u].of
        /\ \A v \in Uploads \ {u} : put'[v] = put[v]
        /\ Stored' = Stored /\ ever' = ever
    BY <1>3 DEF Sync, SyncedBySync, Stored, There, TypeOK, directory
  <2>2. /\ Outward(put[u].at) = "pending"
        /\ Outward(put'[u].at) = "pending"
    BY <2>1 DEF Outward
  <2>3. Calls' = Calls
    BY <2>1, <2>2, Appears
  <2> QED
    BY <2>1, <2>3 DEF Promised!vars
<1>4. ASSUME NEW u \in Uploads, GiveUp(u)
      PROVE  Promised!Fail(u)
  <2>1. /\ put[u].at \in {"copying", "syncing", "checking"} /\ put'[u].at = "failed"
        /\ put'[u].of = put[u].of
        /\ \A v \in Uploads \ {u} : put'[v] = put[v]
        /\ Stored' = Stored /\ ever' = ever
    BY <1>4 DEF GiveUp, Ends, Goes, Stored, There, TypeOK, directory
  <2>2. /\ Outward(put[u].at) = "pending"
        /\ Outward(put'[u].at) = "failed"
    BY <2>1 DEF Outward
  <2>3. /\ Calls[u] = [at |-> "pending", of |-> {put[u].of}]
        /\ Calls' = [Calls EXCEPT ![u].at = "failed"]
    BY <2>1, <2>2, Appears
  <2> QED
    BY <2>1, <2>3 DEF Promised!Fail, Promised!Moves
<1>5. ASSUME NEW u \in Uploads, Check(u)
      PROVE  Promised!Find(u) \/ UNCHANGED Promised!vars
  <2>1. /\ put[u].at = "checking" /\ put'[u].at \in {"stored", "renaming"}
        /\ put'[u].of = put[u].of
        /\ \A v \in Uploads \ {u} : put'[v] = put[v]
        /\ Stored' = Stored /\ ever' = ever
        /\ put'[u].at = "stored" => {put[u].of} \subseteq Stored
    BY <1>5 DEF Check, Ends, Goes, Stored, There, TypeOK, directory
  <2>2. /\ Outward(put[u].at) = "pending"
        /\ Outward(put'[u].at) = IF put'[u].at = "stored" THEN "ok" ELSE "pending"
    BY <2>1 DEF Outward
  <2>3. CASE put'[u].at = "stored"
    <3>1. /\ Calls[u] = [at |-> "pending", of |-> {put[u].of}]
          /\ Calls' = [Calls EXCEPT ![u].at = "ok"]
      BY <2>1, <2>2, <2>3, Appears
    <3> QED
      BY <2>1, <2>3, <3>1 DEF Promised!Find, Promised!Moves
  <2>4. CASE put'[u].at # "stored"
    <3>1. Calls' = Calls
      BY <2>1, <2>2, <2>4, Appears
    <3> QED
      BY <2>1, <2>4, <3>1 DEF Promised!vars
  <2> QED
    BY <2>3, <2>4
<1>6. ASSUME NEW u \in Uploads, Rename(u)
      PROVE  Promised!Store(u)
  <2>1. /\ put[u].at = "renaming" /\ put'[u].at = "chmod"
        /\ put'[u].of = put[u].of
        /\ \A v \in Uploads \ {u} : put'[v] = put[v]
        /\ Stored' = Stored \cup {put[u].of} /\ ever' = ever \cup {put[u].of}
    BY <1>6 DEF Rename, Goes, AfterRename, Stored, There, TypeOK, directory
  <2>2. /\ Outward(put[u].at) = "pending"
        /\ Outward(put'[u].at) = "kept"
    BY <2>1 DEF Outward
  <2>3. /\ Calls[u] = [at |-> "pending", of |-> {put[u].of}]
        /\ Calls' = [Calls EXCEPT ![u].at = "kept"]
    BY <2>1, <2>2, Appears
  <2> QED
    BY <2>1, <2>3 DEF Promised!Store, Promised!Moves
<1>7. ASSUME NEW u \in Uploads, RenameFails(u)
      PROVE  Promised!Find(u) \/ Promised!Fail(u)
  <2>1. /\ put[u].at = "renaming" /\ put'[u].at \in {"stored", "failed"}
        /\ put'[u].of = put[u].of
        /\ \A v \in Uploads \ {u} : put'[v] = put[v]
        /\ Stored' = Stored /\ ever' = ever
        /\ put'[u].at = "stored" => {put[u].of} \subseteq Stored
    BY <1>7 DEF RenameFails, Ends, Goes, WonByOther, Stored, There, TypeOK, directory
  <2>2. /\ Outward(put[u].at) = "pending"
        /\ Outward(put'[u].at) = IF put'[u].at = "stored" THEN "ok" ELSE "failed"
    BY <2>1 DEF Outward
  <2>3. CASE put'[u].at = "stored"
    <3>1. /\ Calls[u] = [at |-> "pending", of |-> {put[u].of}]
          /\ Calls' = [Calls EXCEPT ![u].at = "ok"]
      BY <2>1, <2>2, <2>3, Appears
    <3> QED
      BY <2>1, <2>3, <3>1 DEF Promised!Find, Promised!Moves
  <2>4. CASE put'[u].at # "stored"
    <3>1. /\ Calls[u] = [at |-> "pending", of |-> {put[u].of}]
          /\ Calls' = [Calls EXCEPT ![u].at = "failed"]
      BY <2>1, <2>2, <2>4, Appears
    <3> QED
      BY <2>1, <2>4, <3>1 DEF Promised!Fail, Promised!Moves
  <2> QED
    BY <2>3, <2>4
<1>8. ASSUME NEW u \in Uploads, Chmod(u)
      PROVE  Promised!Confirm(u)
  <2>1. /\ put[u].at = "chmod" /\ put'[u].at = "stored"
        /\ put'[u].of = put[u].of
        /\ \A v \in Uploads \ {u} : put'[v] = put[v]
        /\ Stored' = Stored /\ ever' = ever
    BY <1>8 DEF Chmod, Goes, Stored, There, TypeOK, directory
  <2>2. /\ Outward(put[u].at) = "kept"
        /\ Outward(put'[u].at) = "ok"
    BY <2>1 DEF Outward
  <2>3. /\ Calls[u] = [at |-> "kept", of |-> {put[u].of}]
        /\ Calls' = [Calls EXCEPT ![u].at = "ok"]
    BY <2>1, <2>2, Appears
  <2> QED
    BY <2>1, <2>3 DEF Promised!Confirm, Promised!Moves
<1>9. ASSUME NEW u \in Uploads, ChmodFails(u)
      PROVE  Promised!Fail(u)
  <2>1. /\ put[u].at = "chmod" /\ put'[u].at = "failed"
        /\ put'[u].of = put[u].of
        /\ \A v \in Uploads \ {u} : put'[v] = put[v]
        /\ Stored' = Stored /\ ever' = ever
    BY <1>9 DEF ChmodFails, Goes, Stored, There, TypeOK, directory
  <2>2. /\ Outward(put[u].at) = "kept"
        /\ Outward(put'[u].at) = "failed"
    BY <2>1 DEF Outward
  <2>3. /\ Calls[u] = [at |-> "kept", of |-> {put[u].of}]
        /\ Calls' = [Calls EXCEPT ![u].at = "failed"]
    BY <2>1, <2>2, Appears
  <2> QED
    BY <2>1, <2>3 DEF Promised!Fail, Promised!Moves
<1>10. ASSUME NEW u \in Uploads, Answer(u) PROVE Promised!Take(u)
  <2>1. /\ put[u].at \in {"stored", "failed"} /\ put' = [put EXCEPT ![u] = NoPut]
        /\ Stored' = Stored /\ ever' = ever
    BY <1>10 DEF Answer, directory, Stored, There
  <2>2. Calls[u].at \in {"ok", "failed"}
    BY <2>1 DEF Calls, Outward
  <2>3. Calls'[u] = Promised!NoCall
    BY <2>1 DEF Calls, NoPut, Outward, Promised!NoCall, TypeOK
  <2>4. \A v \in Uploads \ {u} : Calls'[v] = Calls[v]
    BY <2>1 DEF Calls, TypeOK
  <2>5. Calls = [v \in Uploads |-> Calls[v]] /\ Calls' = [v \in Uploads |-> Calls'[v]]
    BY DEF Calls
  <2> QED
    BY <2>1, <2>2, <2>3, <2>4, <2>5 DEF Promised!Take
<1>11. ASSUME NEW d \in Contents, Delete(d) PROVE Promised!Delete(d)
  BY <1>11 DEF Delete, Promised!Delete, Stored, There, Calls, TypeOK
<1>12. ASSUME NEW d \in Contents, Flush(d) PROVE UNCHANGED Promised!vars
  BY <1>12 DEF Flush, Promised!vars, Stored, There, Calls
<1>13. ASSUME ProcessEnds PROVE Promised!NoCalls
  BY <1>13 DEF ProcessEnds, NoPut, Calls, Outward, Promised!NoCalls, Promised!NoCall
<1>14. CASE Crash
  <2>1. Stored' = Stored /\ ever' = ever /\ ProcessEnds
    BY <1>14 DEF Crash, ProcessEnds, Stored, There
  <2> QED
    BY <1>13, <2>1 DEF Promised!Next, Promised!Crash
<1>15. CASE PowerLoss
  <2>1. Stored' \subseteq ever /\ ever' = ever /\ ProcessEnds
    BY <1>15 DEF PowerLoss, ProcessEnds, Stored, There, IInv, OnceStored
  <2> QED
    BY <1>13, <2>1 DEF Promised!Next, Promised!Lose
<1>16. CASE Start
  BY <1>16 DEF Start, directory, Promised!vars, Stored, There, Calls
<1>17. CASE UNCHANGED vars
  BY <1>17 DEF vars, Promised!vars, Stored, There, Calls
<1> QED
  BY <1>1, <1>2, <1>3, <1>4, <1>5, <1>6, <1>7, <1>8, <1>9, <1>10, <1>11,
     <1>12, <1>14, <1>15, <1>16, <1>17 DEF Next, Promised!Next

(* Put, Delete and what may befall them implement the store of contents    *)
(* their callers rely on.                                                  *)
THEOREM Implements == Spec => ImplementsContentStore
  BY Inductive, RefinesInit, RefinesStep, PTL
     DEF Spec, ImplementsContentStore, Promised!Spec
=================================================================================
