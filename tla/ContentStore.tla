------------------------------ MODULE ContentStore ------------------------------
(***************************************************************************)
(* What the blob store of manualbox promises its callers: a set of         *)
(* contents, each stored or not, in which                                  *)
(*   - an upload that is answered ok found its content stored, or stored   *)
(*     it, during the call (it may be deleted again by then);              *)
(*   - a content goes only when it is deleted: the death of the process    *)
(*     loses uploads and nothing that was stored;                          *)
(*   - a loss of power may undo what was done, but makes up nothing.       *)
(***************************************************************************)
CONSTANTS Contents, Uploads

VARIABLES
  stored,  \* the contents that can be read
  ever,    \* those that have been stored at some time
  call     \* per caller: the upload it waits for

vars == <<stored, ever, call>>

NoCall == [at |-> "idle", of |-> {}]

Init ==
  /\ stored = {} /\ ever = {}
  /\ call = [u \in Uploads |-> NoCall]

Moves(u, from, to) ==
  /\ call[u].at \in from
  /\ call' = [call EXCEPT ![u].at = to]

Begin(u, d) ==
  /\ call[u] = NoCall
  /\ call' = [call EXCEPT ![u] = [at |-> "pending", of |-> {d}]]
  /\ UNCHANGED <<stored, ever>>

Store(u) ==
  /\ Moves(u, {"pending"}, "kept")
  /\ stored' = stored \cup call[u].of
  /\ ever' = ever \cup call[u].of

Find(u) ==
  /\ call[u].of \subseteq stored
  /\ Moves(u, {"pending"}, "ok")
  /\ UNCHANGED <<stored, ever>>

Confirm(u) == Moves(u, {"kept"}, "ok") /\ UNCHANGED <<stored, ever>>

(* An upload may fail although it has stored its content. *)
Fail(u) == Moves(u, {"pending", "kept"}, "failed") /\ UNCHANGED <<stored, ever>>

Take(u) ==
  /\ call[u].at \in {"ok", "failed"}
  /\ call' = [call EXCEPT ![u] = NoCall]
  /\ UNCHANGED <<stored, ever>>

Delete(d) == stored' = stored \ {d} /\ UNCHANGED <<ever, call>>

NoCalls == call' = [u \in Uploads |-> NoCall]

Crash == NoCalls /\ UNCHANGED <<stored, ever>>

Lose == NoCalls /\ stored' \in SUBSET ever /\ UNCHANGED ever

Next ==
  \/ \E u \in Uploads :
       \/ \E d \in Contents : Begin(u, d)
       \/ Store(u) \/ Find(u) \/ Confirm(u) \/ Fail(u) \/ Take(u)
  \/ \E d \in Contents : Delete(d)
  \/ Crash \/ Lose

Spec == Init /\ [][Next]_vars
=================================================================================
