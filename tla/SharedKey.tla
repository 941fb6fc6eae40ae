-------------------------------- MODULE SharedKey --------------------------------
(***************************************************************************)
(* What the keyring of manualbox promises: one key, shared by whoever      *)
(* holds one of the wraps it is kept under.                                *)
(*   - A call founds the key under its wraps, adds a wrap or takes one     *)
(*     away: all of it at one moment of the call, or nothing.              *)
(*   - The key is founded where there is none, and after that it is never  *)
(*     another and never without a wrap.                                   *)
(*   - A wrap that is added was never seen before, so one that was taken   *)
(*     away comes back by a loss of power only, which takes the key and    *)
(*     its wraps back to what was last made durable.                       *)
(***************************************************************************)
CONSTANTS Wraps, Keys, Callers, None

VARIABLES
  file,   \* the key and its wraps
  kept,   \* as they would be after a loss of power
  call,   \* of each caller
  seen    \* the wraps there ever were

vars == <<file, kept, call, seen>>

NoFile == [key |-> None, wraps |-> {}]
NoCall == [act |-> "none", ids |-> {}]
Call == [act: {"create", "add", "remove"}, ids: SUBSET Wraps]

Init ==
  /\ file = NoFile /\ kept = NoFile
  /\ call = [c \in Callers |-> NoCall]
  /\ seen = {}

Ask(c) ==
  /\ call[c] = NoCall
  /\ call'[c] \in Call
  /\ call' = [call EXCEPT ![c] = call'[c]]
  /\ call'[c].ids # {}
  /\ call'[c].act # "remove" => call'[c].ids \cap seen = {}
  /\ seen' = seen \cup call'[c].ids
  /\ UNCHANGED <<file, kept>>

Answers(c, act) ==
  /\ call[c].act = act
  /\ call' = [call EXCEPT ![c] = NoCall]
  /\ UNCHANGED <<kept, seen>>

Found(c) ==
  /\ Answers(c, "create")
  /\ file = NoFile
  /\ \E key \in Keys : file' = [key |-> key, wraps |-> call[c].ids]

Grant(c) ==
  /\ Answers(c, "add")
  /\ file # NoFile
  /\ file' = [key |-> file.key, wraps |-> file.wraps \cup call[c].ids]

Withdraw(c) ==
  /\ Answers(c, "remove")
  /\ file # NoFile
  /\ file.wraps \ call[c].ids # {}
  /\ file' = [key |-> file.key, wraps |-> file.wraps \ call[c].ids]

Fail(c) ==
  /\ call[c] # NoCall
  /\ call' = [call EXCEPT ![c] = NoCall]
  /\ UNCHANGED <<file, kept, seen>>

Keep == kept' = file /\ UNCHANGED <<file, call, seen>>

Lose ==
  /\ file' = kept
  /\ call' = [c \in Callers |-> NoCall]
  /\ UNCHANGED <<kept, seen>>

Next ==
  \/ \E c \in Callers : Ask(c) \/ Found(c) \/ Grant(c) \/ Withdraw(c) \/ Fail(c)
  \/ Keep \/ Lose

Spec == Init /\ [][Next]_vars
===============================================================================
