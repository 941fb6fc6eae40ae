------------------------------ MODULE AccessControl ------------------------------
(***************************************************************************)
(* What accounts and sessions of manualbox promise: a door that opens for  *)
(* tokens.                                                                 *)
(*   - A token is issued once, in a call that has given the secret of its  *)
(*     user as it was at some moment of the call, and it opens for that    *)
(*     user and nobody else.                                               *)
(*   - A call acts for a user only if its token opened for that user at    *)
(*     some moment of the call.                                            *)
(*   - A secret is replaced only by such a call, if it has also given the  *)
(*     secret it replaces; every token of the user ends with it, at once.  *)
(*     A call that signs in and has given the secret may put that very     *)
(*     secret back, even if it has been replaced since.                    *)
(*   - A token may lapse at any moment.  It opens again only if a call     *)
(*     that was let in with it while it opened renews it, as the first     *)
(*     thing it does.                                                      *)
(*   - A token that has ended never opens again.  It ends by a replaced    *)
(*     secret, when it is handed in, or when it has lapsed.                *)
(* A call may be cut short anywhere, and what it has done stays done.      *)
(***************************************************************************)
CONSTANTS Users, Secrets, Tokens, Callers, None

VARIABLES
  secret,  \* of each user; None: not enrolled
  access,  \* of each token: "unused", the user it is for, "ended"
  lapsed,  \* the tokens of users that do not open
  call     \* of each caller

vars == <<secret, access, lapsed, call>>

NoCall == [at |-> "out", user |-> None, secret |-> None, wish |-> None, token |-> None]

Init ==
  /\ secret \in [Users -> Secrets \cup {None}]
  /\ access = [t \in Tokens |-> "unused"]
  /\ lapsed = {}
  /\ call = [c \in Callers |-> NoCall]

Moves(c, from, to) ==
  /\ call[c].at = from
  /\ call' = [call EXCEPT ![c].at = to]

Hangs(c) == call' = [call EXCEPT ![c] = NoCall]

Ending(gone) ==
  /\ access' = [t \in Tokens |-> IF t \in gone THEN "ended" ELSE access[t]]
  /\ lapsed' = lapsed \ gone

Opening == {t \in Tokens \ lapsed : access[t] \in Users}

(* Whoever claims to be a user, with a secret; whoever shows a token,      *)
(* perhaps with a secret and the wish for another; whoever hands one in.   *)
Presented ==
  [at: {"claiming"}, user: Users, secret: Secrets, wish: {None}, token: {None}]
  \cup [at: {"showing"}, user: {None}, secret: Secrets \cup {None},
        wish: Secrets \cup {None}, token: Tokens \cup {None}]
  \cup [at: {"leaving"}, user: {None}, secret: {None}, wish: {None},
        token: Tokens \cup {None}]

Call(c) ==
  /\ call[c] = NoCall
  /\ call'[c] \in Presented
  /\ call' = [call EXCEPT ![c] = call'[c]]
  /\ UNCHANGED <<secret, access, lapsed>>

Enroll(c) ==
  /\ call[c].at = "claiming" /\ secret[call[c].user] = None
  /\ secret' = [secret EXCEPT ![call[c].user] = call[c].secret]
  /\ UNCHANGED <<access, lapsed, call>>

Prove(c) ==
  /\ Moves(c, "claiming", "proven")
  /\ secret[call[c].user] = call[c].secret
  /\ UNCHANGED <<secret, access, lapsed>>

PutBack(c) ==
  /\ call[c].at = "proven"
  /\ secret' = [secret EXCEPT ![call[c].user] = call[c].secret]
  /\ UNCHANGED <<access, lapsed, call>>

Issue(c, t) ==
  /\ call[c].at = "proven" /\ access[t] = "unused"
  /\ access' = [access EXCEPT ![t] = call[c].user]
  /\ Hangs(c)
  /\ UNCHANGED <<secret, lapsed>>

Admit(c, stage) ==
  /\ call[c].at = "showing" /\ call[c].token \in Opening
  /\ stage \in {"renewing", "admitted"}
  /\ call' = [call EXCEPT ![c] =
                 [at |-> stage, user |-> access[call[c].token],
                  secret |-> @.secret, wish |-> @.wish, token |-> @.token]]
  /\ UNCHANGED <<secret, access, lapsed>>

Renew(c) ==
  /\ Moves(c, "renewing", "admitted")
  /\ lapsed' \in {lapsed, lapsed \ {call[c].token}}
  /\ UNCHANGED <<secret, access>>

Entitle(c) ==
  /\ Moves(c, "admitted", "entitled")
  /\ call[c].wish # None /\ secret[call[c].user] = call[c].secret
  /\ UNCHANGED <<secret, access, lapsed>>

Replace(c) ==
  /\ call[c].at = "entitled"
  /\ secret' = [secret EXCEPT ![call[c].user] = call[c].wish]
  /\ Ending({t \in Tokens : access[t] = call[c].user})
  /\ Hangs(c)

Leave(c) ==
  /\ call[c].at = "leaving"
  /\ Ending({t \in Tokens : t = call[c].token /\ access[t] \in Users})
  /\ Hangs(c)
  /\ UNCHANGED secret

HangUp(c) == Hangs(c) /\ UNCHANGED <<secret, access, lapsed>>

Lapse ==
  /\ lapsed' \in {lapsed \cup gone : gone \in SUBSET Opening}
  /\ UNCHANGED <<secret, access, call>>

EndLapsed ==
  /\ \E gone \in SUBSET lapsed : Ending(gone)
  /\ UNCHANGED <<secret, call>>

Next ==
  \/ \E c \in Callers :
       \/ Call(c) \/ Enroll(c) \/ Prove(c) \/ PutBack(c)
       \/ \E t \in Tokens : Issue(c, t)
       \/ \E stage \in {"renewing", "admitted"} : Admit(c, stage)
       \/ Renew(c) \/ Entitle(c) \/ Replace(c) \/ Leave(c) \/ HangUp(c)
  \/ Lapse \/ EndLapsed

Spec == Init /\ [][Next]_vars
=================================================================================
