--------------------------- MODULE SessionsRefinement ---------------------------
(***************************************************************************)
(* Proof that Sessions implements AccessControl, for any users, passwords, *)
(* tokens, browsers and overlapping requests, and any life of a session.   *)
(*                                                                         *)
(* A request's standing follows its stage; its answer, on its way to a     *)
(* browser, is nothing to the door.  Sessions that run out lapse, and the  *)
(* extension of one, which looks at no expiry, renews it.                  *)
(***************************************************************************)
EXTENDS SessionsProofs

(* What each stage stands for. *)
LEMMA StandingTable ==
  /\ Standing["setup"] = "claiming" /\ Standing["creating"] = "claiming"
  /\ Standing["login"] = "claiming"
  /\ Standing["rehashing"] = "proven" /\ Standing["opening"] = "proven"
  /\ Standing["sent"] = "showing" /\ Standing["leaving"] = "leaving"
  /\ Standing["extending"] = "renewing" /\ Standing["admitted"] = "admitted"
  /\ Standing["changing"] = "entitled"
  /\ Standing["idle"] = "out" /\ Standing["answering"] = "out"
  BY DEF Standing, Stage

(* What a request's step is for its caller: it hangs up, ... *)
LEMMA HangsStep ==
  ASSUME Typed, NEW r \in Requests,
         Done(r) \/ \E t, reply : Answering(r, t, reply)
  PROVE  Door!Hangs(r)
<1>1. CallOf(Idle) = Door!NoCall
  BY StandingTable DEF CallOf, Idle, Door!NoCall
<1>2. ASSUME NEW q, q.at = "answering" PROVE CallOf(q) = Door!NoCall
  BY <1>2, StandingTable DEF CallOf, Idle, Door!NoCall
<1>3. PICK q : req' = [req EXCEPT ![r] = q] /\ CallOf(q) = Door!NoCall
  <2>1. CASE Done(r)
    BY <1>1, <2>1 DEF Done
  <2>2. ASSUME NEW t, NEW reply, Answering(r, t, reply)
        PROVE  \E q : req' = [req EXCEPT ![r] = q] /\ CallOf(q) = Door!NoCall
    <3> DEFINE q == [Idle EXCEPT !.at = "answering", !.from = req[r].from,
                                 !.token = t, !.reply = reply, !.tick = req[r].tick]
    <3>1. q.at = "answering"
      BY DEF Idle
    <3>2. req' = [req EXCEPT ![r] = q]
      BY <2>2 DEF Answering
    <3> QED
      BY <1>2, <3>1, <3>2
  <2> QED
    BY <2>1, <2>2
<1> QED
  BY <1>3 DEF Door!Hangs, Calls, Typed, TypeOK

(* ... or goes on to a stage, and with it to a standing. *)
LEMMA GoesStep ==
  ASSUME Typed, NEW r \in Requests, NEW stage \in Stage \ {"idle", "answering"},
         req[r].at \notin {"idle", "answering"}, Goes(r, stage)
  PROVE  Calls' = [Calls EXCEPT ![r].at = Standing[stage]]
<1> DEFINE q == [req[r] EXCEPT !.at = stage]
<1>1. req' = [req EXCEPT ![r] = q]
  BY DEF Goes
<1>2. req[r] \in Request /\ q \in Request /\ q.at = stage
  BY DEF Typed, TypeOK, Request
<1>3. CallOf(q) = [CallOf(req[r]) EXCEPT !.at = Standing[stage]]
  BY <1>2 DEF CallOf, Request
<1> QED
  BY <1>1, <1>3 DEF Calls, Typed, TypeOK

(* What the door sees of a request that is not answered. *)
LEMMA CallFields ==
  ASSUME Typed, NEW r \in Requests, req[r].at \notin {"idle", "answering"}
  PROVE  /\ Calls[r].at = Standing[req[r].at] /\ Calls[r].user = req[r].email
         /\ Calls[r].secret = req[r].given /\ Calls[r].wish = req[r].wanted
         /\ Calls[r].token = req[r].token
  BY DEF Calls, CallOf

(* A stage of the same standing makes no difference. *)
LEMMA StaysStep ==
  ASSUME Typed, NEW r \in Requests, NEW stage \in Stage \ {"idle", "answering"},
         req[r].at \notin {"idle", "answering"}, Goes(r, stage),
         Standing[stage] = Standing[req[r].at]
  PROVE  Calls' = Calls
<1>1. Calls' = [Calls EXCEPT ![r].at = Standing[stage]]
  BY GoesStep
<1>2. Calls[r] = [Calls[r] EXCEPT !.at = Standing[stage]]
  BY DEF Calls, CallOf
<1>3. Calls = [q \in Requests |-> Calls[q]]
  BY DEF Calls
<1> QED
  BY <1>1, <1>2, <1>3

(* Rows that are deleted end their tokens, lapsed or not. *)
LEMMA DeleteStep ==
  ASSUME Typed, NEW gone, Delete(gone)
  PROVE  Door!Ending(gone)
<1>1. owner' = [t \in Tokens |-> IF t \in gone THEN "ended" ELSE owner[t]]
  BY DEF Delete
<1>2. ASSUME NEW t \in Tokens PROVE t \in Lapsed' <=> t \in Lapsed /\ t \notin gone
  <2>1. CASE t \in gone
    BY <1>1, <2>1, NamesAssumption DEF Lapsed, Nobody
  <2>2. CASE t \notin gone
    BY <2>2 DEF Delete, Lapsed, Live
  <2> QED
    BY <2>1, <2>2
<1> QED
  BY <1>1, <1>2 DEF Door!Ending, Lapsed

(* A token opens exactly while its session lives. *)
LEMMA OpeningIsLive ==
  ASSUME Typed
  PROVE  /\ Door!Opening = {t \in Tokens : Live(t)}
         /\ \A t \in Tokens : Live(t) => owner[t] \in Emails
  BY DEF Door!Opening, Lapsed, Live

(* One step per action of Next: what it is at the door. *)
LEMMA DoorStep == Typed /\ [Next]_vars => [Door!Next]_(Door!vars)
<1> SUFFICES ASSUME Typed, [Next]_vars
             PROVE  Door!Next \/ UNCHANGED <<password, owner, Lapsed, Calls>>
  BY DEF Door!vars
<1> USE NamesAssumption, TimesAssumption
<1> USE DEF users, sessions, browsers
<1>a. ASSUME UNCHANGED <<owner, age>> PROVE Lapsed' = Lapsed
  BY <1>a DEF Lapsed, Live
<1>h. ASSUME NEW r \in Requests, UNCHANGED <<password, owner, age>>,
             Done(r) \/ Answering(r, None, "clear")
      PROVE  Door!HangUp(r)
  BY <1>a, <1>h, HangsStep DEF Door!HangUp
<1>1. ASSUME NEW r \in Requests, Sends(r) PROVE Door!Call(r)
  <2> DEFINE Sent(q) == /\ CallOf(q) \in Door!Presented
                        /\ req[r].at = "idle" /\ req' = [req EXCEPT ![r] = q]
  <2>1. ASSUME NEW b \in Browsers, NEW e \in Emails, NEW p \in Passwords,
               SendSetup(r, b, e, p) \/ SendLogin(r, b, e, p)
        PROVE  \E q : Sent(q)
    <3>1. PICK stage \in {"setup", "login"} :
            Send(r, [Idle EXCEPT !.at = stage, !.from = b, !.email = e, !.given = p])
      BY <2>1 DEF SendSetup, SendLogin
    <3> DEFINE w == [Idle EXCEPT !.at = stage, !.from = b, !.email = e, !.given = p]
    <3>2. CallOf(w) = [at |-> "claiming", user |-> e, secret |-> p, wish |-> None,
                       token |-> None]
      BY StandingTable DEF CallOf, Idle
    <3>3. CallOf(w) \in Door!Presented
      BY <3>2 DEF Door!Presented
    <3>4. req[r].at = "idle" /\ req' = [req EXCEPT ![r] = w]
      BY <3>1 DEF Send
    <3> HIDE DEF w
    <3> QED
      BY <3>3, <3>4
  <2>2. ASSUME NEW b \in Browsers, SendSigned(r, b) \/ SendLogout(r, b)
        PROVE  \E q : Sent(q)
    <3>1. PICK stage \in {"sent", "leaving"} :
            Send(r, [Idle EXCEPT !.at = stage, !.from = b, !.token = cookie[b]])
      BY <2>2 DEF SendSigned, SendLogout
    <3> DEFINE w == [Idle EXCEPT !.at = stage, !.from = b, !.token = cookie[b]]
    <3>2. CallOf(w) = [at |-> Standing[stage], user |-> None, secret |-> None,
                       wish |-> None, token |-> cookie[b]]
      BY DEF CallOf, Idle
    <3>3. CallOf(w) \in Door!Presented
      <4>1. cookie[b] \in Tokens \cup {None}
        BY DEF Typed, TypeOK
      <4>2. Standing[stage] \in {"showing", "leaving"}
        BY StandingTable
      <4> QED
        BY <3>2, <4>1, <4>2 DEF Door!Presented
    <3>4. req[r].at = "idle" /\ req' = [req EXCEPT ![r] = w]
      BY <3>1 DEF Send
    <3> HIDE DEF w
    <3> QED
      BY <3>3, <3>4
  <2>3. ASSUME NEW b \in Browsers, NEW p \in Passwords, NEW p2 \in Passwords,
               SendChange(r, b, p, p2)
        PROVE  \E q : Sent(q)
    <3> DEFINE w == [Idle EXCEPT !.at = "sent", !.from = b, !.token = cookie[b],
                                 !.given = p, !.wanted = p2]
    <3>1. CallOf(w) = [at |-> "showing", user |-> None, secret |-> p, wish |-> p2,
                       token |-> cookie[b]]
      BY StandingTable DEF CallOf, Idle
    <3>2. CallOf(w) \in Door!Presented
      <4>1. cookie[b] \in Tokens \cup {None}
        BY DEF Typed, TypeOK
      <4> QED
        BY <3>1, <4>1 DEF Door!Presented
    <3>3. req[r].at = "idle" /\ req' = [req EXCEPT ![r] = w]
      BY <2>3 DEF SendChange, Send
    <3> HIDE DEF w
    <3> QED
      BY <3>2, <3>3
  <2>4. PICK q : Sent(q)
    BY <1>1, <2>1, <2>2, <2>3 DEF Sends
  <2> HIDE DEF Sent
  <2>5. CallOf(q) \in Door!Presented /\ Calls' = [Calls EXCEPT ![r] = CallOf(q)]
    BY <2>4 DEF Sent, Calls, Typed, TypeOK
  <2>6. Calls[r] = Door!NoCall
    BY <2>4, StandingTable DEF Sent, Calls, CallOf, Idle, Door!NoCall
  <2>7. Calls'[r] = CallOf(q)
    BY <2>5 DEF Calls
  <2>8. UNCHANGED <<password, owner, Lapsed>>
    BY <1>1, <1>a, SendsStep
  <2> QED
    BY <2>5, <2>6, <2>7, <2>8 DEF Door!Call
<1>2. ASSUME NEW r \in Requests, CheckSetup(r)
      PROVE  Door!HangUp(r) \/ UNCHANGED <<password, owner, Lapsed, Calls>>
  <2>1. UNCHANGED <<password, owner, age>> /\ req[r].at = "setup"
    BY <1>2 DEF CheckSetup
  <2>2. CASE Goes(r, "creating")
    <3>1. Calls' = Calls
      BY <2>1, <2>2, StaysStep, StandingTable DEF Stage
    <3> QED
      BY <1>a, <2>1, <3>1
  <2>3. CASE Done(r)
    BY <1>h, <2>1, <2>3
  <2> QED
    BY <1>2, <2>2, <2>3 DEF CheckSetup
<1>3. ASSUME NEW r \in Requests, CreateUser(r) PROVE Door!Enroll(r) \/ Door!HangUp(r)
  <2>1. UNCHANGED <<owner, age>> /\ req[r].at = "creating"
    BY <1>3 DEF CreateUser
  <2>2. CASE password[req[r].email] = None
    <3>1. /\ Goes(r, "login")
          /\ password' = [password EXCEPT ![req[r].email] = req[r].given]
      BY <1>3, <2>2 DEF CreateUser
    <3>2. Calls' = Calls
      BY <2>1, <3>1, StaysStep, StandingTable DEF Stage
    <3>3. /\ Calls[r].at = "claiming" /\ Calls[r].user = req[r].email
          /\ Calls[r].secret = req[r].given
      BY <2>1, CallFields, StandingTable
    <3> QED
      BY <1>a, <2>1, <2>2, <3>1, <3>2, <3>3 DEF Door!Enroll
  <2>3. CASE password[req[r].email] # None
    BY <1>3, <1>h, <2>1, <2>3 DEF CreateUser
  <2> QED
    BY <2>2, <2>3
<1>4. ASSUME NEW r \in Requests, VerifyLogin(r) PROVE Door!Prove(r) \/ Door!HangUp(r)
  <2>1. UNCHANGED <<password, owner, age>> /\ req[r].at = "login"
    BY <1>4 DEF VerifyLogin
  <2>2. ASSUME NEW stage \in {"opening", "rehashing"}, Verifies(r), Goes(r, stage)
        PROVE  Door!Prove(r)
    <3>1. Calls' = [Calls EXCEPT ![r].at = "proven"]
      BY <2>1, <2>2, GoesStep, StandingTable DEF Stage
    <3>2. /\ Calls[r].at = "claiming" /\ Calls[r].user = req[r].email
          /\ Calls[r].secret = req[r].given
      BY <2>1, CallFields, StandingTable
    <3>3. password[req[r].email] = req[r].given
      BY <2>2 DEF Verifies
    <3> QED
      BY <1>a, <2>1, <3>1, <3>2, <3>3 DEF Door!Prove, Door!Moves
  <2> QED
    BY <1>4, <1>h, <2>1, <2>2 DEF VerifyLogin
<1>5. ASSUME NEW r \in Requests, Rehash(r)
      PROVE  Door!PutBack(r) \/ UNCHANGED <<password, owner, Lapsed, Calls>>
  <2>1. UNCHANGED <<owner, age>> /\ req[r].at = "rehashing" /\ Goes(r, "opening")
    BY <1>5 DEF Rehash
  <2>2. Calls' = Calls /\ Lapsed' = Lapsed
    BY <1>a, <2>1, StaysStep, StandingTable DEF Stage
  <2>3. /\ Calls[r].at = "proven" /\ Calls[r].user = req[r].email
        /\ Calls[r].secret = req[r].given
    BY <2>1, CallFields, StandingTable
  <2> QED
    BY <1>5, <2>2, <2>3 DEF Rehash, Door!PutBack
<1>6. ASSUME NEW r \in Requests, OpenSession(r) PROVE Door!Issue(r, Fresh)
  <2>1. /\ Fresh \in Tokens /\ owner[Fresh] = "unused" /\ req[r].at = "opening"
        /\ owner' = [owner EXCEPT ![Fresh] = req[r].email]
        /\ age' = [age EXCEPT ![Fresh] = 0] /\ password' = password
    BY <1>6, FreshType DEF OpenSession
  <2>2. req[r].email \in Emails
    BY <2>1 DEF Typed, Carries, Carried
  <2>3. Lapsed' = Lapsed
    <3>1. Fresh \notin Lapsed /\ Fresh \notin Lapsed'
      BY <2>1, <2>2, NamesAssumption, TimesAssumption
         DEF Lapsed, Live, Typed, TypeOK, Nobody
    <3>2. ASSUME NEW t \in Tokens \ {Fresh} PROVE owner'[t] = owner[t] /\ age'[t] = age[t]
      BY <2>1 DEF Typed, TypeOK
    <3> QED
      BY <3>1, <3>2 DEF Lapsed, Live
  <2>4. Door!Hangs(r)
    BY <1>6, HangsStep DEF OpenSession
  <2>5. Calls[r].at = "proven" /\ Calls[r].user = req[r].email
    BY <2>1, CallFields, StandingTable
  <2> QED
    BY <2>1, <2>3, <2>4, <2>5 DEF Door!Issue
<1>7. ASSUME NEW r \in Requests, Authenticate(r)
      PROVE  \/ \E stage \in {"renewing", "admitted"} : Door!Admit(r, stage)
             \/ Door!HangUp(r)
  <2>1. UNCHANGED <<password, owner, age>> /\ req[r].at = "sent"
    BY <1>7 DEF Authenticate
  <2>2. CASE Live(req[r].token)
    <3>1. req[r].token \in Door!Opening
      BY <2>2, OpeningIsLive DEF Live
    <3>2. PICK stage \in {"extending", "admitted"} :
            req' = [req EXCEPT ![r].at = stage, ![r].email = owner[req[r].token]]
      BY <1>7, <2>2 DEF Authenticate, Live
    <3> DEFINE q == [req[r] EXCEPT !.at = stage, !.email = owner[req[r].token]]
    <3>3. Calls[r].at = "showing" /\ Calls[r].token = req[r].token
      BY <2>1, CallFields, StandingTable
    <3>4. CallOf(q) = [at |-> Standing[stage], user |-> owner[req[r].token],
                       secret |-> Calls[r].secret, wish |-> Calls[r].wish,
                       token |-> Calls[r].token]
      <4>1. /\ q.at = stage /\ q.email = owner[req[r].token] /\ q.given = req[r].given
            /\ q.wanted = req[r].wanted /\ q.token = req[r].token
        BY DEF Typed, TypeOK, Request
      <4>2. /\ Calls[r].secret = req[r].given /\ Calls[r].wish = req[r].wanted
            /\ Calls[r].token = req[r].token
        BY <2>1, CallFields
      <4> QED
        BY <4>1, <4>2 DEF CallOf
    <3>5. Calls' = [Calls EXCEPT ![r] = CallOf(q)]
      BY <3>2 DEF Calls, Typed, TypeOK
    <3>6. Calls[r].token \in Door!Opening /\ owner[Calls[r].token] = owner[req[r].token]
      BY <3>1, <3>3
    <3>7. Standing[stage] \in {"renewing", "admitted"}
      BY StandingTable
    <3>8. Door!Admit(r, Standing[stage])
      BY <1>a, <2>1, <3>3, <3>4, <3>5, <3>6, <3>7 DEF Door!Admit
    <3> QED
      BY <3>7, <3>8
  <2>3. CASE ~Live(req[r].token)
    BY <1>7, <1>h, <2>1, <2>3 DEF Authenticate
  <2> QED
    BY <2>2, <2>3
<1>8. ASSUME NEW r \in Requests, Extend(r) PROVE Door!Renew(r)
  <2>1. /\ password' = password /\ req[r].at = "extending" /\ Goes(r, "admitted")
        /\ ExtendRow(r) \/ UNCHANGED <<owner, age>>
    BY <1>8 DEF Extend
  <2>2. Calls' = [Calls EXCEPT ![r].at = "admitted"]
    BY <2>1, GoesStep, StandingTable DEF Stage
  <2>3. Calls[r].at = "renewing" /\ Calls[r].token = req[r].token
    BY <2>1, CallFields, StandingTable
  <2>4. owner' = owner
    BY <2>1 DEF ExtendRow
  <2>5. ASSUME ExtendRow(r), owner[req[r].token] \in Emails
        PROVE  Lapsed' = Lapsed \ {req[r].token}
    \* The session lives again, if it had run out.
    <3>1. /\ \A t \in Tokens \ {req[r].token} : age'[t] = age[t]
          /\ req[r].token \in Tokens => age'[req[r].token] \in {0, 1}
      BY <2>5 DEF ExtendRow, AgeFrom, Typed, TypeOK
    <3>2. ASSUME NEW t \in Tokens
          PROVE  t \in Lapsed' <=> t \in Lapsed /\ t # req[r].token
      <4>1. CASE t = req[r].token
        BY <2>4, <3>1, <4>1 DEF Lapsed, Live
      <4>2. CASE t # req[r].token
        BY <2>4, <3>1, <4>2 DEF Lapsed, Live
      <4> QED
        BY <4>1, <4>2
    <3> QED
      BY <3>2 DEF Lapsed
  <2>6. ASSUME UNCHANGED age PROVE Lapsed' = Lapsed
    BY <1>a, <2>4, <2>6
  <2>7. UNCHANGED age \/ (ExtendRow(r) /\ owner[req[r].token] \in Emails)
    BY <2>1 DEF ExtendRow, Typed, TypeOK
  <2>8. Lapsed' \in {Lapsed, Lapsed \ {Calls[r].token}}
    BY <2>3, <2>5, <2>6, <2>7
  <2> QED
    BY <2>1, <2>2, <2>3, <2>4, <2>8 DEF Door!Renew, Door!Moves
<1>9. ASSUME NEW r \in Requests, Handle(r) PROVE Door!Entitle(r) \/ Door!HangUp(r)
  <2>1. UNCHANGED <<password, owner, age>> /\ req[r].at = "admitted"
    BY <1>9 DEF Handle
  <2>2. CASE req[r].wanted # None /\ Verifies(r) /\ Goes(r, "changing")
    <3>1. Calls' = [Calls EXCEPT ![r].at = "entitled"]
      BY <2>1, <2>2, GoesStep, StandingTable DEF Stage
    <3>2. /\ Calls[r].at = "admitted" /\ Calls[r].user = req[r].email
          /\ Calls[r].secret = req[r].given /\ Calls[r].wish = req[r].wanted
      BY <2>1, CallFields, StandingTable
    <3>3. password[req[r].email] = req[r].given
      BY <2>2 DEF Verifies
    <3> QED
      BY <1>a, <2>1, <2>2, <3>1, <3>2, <3>3 DEF Door!Entitle, Door!Moves
  <2>3. CASE Done(r)
    BY <1>h, <2>1, <2>3
  <2> QED
    BY <1>9, <2>2, <2>3 DEF Handle
<1>10. ASSUME NEW r \in Requests, ChangePassword(r) PROVE Door!Replace(r)
  <2>1. /\ req[r].at = "changing" /\ Delete(SessionsOfUser(r))
        /\ password' = [password EXCEPT ![req[r].email] = req[r].wanted]
    BY <1>10 DEF ChangePassword
  <2>2. /\ Calls[r].at = "entitled" /\ Calls[r].user = req[r].email
        /\ Calls[r].wish = req[r].wanted
    BY <2>1, CallFields, StandingTable
  <2>3. Door!Hangs(r)
    BY <1>10, HangsStep DEF ChangePassword
  <2>4. Door!Ending({t \in Tokens : owner[t] = Calls[r].user})
    BY <2>1, <2>2, DeleteStep DEF SessionsOfUser
  <2> QED
    BY <2>1, <2>2, <2>3, <2>4 DEF Door!Replace
<1>11. ASSUME NEW r \in Requests, Logout(r) PROVE Door!Leave(r)
  <2> DEFINE gone == {t \in Tokens : t = req[r].token /\ owner[t] \in Emails}
  <2>1. req[r].at = "leaving" /\ Delete(gone) /\ password' = password
    BY <1>11 DEF Logout
  <2>2. Calls[r].at = "leaving" /\ Calls[r].token = req[r].token
    BY <2>1, CallFields, StandingTable
  <2>3. Door!Hangs(r)
    BY <1>11, HangsStep DEF Logout
  <2>4. Door!Ending({t \in Tokens : t = Calls[r].token /\ owner[t] \in Emails})
    BY <2>1, <2>2, DeleteStep
  <2> QED
    BY <2>1, <2>2, <2>3, <2>4 DEF Door!Leave
<1>12. ASSUME NEW r \in Requests, Answer(r) \/ Abandon(r) PROVE Door!HangUp(r)
  <2>1. UNCHANGED <<password, owner, age>> /\ Done(r)
    BY <1>12 DEF Answer, Abandon
  <2> QED
    BY <1>h, <2>1
<1>13. CASE Sweep
  <2> DEFINE gone == {t \in Tokens : Expired(t)}
  <2>1. UNCHANGED <<password, req>> /\ Delete(gone)
    BY <1>13 DEF Sweep
  <2>2. gone \in SUBSET Lapsed
    BY DEF Expired, Lapsed, Live, Typed, TypeOK
  <2> QED
    BY <2>1, <2>2, DeleteStep DEF Calls, Door!EndLapsed, Door!Next
<1>14. CASE Tick
  <2> DEFINE gone == {t \in Tokens : Live(t) /\ ~Live(t)'}
  <2>1. UNCHANGED <<password, owner>>
    BY <1>14 DEF Tick
  <2>2. Calls' = Calls
    <3>1. ASSUME NEW r \in Requests PROVE CallOf(req'[r]) = CallOf(req[r])
      <4>1. CASE req[r].at = "idle"
        BY <1>14, <4>1 DEF Tick
      <4>2. CASE req[r].at # "idle"
        <5>1. PICK w : req'[r] = [req[r] EXCEPT !.tick = w]
          BY <1>14, <4>2 DEF Tick, Straddling
        <5>2. req[r] \in Request
          BY DEF Typed, TypeOK
        <5> QED
          BY <5>1, <5>2 DEF Request, CallOf
      <4> QED
        BY <4>1, <4>2
    <3> QED
      BY <3>1 DEF Calls
  <2>3. ASSUME NEW t \in Tokens PROVE Live(t)' => Live(t)
    BY <1>14, <2>1 DEF Tick, Live, Typed, TypeOK
  <2>4. Lapsed' = Lapsed \cup gone
    BY <2>1, <2>3 DEF Lapsed, Live
  <2>5. gone \in SUBSET Door!Opening
    BY OpeningIsLive
  <2> QED
    BY <2>1, <2>2, <2>4, <2>5 DEF Door!Lapse, Door!Next
<1>15. CASE UNCHANGED vars
  BY <1>15, <1>a DEF vars, Calls
<1> QED
  BY <1>1, <1>2, <1>3, <1>4, <1>5, <1>6, <1>7, <1>8, <1>9, <1>10, <1>11,
     <1>12, <1>13, <1>14, <1>15, FreshType DEF Next, Door!Next, OpenSession

(* Overlapping requests on accounts and sessions, given up halfway, late or  *)
(* raced, do no more than calls at a door that opens for tokens.             *)
THEOREM Implements == Spec => ImplementsAccessControl
<1>1. Init => Door!Init
  <2> SUFFICES ASSUME Init PROVE Door!Init
    OBVIOUS
  <2>1. \A r \in Requests : req[r] = Idle
    BY DEF Init
  <2>2. Calls = [r \in Requests |-> Door!NoCall]
    BY <2>1, StandingTable DEF Calls, CallOf, Idle, Door!NoCall
  <2>3. owner = [t \in Tokens |-> "unused"] /\ Lapsed = {}
    BY NamesAssumption DEF Init, Lapsed, Nobody
  <2>4. password \in [Emails -> Passwords \cup {None}]
    BY DEF Init
  <2> QED
    BY <2>2, <2>3, <2>4 DEF Door!Init
<1> QED
  BY <1>1, DoorStep, AlwaysTyped, PTL DEF Spec, ImplementsAccessControl, Door!Spec
=================================================================================
