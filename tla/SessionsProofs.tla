----------------------------- MODULE SessionsProofs -----------------------------
(***************************************************************************)
(* Proofs about Sessions, for any users, passwords, tokens, browsers and   *)
(* overlapping requests, and any life of a session.                        *)
(***************************************************************************)
EXTENDS Sessions, TLAPS

(* What a request carries once it has come so far. *)
Carried(q) ==
  /\ q.at # "idle" => q.from \in Browsers
  /\ q.at \in {"setup", "creating", "login", "rehashing", "opening"} =>
       q.email \in Emails /\ q.given \in Passwords
  /\ q.at \in {"extending", "admitted", "changing"} =>
       q.email \in Emails /\ q.token \in Tokens
  /\ q.at = "changing" => q.wanted \in Passwords
  /\ q.at = "answering" /\ q.reply = "set" => q.token \in Tokens

Carries == \A r \in Requests : Carried(req[r])

Typed == TypeOK /\ Carries

(* An idle slot is a value of its type. *)
LEMMA IdleType == Idle \in Request /\ Idle.at = "idle"
  BY DEF Idle, Request, Stage

(* The token that is drawn is one that was not drawn before. *)
LEMMA FreshType ==
  (\E t \in Tokens : owner[t] = "unused") =>
    Fresh \in Tokens /\ owner[Fresh] = "unused"
  BY DEF Fresh

(* A slot that is given a well-formed request keeps all slots well-formed. *)
LEMMA RequestStep ==
  ASSUME Typed, NEW r \in Requests, NEW q \in Request, Carried(q),
         req' = [req EXCEPT ![r] = q]
  PROVE  req' \in [Requests -> Request] /\ Carries'
  BY DEF Typed, TypeOK, Carries

(* The request becomes one that waits for its answer to arrive. *)
LEMMA AnsweringStep ==
  ASSUME Typed, NEW r \in Requests, NEW t \in Tokens \cup {None},
         NEW reply \in {"set", "clear"}, reply = "set" => t \in Tokens,
         req[r].at # "idle", Answering(r, t, reply)
  PROVE  req' \in [Requests -> Request] /\ Carries'
<1> DEFINE q == [Idle EXCEPT !.at = "answering", !.from = req[r].from,
                             !.token = t, !.reply = reply, !.tick = req[r].tick]
<1>1. req[r].from \in Browsers
  BY DEF Typed, TypeOK, Carries, Carried, Request
<1>2. req[r].tick \in {"none", "passed", "stale"}
  BY DEF Typed, TypeOK, Request
<1>3. q \in Request /\ Carried(q)
  BY <1>1, <1>2 DEF Idle, Request, Stage, Carried
<1> QED
  BY <1>3, RequestStep DEF Answering

(* A request that is done leaves an idle slot. *)
LEMMA DoneStep ==
  ASSUME Typed, NEW r \in Requests, Done(r)
  PROVE  req' \in [Requests -> Request] /\ Carries'
<1>1. Carried(Idle)
  BY DEF Carried, Idle
<1> QED
  BY <1>1, IdleType, RequestStep DEF Done

(* A request goes on to a stage that carries no more than it has. *)
LEMMA OnwardStep ==
  ASSUME Typed, NEW r \in Requests, NEW stage \in Stage,
         Carried([req[r] EXCEPT !.at = stage]), Goes(r, stage)
  PROVE  req' \in [Requests -> Request] /\ Carries'
<1> DEFINE q == [req[r] EXCEPT !.at = stage]
<1>1. q \in Request
  BY DEF Typed, TypeOK, Request
<1>2. req' = [req EXCEPT ![r] = q]
  BY DEF Goes
<1> QED
  BY <1>1, <1>2, RequestStep

(* A request is where it was when the clock has gone on. *)
LEMMA TickStep ==
  ASSUME Typed, Tick
  PROVE  /\ req' \in [Requests -> Request] /\ Carries'
         /\ \A r \in Requests :
              /\ req'[r].at = req[r].at /\ req'[r].email = req[r].email
              /\ req'[r].given = req[r].given /\ req'[r].token = req[r].token
              /\ req'[r].reply = req[r].reply
              /\ req'[r].at \in Dated => req'[r].tick = "stale"
<1>1. ASSUME NEW r \in Requests
      PROVE  /\ req'[r] \in Request /\ Carried(req'[r])
             /\ req'[r].at = req[r].at /\ req'[r].email = req[r].email
             /\ req'[r].given = req[r].given /\ req'[r].token = req[r].token
             /\ req'[r].reply = req[r].reply
             /\ req'[r].at \in Dated => req'[r].tick = "stale"
  <2>1. req[r] \in Request /\ Carried(req[r])
    BY DEF Typed, TypeOK, Carries
  <2>2. CASE req[r].at = "idle"
    <3>1. req'[r] = req[r]
      BY <2>2 DEF Tick
    <3> QED
      BY <2>1, <2>2, <3>1 DEF Dated
  <2>3. CASE req[r].at # "idle"
    <3>1. PICK w \in {"passed", "stale"} :
            /\ req'[r] = [req[r] EXCEPT !.tick = w]
            /\ req[r].at \in Dated => w = "stale"
      BY <2>3 DEF Tick, Straddling
    <3> QED
      BY <2>1, <3>1 DEF Request, Carried
  <2> QED
    BY <2>2, <2>3
<1>2. req' = [r \in Requests |-> req'[r]]
  BY DEF Tick
<1> QED
  BY <1>1, <1>2 DEF Carries

(* A request is sent: nothing else happens. *)
LEMMA SendsStep ==
  ASSUME Typed, NEW r \in Requests, Sends(r)
  PROVE  /\ req' \in [Requests -> Request] /\ Carries'
         /\ req'[r].at \in {"setup", "login", "sent", "leaving"}
         /\ req'[r].reply = "none"
         /\ req'[r].token = None \/ \E b \in Browsers : req'[r].token = cookie[b]
         /\ \A q \in Requests \ {r} : req'[q] = req[q]
         /\ UNCHANGED <<password, outdated, owner, age, cookie, cookieAge, openedBy, raced>>
<1> DEFINE Sent(q) == /\ q \in Request /\ Carried(q)
                      /\ q.at \in {"setup", "login", "sent", "leaving"}
                      /\ q.reply = "none"
                      /\ q.token = None \/ \E b \in Browsers : q.token = cookie[b]
                      /\ req' = [req EXCEPT ![r] = q]
<1> USE DEF Typed, TypeOK, Request, Stage, Carried, Idle, Send
<1>1. ASSUME NEW b \in Browsers, NEW e \in Emails, NEW p \in Passwords,
             SendSetup(r, b, e, p)
      PROVE  \E q : Sent(q)
  BY <1>1 DEF SendSetup
<1>2. ASSUME NEW b \in Browsers, NEW e \in Emails, NEW p \in Passwords,
             SendLogin(r, b, e, p)
      PROVE  \E q : Sent(q)
  BY <1>2 DEF SendLogin
<1>3. ASSUME NEW b \in Browsers, SendSigned(r, b) PROVE \E q : Sent(q)
  BY <1>3 DEF SendSigned
<1>4. ASSUME NEW b \in Browsers, SendLogout(r, b) PROVE \E q : Sent(q)
  BY <1>4 DEF SendLogout
<1>5. ASSUME NEW b \in Browsers, NEW p \in Passwords, NEW w \in Passwords,
             SendChange(r, b, p, w)
      PROVE  \E q : Sent(q)
  BY <1>5 DEF SendChange
<1>6. PICK q : Sent(q)
  BY <1>1, <1>2, <1>3, <1>4, <1>5 DEF Sends
<1>7. req' \in [Requests -> Request] /\ Carries'
  BY <1>6, RequestStep
<1>8. req'[r] = q /\ \A s \in Requests \ {r} : req'[s] = req[s]
  BY <1>6
<1>9. UNCHANGED <<password, outdated, owner, age, cookie, cookieAge, openedBy, raced>>
  BY DEF Sends, SendSetup, SendLogin, SendSigned, SendLogout, SendChange,
         users, sessions, browsers
<1> QED
  BY <1>6, <1>7, <1>8, <1>9

(* The token of a request is looked at: only the request itself goes on. *)
LEMMA AuthenticateStep ==
  ASSUME Typed, NEW r \in Requests, Authenticate(r)
  PROVE  /\ req' \in [Requests -> Request] /\ Carries'
         /\ req'[r].at \in {"extending", "admitted", "answering", "idle"}
         /\ req'[r].reply # "set" \/ req'[r].at # "answering"
         /\ req'[r].token \in {None, req[r].token}
         /\ \A q \in Requests \ {r} : req'[q] = req[q]
         /\ UNCHANGED <<password, outdated, owner, age, cookie, cookieAge, openedBy, raced>>
<1> USE NamesAssumption, IdleType
<1> USE DEF Typed, TypeOK, Request, Stage, Nobody, Idle, Authenticate
<1>1. CASE Live(req[r].token)
  <2>1. req[r].token \in Tokens /\ owner[req[r].token] \in Emails
    BY <1>1 DEF Live
  <2>2. PICK stage \in {"extending", "admitted"} :
          req' = [req EXCEPT ![r].at = stage, ![r].email = owner[req[r].token]]
    BY <1>1, <2>1 DEF Live, Answering, Done
  <2>3. /\ req'[r] = [req[r] EXCEPT !.at = stage, !.email = owner[req[r].token]]
        /\ \A q \in Requests \ {r} : req'[q] = req[q]
    BY <2>2
  <2>4. req[r].from \in Browsers
    BY DEF Carries, Carried
  <2>5. req'[r] \in Request /\ Carried(req'[r]) /\ req'[r].at = stage
    BY <2>1, <2>3, <2>4 DEF Carried
  <2>6. req' \in [Requests -> Request] /\ Carries'
    BY <2>2, <2>3, <2>5 DEF Carries
  <2> QED
    BY <2>3, <2>5, <2>6 DEF users, sessions, browsers
<1>2. CASE Answering(r, None, "clear")
  <2>1. req' \in [Requests -> Request] /\ Carries'
    BY <1>2, AnsweringStep
  <2>2. req'[r].at = "answering" /\ req'[r].reply = "clear"
    BY <1>2 DEF Answering
  <2> QED
    BY <1>2, <2>1, <2>2 DEF Answering, users, sessions, browsers
<1>3. CASE Done(r)
  BY <1>3 DEF Done, Carries, Carried, users, sessions, browsers
<1>4. UNCHANGED <<password, outdated, owner, age, cookie, cookieAge, openedBy, raced>>
  BY DEF users, sessions, browsers
<1> QED
  BY <1>1, <1>2, <1>3, <1>4 DEF users, sessions, browsers

(* One step per action of Next. *)
LEMMA TypeStep == Typed /\ [Next]_vars => Typed'
<1> SUFFICES ASSUME Typed, [Next]_vars PROVE Typed'
  OBVIOUS
<1> USE NamesAssumption, TimesAssumption, IdleType
<1> USE DEF Typed, TypeOK, Carries, Carried, Request, Stage, Nobody, Idle,
            users, sessions, browsers
<1>1. ASSUME NEW r \in Requests, Sends(r) PROVE Typed'
  BY <1>1, SendsStep
<1>2. ASSUME NEW r \in Requests, CheckSetup(r) PROVE Typed'
  <2>1. Carried([req[r] EXCEPT !.at = "creating"])
    BY <1>2 DEF CheckSetup
  <2>2. req' \in [Requests -> Request] /\ Carries'
    BY <1>2, <2>1, DoneStep, OnwardStep DEF CheckSetup
  <2> QED
    BY <1>2, <2>2 DEF CheckSetup
<1>3. ASSUME NEW r \in Requests, CreateUser(r) PROVE Typed'
  <2>1. req' \in [Requests -> Request] /\ Carries'
    BY <1>3 DEF CreateUser, Goes, Done
  <2>2. /\ password' \in [Emails -> Passwords \cup {None}]
        /\ outdated' \in [Emails -> BOOLEAN]
        /\ UNCHANGED <<owner, age, openedBy, cookie, cookieAge, raced>>
    BY <1>3 DEF CreateUser
  <2> QED
    BY <2>1, <2>2
<1>4. ASSUME NEW r \in Requests, VerifyLogin(r) PROVE Typed'
  <2>1. /\ Carried([req[r] EXCEPT !.at = "opening"])
        /\ Carried([req[r] EXCEPT !.at = "rehashing"])
    BY <1>4 DEF VerifyLogin
  <2>2. req' \in [Requests -> Request] /\ Carries'
    BY <1>4, <2>1, DoneStep, OnwardStep DEF VerifyLogin
  <2> QED
    BY <1>4, <2>2 DEF VerifyLogin
<1>5. ASSUME NEW r \in Requests, Rehash(r) PROVE Typed'
  <2>1. req' \in [Requests -> Request] /\ Carries'
    <3>1. Carried([req[r] EXCEPT !.at = "opening"])
      BY <1>5 DEF Rehash
    <3> QED
      BY <1>5, <3>1, OnwardStep DEF Rehash
  <2>2. /\ password' \in [Emails -> Passwords \cup {None}]
        /\ outdated' \in [Emails -> BOOLEAN]
        /\ UNCHANGED <<owner, age, openedBy, cookie, cookieAge, raced>>
    BY <1>5 DEF Rehash
  <2> QED
    BY <2>1, <2>2
<1>6. ASSUME NEW r \in Requests, OpenSession(r) PROVE Typed'
  <2>1. Fresh \in Tokens /\ req[r].email \in Emails /\ req[r].given \in Passwords
    BY <1>6, FreshType DEF OpenSession
  <2>2. req' \in [Requests -> Request] /\ Carries'
    BY <1>6, <2>1, AnsweringStep DEF OpenSession
  <2>3. /\ owner' \in [Tokens -> Emails \cup Nobody] /\ age' \in [Tokens -> 0..TTL + 1]
        /\ openedBy' \in [Tokens -> Passwords \cup {None}]
        /\ UNCHANGED <<password, outdated, cookie, cookieAge, raced>>
    BY <1>6, <2>1 DEF OpenSession
  <2> QED
    BY <2>2, <2>3
<1>7. ASSUME NEW r \in Requests, Authenticate(r) PROVE Typed'
  BY <1>7, AuthenticateStep
<1>8. ASSUME NEW r \in Requests, Extend(r) PROVE Typed'
  <2>1. Carried([req[r] EXCEPT !.at = "admitted"])
    BY <1>8 DEF Extend
  <2>2. req' \in [Requests -> Request] /\ Carries'
    BY <1>8, <2>1, OnwardStep DEF Extend
  <2>3. owner' = owner /\ age' \in [Tokens -> 0..TTL + 1]
    BY <1>8 DEF Extend, ExtendRow, AgeFrom
  <2> QED
    BY <1>8, <2>2, <2>3 DEF Extend
<1>9. ASSUME NEW r \in Requests, Handle(r) PROVE Typed'
  <2>1. CASE Goes(r, "changing") /\ req[r].wanted # None
    <3>1. req[r].wanted \in Passwords
      BY <2>1
    <3>2. Carried([req[r] EXCEPT !.at = "changing"])
      BY <1>9, <3>1 DEF Handle
    <3> QED
      BY <1>9, <2>1, <3>2, OnwardStep DEF Handle
  <2>2. CASE Done(r)
    BY <1>9, <2>2, DoneStep DEF Handle
  <2> QED
    BY <1>9, <2>1, <2>2 DEF Handle
<1>10. ASSUME NEW r \in Requests, ChangePassword(r) PROVE Typed'
  <2>1. req' \in [Requests -> Request] /\ Carries'
    BY <1>10, AnsweringStep DEF ChangePassword
  <2>2. /\ owner' \in [Tokens -> Emails \cup Nobody] /\ age' \in [Tokens -> 0..TTL + 1]
        /\ openedBy' \in [Tokens -> Passwords \cup {None}]
    BY <1>10 DEF ChangePassword, Delete
  <2>3. /\ password' \in [Emails -> Passwords \cup {None}]
        /\ outdated' \in [Emails -> BOOLEAN]
        /\ raced' \in [Emails -> BOOLEAN]
        /\ UNCHANGED <<cookie, cookieAge>>
    BY <1>10 DEF ChangePassword
  <2> QED
    BY <2>1, <2>2, <2>3
<1>11. ASSUME NEW r \in Requests, Logout(r) PROVE Typed'
  <2>1. req' \in [Requests -> Request] /\ Carries'
    BY <1>11, AnsweringStep DEF Logout
  <2>2. /\ owner' \in [Tokens -> Emails \cup Nobody] /\ age' \in [Tokens -> 0..TTL + 1]
        /\ openedBy' \in [Tokens -> Passwords \cup {None}]
    BY <1>11 DEF Logout, Delete
  <2> QED
    BY <1>11, <2>1, <2>2 DEF Logout
<1>12. ASSUME NEW r \in Requests, Answer(r) PROVE Typed'
  <2>1. req' \in [Requests -> Request] /\ Carries'
    BY <1>12, DoneStep DEF Answer
  <2>2. /\ cookie' \in [Browsers -> Tokens \cup {None}]
        /\ cookieAge' \in [Browsers -> 0..TTL - 1]
    BY <1>12 DEF Answer
  <2> QED
    BY <1>12, <2>1, <2>2 DEF Answer
<1>13. ASSUME NEW r \in Requests, Abandon(r) PROVE Typed'
  BY <1>13, DoneStep DEF Abandon
<1>14. CASE Sweep
  BY <1>14 DEF Sweep, Expired, Delete
<1>15. CASE Tick
  <2>1. req' \in [Requests -> Request] /\ Carries'
    BY <1>15, TickStep
  <2>2. age' \in [Tokens -> 0..TTL + 1]
    BY <1>15 DEF Tick
  <2>3. /\ cookie' \in [Browsers -> Tokens \cup {None}]
        /\ cookieAge' \in [Browsers -> 0..TTL - 1]
    BY <1>15 DEF Tick, CookieLife
  <2> QED
    BY <1>15, <2>1, <2>2, <2>3 DEF Tick
<1>16. CASE UNCHANGED vars
  BY <1>16 DEF vars
<1> QED
  BY <1>1, <1>2, <1>3, <1>4, <1>5, <1>6, <1>7, <1>8, <1>9, <1>10, <1>11,
     <1>12, <1>13, <1>14, <1>15, <1>16 DEF Next

(* Types, and what each stage of a request carries, in every execution. *)
LEMMA AlwaysTyped == Spec => []Typed
<1>1. Init => Typed
  <2> SUFFICES ASSUME Init PROVE Typed
    OBVIOUS
  <2>1. /\ password \in [Emails -> Passwords \cup {None}]
        /\ outdated \in [Emails -> BOOLEAN]
    BY DEF Init
  <2>2. /\ owner \in [Tokens -> Emails \cup Nobody] /\ age \in [Tokens -> 0..TTL + 1]
        /\ openedBy \in [Tokens -> Passwords \cup {None}]
        /\ cookie \in [Browsers -> Tokens \cup {None}]
        /\ cookieAge \in [Browsers -> 0..TTL - 1]
        /\ raced \in [Emails -> BOOLEAN]
    <3>1. 0 \in 0..TTL + 1 /\ 0 \in 0..TTL - 1
      BY TimesAssumption
    <3> QED
      BY <3>1 DEF Init, Nobody
  <2>3. req = [r \in Requests |-> Idle] /\ \A r \in Requests : req[r] = Idle
    BY DEF Init
  <2>4. req \in [Requests -> Request] /\ \A r \in Requests : req[r].at = "idle"
    BY <2>3, IdleType
  <2> QED
    BY <2>1, <2>2, <2>4 DEF Typed, TypeOK, Carries, Carried
<1> QED
  BY <1>1, TypeStep, PTL DEF Spec

(* Every step of every request, the sweeper and time keep the types; in    *)
(* particular a request has what its next step needs.                      *)
THEOREM TypeCorrect == Spec => []TypeOK
<1>1. Typed => TypeOK
  BY DEF Typed
<1> QED
  BY <1>1, AlwaysTyped, PTL

(***************************************************************************)
(* Passwords.                                                              *)
(***************************************************************************)
(* Whoever has verified a password and not yet acted on it has verified    *)
(* the present one, and sessions have users, unless raced.                 *)
Checked ==
  \A q \in Requests, e \in Emails :
    Between(q, e) => password[e] # None /\ (~raced[e] => req[q].given = password[e])

Owned == \A t \in Tokens : owner[t] \in Emails => password[owner[t]] # None

PasswordInv == Checked /\ Owned /\ OldPasswordsDie

(* One step per action of Next. *)
LEMMA PasswordStep == Typed /\ PasswordInv /\ [Next]_vars => PasswordInv'
<1> SUFFICES ASSUME Typed, PasswordInv, [Next]_vars PROVE PasswordInv'
  OBVIOUS
<1> USE NamesAssumption, TimesAssumption, IdleType
<1> USE DEF Typed, TypeOK, Carries, Carried, Request, Nobody, Between, Idle,
            PasswordInv, Checked, Owned, OldPasswordsDie,
            users, sessions, browsers
<1>1. ASSUME NEW r \in Requests, Sends(r) PROVE PasswordInv'
  <2>1. /\ req'[r].at \notin {"rehashing", "opening", "changing"}
        /\ \A q \in Requests \ {r} : req'[q] = req[q]
        /\ UNCHANGED <<password, raced, owner, openedBy>>
    BY <1>1, SendsStep
  <2> QED
    BY <2>1
<1>2. ASSUME NEW r \in Requests, CheckSetup(r) PROVE PasswordInv'
  BY <1>2 DEF CheckSetup, Goes, Done
<1>3. ASSUME NEW r \in Requests, CreateUser(r) PROVE PasswordInv'
  BY <1>3 DEF CreateUser, Goes, Done
<1>4. ASSUME NEW r \in Requests, VerifyLogin(r) PROVE PasswordInv'
  BY <1>4 DEF VerifyLogin, Verifies, Goes, Done
<1>5. ASSUME NEW r \in Requests, Rehash(r) PROVE PasswordInv'
  BY <1>5 DEF Rehash, Goes
<1>6. ASSUME NEW r \in Requests, OpenSession(r) PROVE PasswordInv'
  <2> DEFINE e == req[r].email
  <2>1. Fresh \in Tokens /\ owner[Fresh] = "unused"
    BY <1>6, FreshType DEF OpenSession
  <2>2. e \in Emails /\ password[e] # None /\ (~raced[e] => req[r].given = password[e])
    BY <1>6 DEF OpenSession
  <2>3. /\ owner'[Fresh] = e /\ openedBy'[Fresh] = req[r].given
        /\ \A t \in Tokens \ {Fresh} : owner'[t] = owner[t] /\ openedBy'[t] = openedBy[t]
        /\ password' = password /\ raced' = raced
    BY <1>6, <2>1 DEF OpenSession
  <2>4. Owned' /\ OldPasswordsDie'
    BY <2>1, <2>2, <2>3
  <2>5. req'[r].at = "answering" /\ \A q \in Requests \ {r} : req'[q] = req[q]
    BY <1>6 DEF OpenSession, Answering
  <2>6. Checked'
    BY <2>3, <2>5
  <2> QED
    BY <2>4, <2>6
<1>7. ASSUME NEW r \in Requests, Authenticate(r) PROVE PasswordInv'
  <2>1. /\ ~\E e \in Emails : Between(r, e)'
        /\ \A q \in Requests \ {r} : req'[q] = req[q]
        /\ UNCHANGED <<password, raced, owner, openedBy>>
    BY <1>7, AuthenticateStep
  <2> QED
    BY <2>1
<1>8. ASSUME NEW r \in Requests, Extend(r) PROVE PasswordInv'
  BY <1>8 DEF Extend, ExtendRow, Goes
<1>9. ASSUME NEW r \in Requests, Handle(r) PROVE PasswordInv'
  BY <1>9 DEF Handle, Verifies, Goes, Done
<1>10. ASSUME NEW r \in Requests, ChangePassword(r) PROVE PasswordInv'
  BY <1>10 DEF ChangePassword, Delete, SessionsOfUser, Answering
<1>11. ASSUME NEW r \in Requests, Logout(r) PROVE PasswordInv'
  BY <1>11 DEF Logout, Delete, Answering
<1>12. ASSUME NEW r \in Requests, Answer(r) PROVE PasswordInv'
  BY <1>12 DEF Answer, Done
<1>13. ASSUME NEW r \in Requests, Abandon(r) PROVE PasswordInv'
  BY <1>13 DEF Abandon, Done
<1>14. CASE Sweep
  BY <1>14 DEF Sweep, Expired, Delete
<1>15. CASE Tick
  <2>1. UNCHANGED <<password, raced, owner, openedBy>>
    BY <1>15 DEF Tick
  <2>2. \A q \in Requests, e \in Emails : Between(q, e)' <=> Between(q, e)
    BY <1>15, TickStep
  <2>3. \A q \in Requests : req'[q].given = req[q].given
    BY <1>15, TickStep
  <2> QED
    BY <2>1, <2>2, <2>3
<1>16. CASE UNCHANGED vars
  BY <1>16 DEF vars
<1> QED
  BY <1>1, <1>2, <1>3, <1>4, <1>5, <1>6, <1>7, <1>8, <1>9, <1>10, <1>11,
     <1>12, <1>13, <1>14, <1>15, <1>16 DEF Next

(* The strengthening holds in every execution. *)
LEMMA PasswordsInvariant == Spec => [](Typed /\ PasswordInv)
<1>1. Init => PasswordInv
  <2> SUFFICES ASSUME Init PROVE PasswordInv
    OBVIOUS
  <2>1. \A r \in Requests : req[r].at = "idle"
    BY IdleType DEF Init
  <2>2. \A t \in Tokens : owner[t] \notin Emails
    BY NamesAssumption DEF Init, Nobody
  <2> QED
    BY <2>1, <2>2 DEF PasswordInv, Checked, Owned, OldPasswordsDie, Between
<1> QED
  BY <1>1, AlwaysTyped, PasswordStep, PTL DEF Spec

(* After a change of password no session opened with an older one is left, *)
(* unless a login or change that overlapped it had verified that one.      *)
THEOREM OldSessionsDie == Spec => []OldPasswordsDie
<1>1. PasswordInv => OldPasswordsDie
  BY DEF PasswordInv
<1> QED
  BY <1>1, PasswordsInvariant, PTL

(***************************************************************************)
(* Cookies.                                                                *)
(***************************************************************************)
(* A token that is not drawn is nowhere. *)
Unseen ==
  \A t \in Tokens :
    owner[t] = "unused" =>
      /\ \A b \in Browsers : cookie[b] # t
      /\ \A r \in Requests : req[r].token # t

InTransit(r) == req[r].at = "answering" /\ req[r].reply = "set"

(* A token on its way to the browser is there and nowhere else, so nobody  *)
(* has extended its session, which is as old as the answer at most.        *)
NewWhenAnswered ==
  \A r \in Requests :
    InTransit(r) =>
      /\ \A b \in Browsers : cookie[b] # req[r].token
      /\ \A q \in Requests \ {r} : req[q].token # req[r].token
      /\ owner[req[r].token] \in Emails => age[req[r].token] <= AgeFrom(r)

(* A cookie is a Tick younger than its session at most. *)
CookiesFollow ==
  \A b \in Browsers, t \in Tokens :
    cookie[b] = t /\ owner[t] \in Emails => age[t] <= cookieAge[b] + 1

CookieInv == Unseen /\ NewWhenAnswered /\ CookiesFollow

(* One step per action of Next. *)
LEMMA CookieStep == Typed /\ CookieInv /\ [Next]_vars => CookieInv'
<1> SUFFICES ASSUME Typed, CookieInv, [Next]_vars PROVE CookieInv'
  OBVIOUS
<1> USE NamesAssumption, TimesAssumption
<1> USE DEF Typed, TypeOK, Nobody, CookieInv, Unseen, NewWhenAnswered, CookiesFollow,
            InTransit, AgeFrom
<1> DEFINE Others(r) == \A q \in Requests \ {r} : req'[q] = req[q]
           Quiet(r) == req'[r].at # "answering" \/ req'[r].reply # "set"
\* A request that sets no cookie and shows no token but the browser's or its own.
<1>a. ASSUME NEW r \in Requests, Others(r), Quiet(r),
             \/ req'[r].token \in {None, req[r].token}
             \/ \E b \in Browsers : req'[r].token = cookie[b],
             UNCHANGED <<owner, age, cookie, cookieAge>>
      PROVE  CookieInv'
  <2>1. Unseen'
    BY <1>a
  <2>2. ASSUME NEW s \in Requests, InTransit(s)'
        PROVE  /\ s # r /\ req'[s] = req[s] /\ InTransit(s)
               /\ req'[r].token # req[s].token
    <3>1. s # r /\ req'[s] = req[s] /\ InTransit(s)
      BY <1>a, <2>2
    <3>2. req[s].token \in Tokens
      BY <3>1 DEF Carries, Carried
    <3> QED
      BY <1>a, <3>1, <3>2
  <2>3. NewWhenAnswered'
    BY <1>a, <2>2
  <2>4. CookiesFollow'
    BY <1>a
  <2> QED
    BY <2>1, <2>3, <2>4
\* Rows are deleted: no session becomes older.
<1>b. ASSUME NEW r \in Requests, NEW gone, Delete(gone), Answering(r, None, "clear"),
             UNCHANGED <<cookie, cookieAge>>
      PROVE  CookieInv'
  <2>1. /\ \A t \in Tokens : owner'[t] = owner[t] \/ owner'[t] = "ended"
        /\ \A t \in Tokens :
             owner'[t] \in Emails => owner'[t] = owner[t] /\ age'[t] = age[t]
    BY <1>b DEF Delete
  <2>2. Others(r) /\ Quiet(r) /\ req'[r].token = None
    BY <1>b DEF Answering, Idle
  <2>3. Unseen'
    BY <1>b, <2>1, <2>2
  <2>4. ASSUME NEW s \in Requests, InTransit(s)'
        PROVE  s # r /\ req'[s] = req[s] /\ InTransit(s) /\ req[s].token \in Tokens
    BY <2>2, <2>4 DEF Carries, Carried
  <2>5. NewWhenAnswered'
    BY <1>b, <2>1, <2>2, <2>4
  <2>6. CookiesFollow'
    BY <1>b, <2>1
  <2> QED
    BY <2>3, <2>5, <2>6
<1>1. ASSUME NEW r \in Requests, Sends(r) PROVE CookieInv'
  BY <1>a, <1>1, SendsStep
<1>2. ASSUME NEW r \in Requests,
             CheckSetup(r) \/ CreateUser(r) \/ VerifyLogin(r) \/ Rehash(r)
             \/ Handle(r) \/ Abandon(r)
      PROVE  CookieInv'
  <2>1. Others(r) /\ Quiet(r) /\ req'[r].token \in {None, req[r].token}
    <3>1. PICK stage \in {"creating", "login", "opening", "rehashing", "changing"} :
            Goes(r, stage) \/ Done(r)
      BY <1>2 DEF CheckSetup, CreateUser, VerifyLogin, Rehash, Handle, Abandon
    <3> QED
      BY <3>1 DEF Goes, Done, Idle, Request
  <2>2. UNCHANGED <<owner, age, cookie, cookieAge>>
    BY <1>2 DEF CheckSetup, CreateUser, VerifyLogin, Rehash, Handle, Abandon,
                users, sessions, browsers
  <2> QED
    BY <1>a, <2>1, <2>2
<1>3. ASSUME NEW r \in Requests, OpenSession(r) PROVE CookieInv'
  <2>1. /\ Fresh \in Tokens /\ owner[Fresh] = "unused"
        /\ req[r].email \in Emails /\ req[r].email # "unused"
    BY <1>3, FreshType DEF OpenSession, Carries, Carried
  <2>2. /\ owner'[Fresh] = req[r].email /\ age'[Fresh] = 0
        /\ \A t \in Tokens \ {Fresh} : owner'[t] = owner[t] /\ age'[t] = age[t]
        /\ UNCHANGED <<cookie, cookieAge>>
    BY <1>3, <2>1 DEF OpenSession, browsers
  <2>3. req'[r].token = Fresh /\ Others(r)
    BY <1>3 DEF OpenSession, Answering, Idle
  <2>4. Unseen'
    BY <2>1, <2>2, <2>3
  <2>5. ASSUME NEW s \in Requests, InTransit(s)', s # r
        PROVE  /\ req'[s] = req[s] /\ InTransit(s)
               /\ req[s].token \in Tokens \ {Fresh}
    BY <2>1, <2>3, <2>5 DEF Carries, Carried
  <2>6. NewWhenAnswered'
    BY <2>1, <2>2, <2>3, <2>5
  <2>7. CookiesFollow'
    BY <2>1, <2>2
  <2> QED
    BY <2>4, <2>6, <2>7
<1>4. ASSUME NEW r \in Requests, Authenticate(r) PROVE CookieInv'
  BY <1>a, <1>4, AuthenticateStep
<1>5. ASSUME NEW r \in Requests, Extend(r) PROVE CookieInv'
  <2>1. Others(r) /\ Quiet(r) /\ req'[r].token = req[r].token
    BY <1>5 DEF Extend, Goes, Request
  <2>2. UNCHANGED <<owner, cookie, cookieAge>>
    BY <1>5 DEF Extend, ExtendRow, browsers
  <2>3. \A t \in Tokens : age'[t] = age[t] \/ (t = req[r].token /\ age'[t] \in {0, 1})
    BY <1>5 DEF Extend, ExtendRow
  <2>4. Unseen'
    BY <2>1, <2>2
  <2>5. ASSUME NEW s \in Requests, InTransit(s)'
        PROVE  /\ s # r /\ req'[s] = req[s] /\ InTransit(s)
               /\ req[s].token \in Tokens \ {req[r].token}
    BY <2>1, <2>5 DEF Carries, Carried
  <2>6. NewWhenAnswered'
    BY <2>1, <2>2, <2>3, <2>5
  <2>7. CookiesFollow'
    BY <2>2, <2>3
  <2> QED
    BY <2>4, <2>6, <2>7
<1>6. ASSUME NEW r \in Requests, ChangePassword(r) PROVE CookieInv'
  BY <1>b, <1>6 DEF ChangePassword, browsers
<1>7. ASSUME NEW r \in Requests, Logout(r) PROVE CookieInv'
  BY <1>b, <1>7 DEF Logout, browsers
<1>8. ASSUME NEW r \in Requests, Answer(r) PROVE CookieInv'
  <2>1. Others(r) /\ Quiet(r) /\ req'[r].token = None /\ UNCHANGED <<owner, age>>
    BY <1>8 DEF Answer, Done, Idle, sessions
  <2>2. \A b \in Browsers :
          \/ cookie'[b] = cookie[b] /\ cookieAge'[b] = cookieAge[b]
          \/ cookieAge'[b] = 0 /\ cookie'[b] = None
          \/ cookieAge'[b] = 0 /\ cookie'[b] = req[r].token /\ InTransit(r)
    BY <1>8 DEF Answer
  <2>3. Unseen'
    BY <2>1, <2>2
  <2>4. ASSUME NEW s \in Requests, InTransit(s)'
        PROVE  /\ s # r /\ req'[s] = req[s] /\ InTransit(s)
               /\ req[s].token \in Tokens \ {req[r].token}
    <3>1. s # r /\ req'[s] = req[s] /\ InTransit(s)
      BY <2>1, <2>4
    <3> QED
      BY <3>1 DEF Carries, Carried
  <2>5. NewWhenAnswered'
    BY <2>1, <2>2, <2>4
  <2>6. CookiesFollow'
    BY <2>1, <2>2
  <2> QED
    BY <2>3, <2>5, <2>6
<1>9. CASE Sweep
  <2>1. /\ \A t \in Tokens : owner'[t] = owner[t] \/ owner'[t] = "ended"
        /\ \A t \in Tokens :
             owner'[t] \in Emails => owner'[t] = owner[t] /\ age'[t] = age[t]
        /\ UNCHANGED <<req, cookie, cookieAge>>
    BY <1>9 DEF Sweep, Delete, browsers
  <2>2. \A r \in Requests : InTransit(r) => req[r].token \in Tokens
    BY DEF Carries, Carried
  <2> QED
    BY <2>1, <2>2
<1>10. CASE Tick
  <2>1. \A r \in Requests :
          /\ req'[r].at = req[r].at /\ req'[r].token = req[r].token
          /\ req'[r].reply = req[r].reply /\ req[r].tick = "none"
          /\ req'[r].at = "answering" => req'[r].tick = "stale"
    BY <1>10, TickStep DEF Tick, Dated
  <2>2. /\ owner' = owner
        /\ \A t \in Tokens : age'[t] \in {age[t], age[t] + 1}
        /\ \A b \in Browsers : cookie'[b] \in {cookie[b], None}
        /\ \A b \in Browsers : cookie'[b] # None => cookieAge'[b] = cookieAge[b] + 1
    BY <1>10 DEF Tick
  <2>3. Unseen'
    BY <2>1, <2>2
  <2>4. ASSUME NEW r \in Requests, InTransit(r)'
        PROVE  InTransit(r) /\ req[r].token \in Tokens /\ AgeFrom(r) = 0 /\ AgeFrom(r)' = 1
    BY <2>1, <2>4 DEF Carries, Carried
  <2>5. NewWhenAnswered'
    BY <2>1, <2>2, <2>4
  <2>6. CookiesFollow'
    BY <2>2
  <2> QED
    BY <2>3, <2>5, <2>6
<1>11. CASE UNCHANGED vars
  BY <1>11 DEF vars
<1> QED
  BY <1>1, <1>2, <1>3, <1>4, <1>5, <1>6, <1>7, <1>8, <1>9, <1>10, <1>11 DEF Next

(* A browser keeps the token of a session that has run out for a Tick at   *)
(* most: its cookie was set within a Tick of the session's beginning.      *)
THEOREM CookiesEnd == Spec => []CookiesRunOut
<1>1. Init => CookieInv
  <2> SUFFICES ASSUME Init PROVE CookieInv
    OBVIOUS
  <2>1. \A r \in Requests : req[r].at = "idle" /\ req[r].token = None
    BY DEF Init, Idle
  <2>2. \A t \in Tokens : owner[t] = "unused" /\ owner[t] \notin Emails
    BY NamesAssumption DEF Init, Nobody
  <2>3. \A b \in Browsers : cookie[b] = None
    BY DEF Init
  <2> QED
    BY <2>1, <2>2, <2>3, NamesAssumption
       DEF CookieInv, Unseen, NewWhenAnswered, InTransit, CookiesFollow
<1>2. Typed /\ CookieInv => CookiesRunOut
  BY TimesAssumption
     DEF CookieInv, CookiesFollow, CookiesRunOut, Expired, CookieLife, Typed, TypeOK
<1> QED
  BY <1>1, <1>2, AlwaysTyped, CookieStep, PTL DEF Spec

(***************************************************************************)
(* Steps.                                                                  *)
(***************************************************************************)
(* The password of a user is replaced by another only by a change whose    *)
(* request has verified the one it replaces, unless raced.                 *)
THEOREM OwnersChange == Spec => OnlyTheOwnerChanges
<1> DEFINE Allowed ==
      \A e \in Emails :
        password[e] # None /\ password'[e] # password[e] /\ ~raced[e] =>
          \E r \in Requests :
            /\ req[r].at = "changing" /\ req[r].email = e
            /\ req[r].given = password[e] /\ req[r].wanted = password'[e]
<1>1. Typed /\ PasswordInv /\ [Next]_vars => [Allowed]_vars
  <2> SUFFICES ASSUME Typed, PasswordInv, Next PROVE Allowed
    BY DEF vars
  <2> USE DEF Typed, TypeOK, PasswordInv, Checked, Between, users
  <2>1. ASSUME NEW r \in Requests, CreateUser(r) PROVE Allowed
    BY <2>1 DEF CreateUser, Carries, Carried
  <2>2. ASSUME NEW r \in Requests, Rehash(r) PROVE Allowed
    BY <2>2 DEF Rehash, Carries, Carried
  <2>3. ASSUME NEW r \in Requests, ChangePassword(r) PROVE Allowed
    BY <2>3 DEF ChangePassword, Carries, Carried
  <2>4. ASSUME NEW r \in Requests,
               Sends(r) \/ CheckSetup(r) \/ VerifyLogin(r) \/ OpenSession(r)
               \/ Authenticate(r) \/ Extend(r) \/ Handle(r) \/ Logout(r)
               \/ Answer(r) \/ Abandon(r)
        PROVE  password' = password
    BY <2>4 DEF Sends, SendSetup, SendLogin, SendSigned, SendLogout, SendChange, Send,
                CheckSetup, VerifyLogin, OpenSession, Authenticate, Extend, Handle,
                Logout, Answer, Abandon
  <2>5. Sweep \/ Tick => password' = password
    BY DEF Sweep, Tick
  <2>6. password' = password => Allowed
    OBVIOUS
  <2> QED
    BY <2>1, <2>2, <2>3, <2>4, <2>5, <2>6 DEF Next
<1> QED
  BY <1>1, PasswordsInvariant, PTL DEF Spec, OnlyTheOwnerChanges

(* How a session can go. *)
LEMMA SessionsGo ==
  ASSUME Typed, Next, NEW t \in Tokens, owner'[t] # owner[t]
  PROVE  \/ owner[t] = "unused"
         \/ /\ owner'[t] = "ended" /\ owner[t] \in Emails
            /\ \/ Sweep /\ age[t] >= TTL
               \/ \E r \in Requests : Logout(r) /\ req[r].token = t
               \/ \E r \in Requests : ChangePassword(r) /\ req[r].email = owner[t]
<1> USE DEF Typed, TypeOK, sessions
<1>1. ASSUME NEW r \in Requests, OpenSession(r) PROVE owner[t] = "unused"
  BY <1>1, FreshType DEF OpenSession
<1>2. ASSUME NEW r \in Requests, Logout(r)
      PROVE  req[r].token = t /\ owner'[t] = "ended" /\ owner[t] \in Emails
  BY <1>2 DEF Logout, Delete
<1>3. ASSUME NEW r \in Requests, ChangePassword(r)
      PROVE  req[r].email = owner[t] /\ owner'[t] = "ended" /\ owner[t] \in Emails
  BY <1>3 DEF ChangePassword, Delete, SessionsOfUser, Carries, Carried
<1>4. Sweep => age[t] >= TTL /\ owner'[t] = "ended" /\ owner[t] \in Emails
  BY DEF Sweep, Delete, Expired
<1>5. ASSUME NEW r \in Requests,
             Sends(r) \/ CheckSetup(r) \/ CreateUser(r) \/ VerifyLogin(r) \/ Rehash(r)
             \/ Authenticate(r) \/ Extend(r) \/ Handle(r) \/ Answer(r) \/ Abandon(r)
      PROVE  FALSE
  BY <1>5 DEF Sends, SendSetup, SendLogin, SendSigned, SendLogout, SendChange, Send,
              CheckSetup, CreateUser, VerifyLogin, Rehash, Authenticate, Extend,
              ExtendRow, Handle, Answer, Abandon
<1>6. ~Tick
  BY DEF Tick
<1> QED
  BY <1>1, <1>2, <1>3, <1>4, <1>5, <1>6 DEF Next

(***************************************************************************)
(* Extensions.                                                             *)
(***************************************************************************)
(* A session about to be extended has run out no longer ago than it was    *)
(* read.                                                                   *)
ExtendedInTime ==
  \A r \in Requests :
    req[r].at = "extending" => age[req[r].token] < TTL + AgeFrom(r)

(* Time passes once at most, and nothing else makes a session older. *)
LEMMA InTimeStep == Typed /\ ExtendedInTime /\ [Next]_vars => ExtendedInTime'
<1> SUFFICES ASSUME Typed, ExtendedInTime, [Next]_vars PROVE ExtendedInTime'
  OBVIOUS
<1> USE NamesAssumption, TimesAssumption
<1> USE DEF Typed, TypeOK, ExtendedInTime, AgeFrom
<1> DEFINE Others(r) == \A q \in Requests \ {r} : req'[q] = req[q]
<1>h. \A r \in Requests : req[r].at = "extending" => req[r].token \in Tokens
  BY DEF Carries, Carried
<1>1. ASSUME NEW r \in Requests, req'[r].at # "extending", Others(r),
             \A t \in Tokens : age'[t] \in {age[t], 0, 1}
      PROVE  ExtendedInTime'
  BY <1>1, <1>h
<1>2. ASSUME NEW r \in Requests, Sends(r) PROVE ExtendedInTime'
  BY <1>1, <1>2, SendsStep
<1>3. ASSUME NEW r \in Requests,
             CheckSetup(r) \/ CreateUser(r) \/ VerifyLogin(r) \/ Rehash(r)
             \/ Handle(r) \/ Answer(r) \/ Abandon(r)
      PROVE  ExtendedInTime'
  <2>1. req'[r].at # "extending" /\ Others(r)
    BY <1>3 DEF CheckSetup, CreateUser, VerifyLogin, Rehash, Handle, Answer, Abandon,
                Goes, Done, Idle, Request
  <2>2. UNCHANGED age
    BY <1>3 DEF CheckSetup, CreateUser, VerifyLogin, Rehash, Handle, Answer, Abandon,
                sessions
  <2> QED
    BY <1>1, <2>1, <2>2
<1>4. ASSUME NEW r \in Requests, NEW gone, Delete(gone), Answering(r, None, "clear")
      PROVE  ExtendedInTime'
  BY <1>1, <1>4 DEF Delete, Answering, Idle
<1>5. ASSUME NEW r \in Requests, ChangePassword(r) PROVE ExtendedInTime'
  BY <1>4, <1>5 DEF ChangePassword
<1>6. ASSUME NEW r \in Requests, Logout(r) PROVE ExtendedInTime'
  BY <1>4, <1>6 DEF Logout
<1>7. ASSUME NEW r \in Requests, OpenSession(r) PROVE ExtendedInTime'
  BY <1>1, <1>7, FreshType DEF OpenSession, Answering, Idle
<1>8. ASSUME NEW r \in Requests, Authenticate(r) PROVE ExtendedInTime'
  <2>1. Others(r) /\ UNCHANGED age
    BY <1>8, AuthenticateStep
  <2>2. req'[r].at = "extending" => req'[r].token \in Tokens /\ req'[r].token = req[r].token
    BY <1>8, AuthenticateStep, NamesAssumption DEF Carries, Carried
  <2>3. req'[r].at = "extending" => Live(req[r].token)
    <3>1. Answering(r, None, "clear") => req'[r].at = "answering"
      BY DEF Answering, Idle
    <3>2. Done(r) => req'[r].at = "idle"
      BY DEF Done, Idle
    <3> QED
      BY <1>8, <3>1, <3>2 DEF Authenticate
  <2>4. req'[r].at = "extending" => age[req'[r].token] < TTL
    BY <2>2, <2>3 DEF Live
  <2> QED
    BY <1>h, <2>1, <2>2, <2>4
<1>9. ASSUME NEW r \in Requests, Extend(r) PROVE ExtendedInTime'
  <2>1. req'[r].at # "extending" /\ Others(r)
    BY <1>9 DEF Extend, Goes, Request
  <2>2. \A t \in Tokens : age'[t] \in {age[t], 0, 1}
    BY <1>9 DEF Extend, ExtendRow
  <2> QED
    BY <1>1, <2>1, <2>2
<1>10. CASE Sweep
  BY <1>10, <1>h DEF Sweep, Delete
<1>11. CASE Tick
  <2>1. \A r \in Requests :
          /\ req'[r].at = req[r].at /\ req'[r].token = req[r].token
          /\ req[r].tick = "none"
          /\ req'[r].at = "extending" => req'[r].tick = "stale"
    BY <1>11, TickStep DEF Tick, Dated
  <2>2. \A t \in Tokens : age'[t] \in {age[t], age[t] + 1}
    BY <1>11 DEF Tick
  <2> QED
    BY <1>h, <2>1, <2>2
<1>12. CASE UNCHANGED vars
  BY <1>12 DEF vars
<1> QED
  BY <1>2, <1>3, <1>5, <1>6, <1>7, <1>8, <1>9, <1>10, <1>11, <1>12 DEF Next

(* Extensions are in time in every execution. *)
LEMMA InTimeInvariant == Spec => [](Typed /\ ExtendedInTime)
<1>1. Init => ExtendedInTime
  BY IdleType DEF Init, ExtendedInTime
<1> QED
  BY <1>1, AlwaysTyped, InTimeStep, PTL DEF Spec

(* No request opens a session again that was deleted, or that ran out      *)
(* longer ago than a request lasts, whatever it has read before.           *)
THEOREM NoReturn == Spec => GoneForGood
<1> DEFINE Gone(t) == owner[t] = "ended" \/ (owner[t] \in Emails /\ age[t] > TTL)
<1>1. Typed /\ ExtendedInTime /\ [Next]_vars =>
        [\A t \in Tokens : Gone(t) => ~Live(t)']_vars
  <2> SUFFICES ASSUME Typed, ExtendedInTime, Next, NEW t \in Tokens, Gone(t)
               PROVE  ~Live(t)'
    BY DEF vars
  <2> USE DEF Typed, TypeOK
  <2>1. "ended" \notin Emails /\ "unused" \notin Emails
    BY NamesAssumption DEF Nobody
  <2>2. CASE owner'[t] # owner[t]
    BY <2>1, <2>2, SessionsGo DEF Live
  <2>3. CASE owner[t] = "ended" /\ owner'[t] = owner[t]
    BY <2>1, <2>3 DEF Live
  <2>4. CASE owner[t] \in Emails /\ age[t] > TTL /\ owner'[t] = owner[t]
    <3>1. age'[t] >= age[t]
      <4>1. ASSUME NEW r \in Requests, Extend(r) PROVE age'[t] = age[t]
        <5>1. req[r].token # t
          <6>1. age[req[r].token] < TTL + 1
            BY <4>1, TimesAssumption DEF Extend, ExtendedInTime, AgeFrom, Carries, Carried
          <6> QED
            BY <2>4, <6>1, TimesAssumption
        <5> QED
          BY <4>1, <5>1 DEF Extend, ExtendRow
      <4>2. ASSUME NEW r \in Requests, OpenSession(r) PROVE age'[t] = age[t]
        BY <2>1, <2>4, <4>2, FreshType DEF OpenSession
      <4>3. ASSUME NEW gone, Delete(gone) PROVE age'[t] = age[t]
        BY <2>1, <2>4, <4>3 DEF Delete
      <4>4. ASSUME NEW r \in Requests, ChangePassword(r) \/ Logout(r) PROVE age'[t] = age[t]
        BY <4>3, <4>4 DEF ChangePassword, Logout
      <4>5. ASSUME NEW r \in Requests,
                   Sends(r) \/ CheckSetup(r) \/ CreateUser(r) \/ VerifyLogin(r)
                   \/ Rehash(r) \/ Authenticate(r) \/ Handle(r) \/ Answer(r) \/ Abandon(r)
            PROVE  age'[t] = age[t]
        BY <4>5 DEF Sends, SendSetup, SendLogin, SendSigned, SendLogout, SendChange, Send,
                    CheckSetup, CreateUser, VerifyLogin, Rehash, Authenticate,
                    Handle, Answer, Abandon, sessions
      <4>6. ASSUME Sweep PROVE age'[t] = age[t]
        BY <4>3, <4>6 DEF Sweep
      <4>7. ASSUME Tick PROVE age'[t] >= age[t]
        BY <4>7 DEF Tick
      <4>8. age'[t] = age[t] => age'[t] >= age[t]
        OBVIOUS
      <4>9. age'[t] = age[t] \/ Tick
        BY <4>1, <4>2, <4>4, <4>5, <4>6 DEF Next
      <4> QED
        BY <4>7, <4>8, <4>9
    <3>2. age[t] \in Int /\ age'[t] \in Int
      BY TypeStep, TimesAssumption
    <3> QED
      BY <2>4, <3>1, <3>2, TimesAssumption DEF Live
  <2> QED
    BY <2>2, <2>3, <2>4
<1> QED
  BY <1>1, InTimeInvariant, PTL DEF Spec, GoneForGood

(* A session that has not expired is deleted only by a logout with its     *)
(* token or by a change of its user's password, made (unless raced) by     *)
(* someone who knows the password it was opened with.                      *)
THEOREM LiveSessionsStay == Spec => LiveSessionsAreKept
<1> DEFINE Reason(t) ==
      \E r \in Requests :
        \/ req[r].at = "leaving" /\ req[r].token = t
        \/ req[r].at = "changing" /\ req[r].email = owner[t]
             /\ (~raced[owner[t]] => req[r].given = openedBy[t])
<1>1. Typed /\ PasswordInv /\ [Next]_vars =>
        [\A t \in Tokens : Live(t) /\ owner'[t] = "ended" => Reason(t)]_vars
  <2> SUFFICES ASSUME Typed, PasswordInv, Next, NEW t \in Tokens, Live(t),
                      owner'[t] = "ended"
               PROVE  Reason(t)
    BY DEF vars
  <2>1. /\ owner[t] \in Emails /\ owner[t] # "unused"
        /\ owner'[t] # owner[t] /\ ~(age[t] >= TTL)
    BY NamesAssumption, TimesAssumption DEF Live, Nobody, Typed, TypeOK
  <2>2. CASE \E r \in Requests : Logout(r) /\ req[r].token = t
    BY <2>2 DEF Logout
  <2>3. ASSUME NEW r \in Requests, ChangePassword(r), req[r].email = owner[t]
        PROVE  Reason(t)
    <3>1. req[r].at = "changing"
      BY <2>3 DEF ChangePassword
    <3>2. ~raced[owner[t]] => req[r].given = password[owner[t]]
      BY <2>1, <2>3, <3>1 DEF PasswordInv, Checked, Between
    <3>3. ~raced[owner[t]] => openedBy[t] = password[owner[t]]
      BY <2>1 DEF PasswordInv, OldPasswordsDie
    <3> QED
      BY <2>3, <3>1, <3>2, <3>3
  <2> QED
    BY <2>1, <2>2, <2>3, SessionsGo
<1> QED
  BY <1>1, PasswordsInvariant, PTL DEF Spec, LiveSessionsAreKept
=================================================================================
