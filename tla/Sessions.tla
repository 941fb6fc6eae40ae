-------------------------------- MODULE Sessions --------------------------------
(***************************************************************************)
(* Accounts and sessions of manualbox: the users and sessions tables, the  *)
(* operations of internal/auth on them, the HTTP handlers and middleware   *)
(* that call those, and the cookie each browser keeps.                     *)
(*                                                                         *)
(* A request is a sequence of statements with hashing in between, tens of  *)
(* milliseconds each time, so requests overlap; every read and write of    *)
(* the database is a step.  A request can be given up at any of them (the  *)
(* client hangs up, a statement fails, the process dies), and its answer   *)
(* reaches the browser as a step of its own.                               *)
(*                                                                         *)
(* Time.  One Tick is a day (extendAfter); a session lives TTL of them     *)
(* since the clock was read for it, and age[t] counts those.  A request    *)
(* lasts a minute at most (middleware.Timeout), so it may straddle one     *)
(* Tick, but no two: it may extend a session that has run out since it was *)
(* read, and a cookie may be set the day after its session.  The clock is  *)
(* read just before the first statement that uses it, in the same step.    *)
(*                                                                         *)
(* Left out: names, roles, addresses, user agents and timestamps that      *)
(* decide nothing; syntactic rejections (weak password, malformed e-mail   *)
(* or body), which touch no state; bearer headers, which are a cookie kept *)
(* by a script.                                                            *)
(***************************************************************************)
EXTENDS Integers

CONSTANTS
  Emails,      \* folded addresses; the unique key of users, so the user
  Passwords,
  Tokens,      \* the tokens rand.Read will draw
  Browsers,
  Requests,    \* slots for requests that are being handled
  None,
  TTL,         \* DefaultSessionTTL, in ticks
  ExtendAfter  \* extendAfter, in ticks

Stage == {"idle", "setup", "creating", "login", "rehashing", "opening",
          "sent", "extending", "admitted", "changing", "leaving", "answering"}
Dated == {"extending", "answering"}   \* what holds a reading of the clock
Nobody == {"unused", "ended"}   \* what a token is if not somebody's session

ASSUME TimesAssumption ==
  /\ TTL \in Nat /\ ExtendAfter \in Nat \ {0} /\ ExtendAfter < TTL
ASSUME NamesAssumption ==
  /\ None \notin Emails \cup Passwords \cup Tokens \cup Browsers
  /\ Emails \cap Nobody = {}

VARIABLES
  \* users
  password,    \* the password its hash verifies; None: no such row
  outdated,    \* the hash has weaker parameters than today's
  \* sessions
  owner,       \* user_id; "unused" before the insert, "ended" after the delete
  age,         \* ticks since last_seen_at, at TTL of which expires_at is reached
  \* browsers
  cookie,
  cookieAge,   \* ticks since it was set
  \* the goroutines handling requests
  req,
  \* history
  openedBy,    \* the password a session was opened with
  raced        \* the last change of a password committed while another
               \* request was between its check of that password and its write

users == <<password, outdated>>
sessions == <<owner, age, openedBy>>
browsers == <<cookie, cookieAge>>
vars == <<password, outdated, owner, age, cookie, cookieAge, req, openedBy, raced>>

Request == [at: Stage, from: Browsers \cup {None}, token: Tokens \cup {None},
            email: Emails \cup {None}, given: Passwords \cup {None},
            wanted: Passwords \cup {None}, reply: {"none", "set", "clear"},
            \* a Tick has passed; the reading of the clock it holds is older
            tick: {"none", "passed", "stale"}]

Idle == [at |-> "idle", from |-> None, token |-> None, email |-> None,
         given |-> None, wanted |-> None, reply |-> "none", tick |-> "none"]

TypeOK ==
  /\ password \in [Emails -> Passwords \cup {None}]
  /\ outdated \in [Emails -> BOOLEAN]
  /\ owner \in [Tokens -> Emails \cup Nobody]
  /\ age \in [Tokens -> 0..TTL + 1]
  /\ cookie \in [Browsers -> Tokens \cup {None}]
  /\ cookieAge \in [Browsers -> 0..TTL - 1]
  /\ req \in [Requests -> Request]
  /\ openedBy \in [Tokens -> Passwords \cup {None}]
  /\ raced \in [Emails -> BOOLEAN]

(* A fresh instance, or one whose user was created under older parameters. *)
Init ==
  /\ \/ password = [e \in Emails |-> None] /\ outdated = [e \in Emails |-> FALSE]
     \/ \E e \in Emails, p \in Passwords :
          /\ password = [f \in Emails |-> IF f = e THEN p ELSE None]
          /\ outdated = [f \in Emails |-> f = e]
  /\ owner = [t \in Tokens |-> "unused"]
  /\ age = [t \in Tokens |-> 0]
  /\ cookie = [b \in Browsers |-> None]
  /\ cookieAge = [b \in Browsers |-> 0]
  /\ req = [r \in Requests |-> Idle]
  /\ openedBy = [t \in Tokens |-> None]
  /\ raced = [e \in Emails |-> FALSE]

Live(t) == t \in Tokens /\ owner[t] \in Emails /\ age[t] < TTL

(* A row is deleted, and with it its times. *)
Delete(gone) ==
  /\ owner' = [t \in Tokens |-> IF t \in gone THEN "ended" ELSE owner[t]]
  /\ age' = [t \in Tokens |-> IF t \in gone THEN 0 ELSE age[t]]
  /\ openedBy' = [t \in Tokens |-> IF t \in gone THEN None ELSE openedBy[t]]

(***************************************************************************)
(* What a browser sends.                                                   *)
(***************************************************************************)
Send(r, request) ==
  /\ req[r].at = "idle"
  /\ req' = [req EXCEPT ![r] = request]
  /\ UNCHANGED users /\ UNCHANGED sessions /\ UNCHANGED browsers
  /\ UNCHANGED raced

SendSetup(r, b, e, p) ==
  Send(r, [Idle EXCEPT !.at = "setup", !.from = b, !.email = e, !.given = p])

SendLogin(r, b, e, p) ==
  Send(r, [Idle EXCEPT !.at = "login", !.from = b, !.email = e, !.given = p])

(* A request behind requireUser: the browser attaches the cookie it has. *)
SendSigned(r, b) ==
  Send(r, [Idle EXCEPT !.at = "sent", !.from = b, !.token = cookie[b]])

SendChange(r, b, p, q) ==
  Send(r, [Idle EXCEPT !.at = "sent", !.from = b, !.token = cookie[b],
                       !.given = p, !.wanted = q])

SendLogout(r, b) ==
  Send(r, [Idle EXCEPT !.at = "leaving", !.from = b, !.token = cookie[b]])

(***************************************************************************)
(* How a request goes on.                                                  *)
(***************************************************************************)
Goes(r, stage) == req' = [req EXCEPT ![r].at = stage]
Done(r) == req' = [req EXCEPT ![r] = Idle]   \* answered, the cookie untouched
Answering(r, t, reply) ==
  req' = [req EXCEPT ![r] = [Idle EXCEPT !.at = "answering", !.from = req[r].from,
                                         !.token = t, !.reply = reply,
                                         !.tick = req[r].tick]]

(* Somebody has verified a password of e and not yet acted on it. *)
Between(q, e) == req[q].at \in {"rehashing", "opening", "changing"} /\ req[q].email = e

(* CountUsers: there is none. *)
NeedsSetup == \A e \in Emails : password[e] = None

CheckSetup(r) ==
  /\ req[r].at = "setup"
  /\ \/ NeedsSetup /\ Goes(r, "creating")
     \/ ~NeedsSetup /\ Done(r)
  /\ UNCHANGED users /\ UNCHANGED sessions /\ UNCHANGED browsers
  /\ UNCHANGED raced

(* email_folded is unique; handleSetup goes on to sign the user in. *)
CreateUser(r) ==
  /\ req[r].at = "creating"
  /\ \/ /\ password[req[r].email] = None
        /\ password' = [password EXCEPT ![req[r].email] = req[r].given]
        /\ outdated' = [outdated EXCEPT ![req[r].email] = FALSE]
        /\ Goes(r, "login")
     \/ /\ password[req[r].email] # None
        /\ Done(r)
        /\ UNCHANGED users
  /\ UNCHANGED sessions /\ UNCHANGED browsers /\ UNCHANGED raced

(* Mutant: the parameters are compared before the digest is. *)
OutdatedIsEnough(r) ==
  LET e == req[r].email IN
  /\ password[e] # None
  /\ password[e] = req[r].given \/ outdated[e]

Verifies(r) ==
  LET e == req[r].email IN
  /\ password[e] # None
  /\ password[e] = req[r].given

VerifyLogin(r) ==
  /\ req[r].at = "login"
  /\ \/ Verifies(r) /\ ~outdated[req[r].email] /\ Goes(r, "opening")
     \/ Verifies(r) /\ outdated[req[r].email] /\ Goes(r, "rehashing")
     \/ ~Verifies(r) /\ Done(r)
  /\ UNCHANGED users /\ UNCHANGED sessions /\ UNCHANGED browsers
  /\ UNCHANGED raced

(* The hash of what was typed replaces whatever hash is there by now; a
   failure is only logged. *)
Rehash(r) ==
  /\ req[r].at = "rehashing"
  /\ \/ /\ password' = [password EXCEPT ![req[r].email] = req[r].given]
        /\ outdated' = [outdated EXCEPT ![req[r].email] = FALSE]
     \/ UNCHANGED users
  /\ Goes(r, "opening")
  /\ UNCHANGED sessions /\ UNCHANGED browsers /\ UNCHANGED raced

(* Tokens are drawn at random and never again; which one is all the same. *)
Fresh == CHOOSE t \in Tokens : owner[t] = "unused"

OpenSession(r) ==
  LET t == Fresh IN
  /\ req[r].at = "opening"
  /\ \E s \in Tokens : owner[s] = "unused"
  /\ owner' = [owner EXCEPT ![t] = req[r].email]
  /\ age' = [age EXCEPT ![t] = 0]
  /\ openedBy' = [openedBy EXCEPT ![t] = req[r].given]
  /\ Answering(r, t, "set")
  /\ UNCHANGED users /\ UNCHANGED browsers /\ UNCHANGED raced

(* A token that opens nothing is taken back from the browser. *)
Authenticate(r) ==
  LET t == req[r].token IN
  /\ req[r].at = "sent"
  /\ \/ /\ Live(t)
        /\ req' = [req EXCEPT
             ![r].at = IF age[t] > ExtendAfter THEN "extending" ELSE "admitted",
             ![r].email = owner[t]]
     \/ ~Live(t) /\ t # None /\ Answering(r, None, "clear")
     \/ t = None /\ Done(r)
  /\ UNCHANGED users /\ UNCHANGED sessions /\ UNCHANGED browsers
  /\ UNCHANGED raced

(* The age of a session that is given the reading of the clock r holds. *)
AgeFrom(r) == IF req[r].tick = "stale" THEN 1 ELSE 0

(* Mutant: the session is written back whole. *)
ExtendOrInsert(r) ==
  /\ owner' = [owner EXCEPT ![req[r].token] = req[r].email]
  /\ age' = [age EXCEPT ![req[r].token] = AgeFrom(r)]

(* ExtendSession: an UPDATE, so a row deleted meanwhile stays deleted; one *)
(* that has run out since it was read is extended like any other.          *)
ExtendRow(r) ==
  LET t == req[r].token IN
  /\ age' = [age EXCEPT ![t] = IF owner[t] \in Emails THEN AgeFrom(r) ELSE @]
  /\ UNCHANGED owner

(* A failed extension is only logged; the request goes on. *)
Extend(r) ==
  /\ req[r].at = "extending"
  /\ ExtendRow(r) \/ UNCHANGED <<owner, age>>
  /\ Goes(r, "admitted")
  /\ UNCHANGED openedBy
  /\ UNCHANGED users /\ UNCHANGED browsers /\ UNCHANGED raced

(* The handler runs; ChangePassword checks the current password first. *)
Handle(r) ==
  /\ req[r].at = "admitted"
  /\ \/ req[r].wanted = None /\ Done(r)
     \/ req[r].wanted # None /\ Verifies(r) /\ Goes(r, "changing")
     \/ req[r].wanted # None /\ ~Verifies(r) /\ Done(r)
  /\ UNCHANGED users /\ UNCHANGED sessions /\ UNCHANGED browsers
  /\ UNCHANGED raced

(* Mutant: only the session that asked is revoked. *)
OnlyOwnSession(r) == {req[r].token} \cap Tokens

(* DeleteUserSessions *)
SessionsOfUser(r) == {t \in Tokens : owner[t] = req[r].email}

(* The transaction: the password and the sessions, both or neither. *)
ChangePassword(r) ==
  LET e == req[r].email IN
  /\ req[r].at = "changing"
  /\ password' = [password EXCEPT ![e] = req[r].wanted]
  /\ outdated' = [outdated EXCEPT ![e] = FALSE]
  /\ Delete(SessionsOfUser(r))
  /\ raced' = [raced EXCEPT ![e] = \E q \in Requests \ {r} : Between(q, e)]
  /\ Answering(r, None, "clear")
  /\ UNCHANGED browsers

(* Logout asks for no valid session, only for a token to delete. *)
Logout(r) ==
  /\ req[r].at = "leaving"
  /\ Delete({t \in Tokens : t = req[r].token /\ owner[t] \in Emails})
  /\ Answering(r, None, "clear")
  /\ UNCHANGED users /\ UNCHANGED browsers /\ UNCHANGED raced

(* The answer arrives, whatever the browser has done in the meantime. *)
Answer(r) ==
  /\ req[r].at = "answering"
  /\ cookie' = [cookie EXCEPT
       ![req[r].from] = IF req[r].reply = "set" THEN req[r].token ELSE None]
  /\ cookieAge' = [cookieAge EXCEPT ![req[r].from] = 0]
  /\ Done(r)
  /\ UNCHANGED users /\ UNCHANGED sessions /\ UNCHANGED raced

(* The request is given up: what it has written stays written. *)
Abandon(r) ==
  /\ req[r].at # "idle"
  /\ Done(r)
  /\ UNCHANGED users /\ UNCHANGED sessions /\ UNCHANGED browsers
  /\ UNCHANGED raced

(***************************************************************************)
(* The sweeper, and time.                                                  *)
(***************************************************************************)
(* Mutant: a day too early. *)
ExpiresToday(t) == owner[t] \in Emails /\ age[t] + 1 >= TTL

Expired(t) == owner[t] \in Emails /\ age[t] >= TTL

Sweep ==
  /\ \E t \in Tokens : Expired(t)
  /\ Delete({t \in Tokens : Expired(t)})
  /\ UNCHANGED req
  /\ UNCHANGED users /\ UNCHANGED browsers /\ UNCHANGED raced

(* Mutant: the cookie outlives the session. *)
CookieLifeAndADay == TTL + 1

(* MaxAge, counted from the login and never renewed. *)
CookieLife == TTL

Straddling(q) == [q EXCEPT !.tick = IF q.at \in Dated THEN "stale" ELSE "passed"]

Tick ==
  /\ \/ \E t \in Tokens : owner[t] \in Emails /\ age[t] <= TTL
     \/ \E b \in Browsers : cookie[b] # None
  /\ \A r \in Requests : req[r].tick = "none"
  /\ req' = [r \in Requests |-> IF req[r].at = "idle" THEN req[r] ELSE Straddling(req[r])]
  /\ age' = [t \in Tokens |->
               IF owner[t] \in Emails /\ age[t] <= TTL THEN age[t] + 1 ELSE age[t]]
  /\ cookie' = [b \in Browsers |->
                  IF cookieAge[b] + 1 >= CookieLife THEN None ELSE cookie[b]]
  /\ cookieAge' = [b \in Browsers |->
                     IF cookie'[b] = None THEN 0 ELSE cookieAge[b] + 1]
  /\ UNCHANGED <<owner, openedBy>> /\ UNCHANGED users /\ UNCHANGED raced

Sends(r) ==
  \E b \in Browsers :
    \/ \E e \in Emails, p \in Passwords : SendSetup(r, b, e, p) \/ SendLogin(r, b, e, p)
    \/ SendSigned(r, b) \/ SendLogout(r, b)
    \/ \E p, q \in Passwords : SendChange(r, b, p, q)

Next ==
  \/ \E r \in Requests :
       \/ Sends(r)
       \/ CheckSetup(r) \/ CreateUser(r)
       \/ VerifyLogin(r) \/ Rehash(r) \/ OpenSession(r)
       \/ Authenticate(r) \/ Extend(r) \/ Handle(r) \/ ChangePassword(r)
       \/ Logout(r) \/ Answer(r) \/ Abandon(r)
  \/ Sweep \/ Tick

Spec == Init /\ [][Next]_vars

(***************************************************************************)
(* Properties.                                                             *)
(***************************************************************************)
(* After a change of password nothing opened with an older one is left     *)
(* (ChangePassword deletes every session of the user), unless the last     *)
(* change committed while another login or change had verified the old     *)
(* password and not yet written: that one's session, or its rehash of the  *)
(* old password, then comes after the change.                              *)
OldPasswordsDie ==
  \A t \in Tokens :
    owner[t] \in Emails /\ ~raced[owner[t]] => openedBy[t] = password[owner[t]]

(* A browser that still sends the token of a session that has run out      *)
(* drops it within a Tick: the cookie's MaxAge starts with the answer, at  *)
(* most a Tick after expires_at was set, and extensions only put the       *)
(* session's end off.                                                      *)
CookiesRunOut ==
  \A b \in Browsers, t \in Tokens :
    cookie[b] = t /\ Expired(t) => cookieAge[b] + 1 >= CookieLife

(* A hash is replaced by a hash of another password only by a change whose *)
(* request has verified the current password: neither the login's rehash   *)
(* nor a change that verified something older does it, unless raced.       *)
OnlyTheOwnerChanges ==
  [][\A e \in Emails :
       password[e] # None /\ password'[e] # password[e] /\ ~raced[e] =>
         \E r \in Requests :
           /\ req[r].at = "changing" /\ req[r].email = e
           /\ req[r].given = password[e] /\ req[r].wanted = password'[e]]_vars

(* A session that was deleted, by a logout, a change of password or the    *)
(* sweeper, never opens again, whoever has read it before: ExtendSession   *)
(* updates, and never inserts.  Nor does one that has run out, though the  *)
(* statement looks at no expiry: from a Tick after its end, nobody who has *)
(* read it alive is still there to extend it.                              *)
GoneForGood ==
  [][\A t \in Tokens :
       owner[t] = "ended" \/ (owner[t] \in Emails /\ age[t] > TTL) => ~Live(t)']_vars

(* Whoever signed in stays signed in: a session that has not expired goes  *)
(* only by a logout with its token or a change of its user's password, and *)
(* never by the sweeper or the refused request of someone else.            *)
LiveSessionsAreKept ==
  [][\A t \in Tokens :
       Live(t) /\ owner'[t] = "ended" =>
         \E r \in Requests :
           \/ req[r].at = "leaving" /\ req[r].token = t
           \/ req[r].at = "changing" /\ req[r].email = owner[t]
                /\ (~raced[owner[t]] => req[r].given = openedBy[t])]_vars

(* auth.go: Setup "fails once any user exists".                            *)
SetupHappensOnce ==
  \A e, f \in Emails : password[e] # None /\ password[f] # None => e = f

(* What a caller has shown by the stage its request is at. *)
Standing ==
  [stage \in Stage |->
     CASE stage \in {"setup", "creating", "login"} -> "claiming"
       [] stage \in {"rehashing", "opening"} -> "proven"
       [] stage = "sent" -> "showing"
       [] stage = "leaving" -> "leaving"
       [] stage = "extending" -> "renewing"
       [] stage = "admitted" -> "admitted"
       [] stage = "changing" -> "entitled"
       [] OTHER -> "out"]

(* Once its answer is written, a request is over for the server. *)
CallOf(q) ==
  LET shown == IF q.at \in {"idle", "answering"} THEN Idle ELSE q IN
  [at |-> Standing[q.at], user |-> shown.email, secret |-> shown.given,
   wish |-> shown.wanted, token |-> shown.token]

Calls == [r \in Requests |-> CallOf(req[r])]

(* The sessions that have run out and are still there. *)
Lapsed == {t \in Tokens : owner[t] \in Emails /\ ~Live(t)}

(* Accounts and sessions are a door that opens for tokens. *)
Door == INSTANCE AccessControl
          WITH Users <- Emails, Secrets <- Passwords, Callers <- Requests,
               secret <- password, access <- owner, lapsed <- Lapsed, call <- Calls

(* Overlapping requests, abandoned halfway, do no more than such calls do: *)
(* a handler acts only for the user its token opened for during the        *)
(* request, a session is opened only on a password that was right during   *)
(* the request, a change ends every session of its user at once, no ended  *)
(* session opens again, and one that has run out does so only when a       *)
(* request that was let in with it while it lived extends it.              *)
ImplementsAccessControl == Door!Spec
=================================================================================
