------------------------------ MODULE Accounts ------------------------------
(***************************************************************************)
(* The handlers of handlers/auth.go and profile_crud.go that open, renew   *)
(* and end sessions, composed of the statements of RefreshTokens, the      *)
(* users.pw column and the browsers' refresh cookies.  A handler is one    *)
(* request running one statement at a time; everything else runs in        *)
(* between.  Access tokens are AccessTokens' matter: a request here has    *)
(* passed middleware.Auth where its route asks for it.                     *)
(*                                                                         *)
(* A password is known by its number: 0 the first, then one more for each  *)
(* change.  A browser is its device fingerprint.                           *)
(***************************************************************************)
EXTENDS RefreshTokens

CONSTANTS Tabs,        \* may one browser have several requests under way?
          Lossy,       \* may a response be lost?
          MaxChanges   \* bound: changes of one password

ASSUME NetworkAssumption == Tabs \in BOOLEAN /\ Lossy \in BOOLEAN
ASSUME ChangesAssumption == MaxChanges \in Nat
ASSUME KeepAssumption == "keep" \notin Tokens \cup {NoToken}

VARIABLES password,  \* users.pw
          cookie,    \* each browser's refreshToken cookie
          task,      \* the handlers under way
          opened,    \* history: how a session was opened
          signedOut, \* history: the password whose change revoked last
          late,      \* history: the requests a change's revocation overtook
          raced,     \* history: the sessions such a request stored a token of,
                     \* until another change's revocation ends them
          missed     \* history: the browsers that lost a response with a cookie,
                     \* until the next one arrives

log == <<opened, signedOut, late, raced, missed>>
accountsVars == <<vars, password, cookie, task, log>>

\* pw: the number of the password the request checked or has set.
Steps == {"login", "demo", "store", "revoke", "fresh", "delete"}
Task == [pc : {"none"}] \cup
        [pc : Steps, device : Devices, user : Users, pw : Nat] \cup
        [pc : {"refresh", "logout"}, device : Devices] \cup
        [pc : {"answer"}, device : Devices, set : Tokens \cup {NoToken, "keep"}]

AccountsTypeOK ==
  /\ TypeOK
  /\ password \in [Users -> Nat]
  /\ cookie \in [Devices -> Tokens \cup {NoToken}]
  /\ task \in [Requests -> Task]
  /\ opened \in [Tokens -> [pw : Nat, by : {"none", "login", "demo", "change"}]]
  /\ signedOut \in [Users -> Nat]
  /\ late \subseteq Requests
  /\ raced \subseteq Tokens
  /\ missed \subseteq Devices

-----------------------------------------------------------------------------
Exists(u) == role[u] # "gone"
Doing(r, pc) == task[r].pc = pc

\* A request of browser b can begin.
Ready(r, b) ==
  /\ Doing(r, "none")
  /\ ~Tabs => \A q \in Requests : ~Doing(q, "none") => task[q].device # b

Accept(r, b, u, pc) ==
  task' = [task EXCEPT ![r] = [pc |-> pc, device |-> b, user |-> u,
                               pw |-> password[u]]]
Goto(r, pc, pw) ==
  task' = [task EXCEPT ![r] = [pc |-> pc, device |-> task[r].device,
                               user |-> task[r].user, pw |-> pw]]
\* The response sets cookie c, clears it (NoToken) or leaves it ("keep").
Answer(r, c) ==
  task' = [task EXCEPT ![r] = [pc |-> "answer", device |-> task[r].device, set |-> c]]

\* ComputeDeviceFingerprint: no two of these browsers hash to the same.
Fingerprint(b) == b

\* A session is about to be opened.
Opening == {"login", "demo", "revoke", "fresh"}

\* Bound: a request begins only while there is a raw token for each that may
\* store one.
Storing(r) == Rotating(r) \/ task[r].pc \in Opening \cup {"store"}
Room == Cardinality({n \in Tokens : Fresh(n)}) >
        Cardinality({r \in Requests : Storing(r)})

\* The session a request of user u is about to store, if it is.
InFlight(r, u) ==
  \/ task[r].pc \in Opening /\ task[r].user = u
  \/ Rotating(r) /\ call[r].row.user = u

\* A request stores a session's next token.
Record(r, f) ==
  /\ raced' = IF r \in late THEN raced \cup {f} ELSE raced
  /\ late' = late \ {r}
  /\ UNCHANGED <<signedOut, missed>>

-----------------------------------------------------------------------------
(* setRefreshCookieIfAvailable, setDemoRefreshCookie.                      *)

\* CreateRefreshToken (or ...Until) of token n.  A caller that hears of an
\* error logs it and answers without a cookie, stored or not.
Store(r, n, by) ==
  LET k == task[r] IN
  /\ IF by = "demo" THEN CreateDemoToken(k.user, Fingerprint(k.device), n)
                    ELSE CreateRefreshToken(k.user, Fingerprint(k.device), n)
  /\ opened' = [opened EXCEPT ![n] = [pw |-> k.pw, by |-> by]]
  /\ Record(r, n)
  /\ Answer(r, IF n \in issued' THEN n ELSE "keep")
  /\ UNCHANGED <<password, cookie>>

\* The INSERT fails.
StoreFails(r) ==
  /\ task[r].pc \in {"login", "demo", "fresh"}
  /\ "lost" \in Faults \/ ~Exists(task[r].user)
  /\ late' = late \ {r}
  /\ Answer(r, "keep")
  /\ UNCHANGED <<vars, password, cookie, opened, signedOut, raced, missed>>

-----------------------------------------------------------------------------
(* Login and DemoLogin.                                                    *)

\* GetUserByEmail and CompareHashAndPassword: the password is right now.  A
\* wrong one, or no such user, is answered 401 and changes nothing.
LoginCheck(r, b, u) ==
  /\ Ready(r, b)
  /\ Room
  /\ Exists(u)
  /\ Accept(r, b, u, "login")
  /\ UNCHANGED <<vars, password, cookie, log>>

LoginStore(r, n) == Doing(r, "login") /\ Store(r, n, "login")

DemoCheck(r, b, u) ==
  /\ Ready(r, b)
  /\ Room
  /\ role[u] = "demo"
  /\ Accept(r, b, u, "demo")
  /\ UNCHANGED <<vars, password, cookie, log>>

DemoStore(r, n) == Doing(r, "demo") /\ Store(r, n, "demo")

-----------------------------------------------------------------------------
(* UpdateProfilePassword; RequireRole lets role user in only.              *)

\* Bound: MaxChanges changes of a password at most, those under way included.
MayChange(u) ==
  password[u] + Cardinality({r \in Requests : Doing(r, "store") /\ task[r].user = u})
    < MaxChanges

ChangeCheck(r, b, u) ==
  /\ Ready(r, b)
  /\ Room
  /\ role[u] = "user"
  /\ MayChange(u)
  /\ Accept(r, b, u, "store")
  /\ UNCHANGED <<vars, password, cookie, log>>

\* UpdateUserPassword, whatever the password has become since the check.
ChangeStore(r) ==
  LET u == task[r].user IN
  /\ Doing(r, "store")
  /\ Exists(u)
  /\ password' = [password EXCEPT ![u] = @ + 1]
  /\ Goto(r, "revoke", password[u] + 1)
  /\ UNCHANGED <<vars, cookie, log>>

\* 500: no such user any more, or the statement reports an error.
ChangeStoreFails(r) ==
  LET u == task[r].user IN
  /\ Doing(r, "store")
  /\ \/ ("lost" \in Faults \/ ~Exists(u)) /\ UNCHANGED password
     \/ /\ "applied" \in Faults /\ Exists(u)
        /\ password' = [password EXCEPT ![u] = @ + 1]
  /\ Answer(r, "keep")
  /\ UNCHANGED <<vars, cookie, log>>

\* The requests that a revocation of u's tokens overtakes.
Overtaken(r, u) == {q \in Requests \ {r} : InFlight(q, u)}

\* Mutant of SignOut: only the sessions of this browser are revoked.
SignOutHere(r) ==
  /\ rows' = [n \in Tokens |->
                 IF Stored(n) /\ rows[n].device = task[r].device
                 THEN [rows[n] EXCEPT !.revoked = TRUE] ELSE rows[n]]
  /\ UNCHANGED <<now, role, call, history>>

SignOut(r) == RevokeAllForUser(task[r].user)

\* refreshSvc.RevokeAllForUser.
ChangeRevoke(r) ==
  LET u == task[r].user IN
  /\ Doing(r, "revoke")
  /\ SignOut(r)
  /\ signedOut' = [signedOut EXCEPT ![u] = IF task[r].pw > @ THEN task[r].pw ELSE @]
  /\ late' = late \cup Overtaken(r, u)
  /\ raced' = raced \ {family[n] : n \in {m \in Tokens : Live(m) /\ rows[m].user = u}}
  /\ Goto(r, "fresh", task[r].pw)
  /\ UNCHANGED <<password, cookie, opened, missed>>

\* Mutant of ChangeRevokeFails: the error is logged and the change goes on.
ChangeRevokeLogged(r) ==
  /\ Doing(r, "revoke")
  /\ "lost" \in Faults
  /\ Goto(r, "fresh", task[r].pw)
  /\ UNCHANGED <<vars, password, cookie, log>>

\* 500: the password is changed, the tokens may or may not be revoked.
ChangeRevokeFails(r) ==
  /\ Doing(r, "revoke")
  /\ \/ "lost" \in Faults /\ UNCHANGED vars
     \/ "applied" \in Faults /\ SignOut(r)
  /\ late' = late \ {r}
  /\ Answer(r, "keep")
  /\ UNCHANGED <<password, cookie, opened, signedOut, raced, missed>>

ChangeFresh(r, n) == Doing(r, "fresh") /\ Store(r, n, "change")

-----------------------------------------------------------------------------
(* DeleteAccount.                                                          *)

DeleteCheck(r, b, u) ==
  /\ Ready(r, b)
  /\ role[u] = "user"
  /\ Accept(r, b, u, "delete")
  /\ UNCHANGED <<vars, password, cookie, log>>

DeleteRun(r) ==
  /\ Doing(r, "delete")
  /\ DeleteUser(task[r].user)
  /\ Answer(r, NoToken)
  /\ UNCHANGED <<password, cookie, log>>

DeleteFails(r) ==
  /\ Doing(r, "delete")
  /\ \/ ("lost" \in Faults \/ ~Exists(task[r].user)) /\ UNCHANGED vars
     \/ "applied" \in Faults /\ DeleteUser(task[r].user)
  /\ Answer(r, "keep")
  /\ UNCHANGED <<password, cookie, log>>

-----------------------------------------------------------------------------
(* OpaqueRefresh and Logout: a call of the service with the cookie.         *)

Send(r, b, pc) ==
  /\ Ready(r, b)
  /\ cookie[b] # NoToken
  /\ task' = [task EXCEPT ![r] = [pc |-> pc, device |-> b]]
  /\ UNCHANGED <<password, cookie, log>>

RefreshCall(r, b) ==
  /\ Send(r, b, "refresh")
  /\ \/ Room /\ RotateClaim(r, cookie[b], Fingerprint(b))
     \/ RotateMiss(r, cookie[b], Fingerprint(b))
     \/ RotateClaimError(r, cookie[b], Fingerprint(b))

\* Logout, once the access token is blacklisted.
LogoutCall(r, b) ==
  /\ Send(r, b, "logout")
  /\ RevokeLookup(r, cookie[b], Fingerprint(b))

\* The call goes on: the steps that store no token ...
CallStep(r) ==
  /\ \/ RotateLookup(r)
     \/ RotateReplay(r)
     \/ RotateMismatch(r)
     \/ RotateRole(r)
     \/ RotateInsertExpired(r)
     \/ ReadError(r)
     \/ RevokeByID(r)
  /\ late' = IF Rotating(r)' THEN late ELSE late \ {r}
  /\ UNCHANGED <<password, cookie, task, opened, signedOut, raced, missed>>

\* ... and the one that stores, or may store, the replacement.
CallStore(r) ==
  /\ \/ \E n \in Tokens : RotateInsert(r, n)
     \/ RotateInsertError(r)
  /\ Record(r, family[call[r].token])
  /\ UNCHANGED <<password, cookie, task, opened>>

\* Mutant of CookieOf: the response does not carry the new token.
CookieForgotten(r) == IF Doing(r, "refresh") /\ call[r].pc = "ok" THEN "keep" ELSE NoToken

\* setRefreshCookie with the token that replaced the one sent, or
\* clearRefreshCookie.
CookieOf(r) == IF Doing(r, "refresh") /\ call[r].pc = "ok"
               THEN CHOOSE n \in Tokens : parent[n] = call[r].token
               ELSE NoToken

CallReturns(r) ==
  /\ task[r].pc \in {"refresh", "logout"}
  /\ Answer(r, CookieOf(r))
  /\ Reply(r)
  /\ UNCHANGED <<password, cookie, log>>

\* The cookies once browser b got a response.
SetCookie(b, c) == IF c = "keep" THEN cookie ELSE [cookie EXCEPT ![b] = c]

\* The browser a response to r is for, if it sets or clears the cookie.
Addressee(r) == {b \in {task[r].device} : task[r].set # "keep"}

\* The response arrives, or is lost on the way.
Deliver(r) ==
  /\ Doing(r, "answer")
  /\ \/ /\ cookie' = SetCookie(task[r].device, task[r].set)
        /\ missed' = missed \ Addressee(r)
     \/ /\ Lossy
        /\ missed' = missed \cup Addressee(r)
        /\ UNCHANGED cookie
  /\ task' = [task EXCEPT ![r] = [pc |-> "none"]]
  /\ UNCHANGED <<vars, password, opened, signedOut, late, raced>>

ClockTick == Tick /\ UNCHANGED <<password, cookie, task, log>>

-----------------------------------------------------------------------------
AccountsInit ==
  /\ Init
  /\ password = [u \in Users |-> 0]
  /\ cookie = [b \in Devices |-> NoToken]
  /\ task = [r \in Requests |-> [pc |-> "none"]]
  /\ opened = [n \in Tokens |-> [pw |-> 0, by |-> "none"]]
  /\ signedOut = [u \in Users |-> 0]
  /\ late = {}
  /\ raced = {}
  /\ missed = {}

Receive(r, b) ==
  \/ \E u \in Users : \/ LoginCheck(r, b, u)
                      \/ DemoCheck(r, b, u)
                      \/ ChangeCheck(r, b, u)
                      \/ DeleteCheck(r, b, u)
  \/ RefreshCall(r, b)
  \/ LogoutCall(r, b)

Proceed(r) ==
  \/ \E n \in Tokens : LoginStore(r, n) \/ DemoStore(r, n) \/ ChangeFresh(r, n)
  \/ StoreFails(r)
  \/ ChangeStore(r)
  \/ ChangeStoreFails(r)
  \/ ChangeRevoke(r)
  \/ ChangeRevokeFails(r)
  \/ DeleteRun(r)
  \/ DeleteFails(r)
  \/ CallStep(r)
  \/ CallStore(r)
  \/ CallReturns(r)
  \/ Deliver(r)

AccountsNext ==
  \/ \E r \in Requests : Proceed(r) \/ \E b \in Devices : Receive(r, b)
  \/ ClockTick

AccountsSpec == AccountsInit /\ [][AccountsNext]_accountsVars

-----------------------------------------------------------------------------
(* What the handlers promise.                                              *)

\* Session f was opened with an earlier password than the last change of u's
\* that revoked the tokens has set.
Outdated(f, u) == opened[f].pw < signedOut[u]

\* profile_crud.go:102 "Sign out every other session": a session opened with
\* an earlier password still works after a change of password revoked the
\* tokens only if its login, or a rotation of it, was under way just then.
OldSessionsEnd ==
  \A n \in Tokens : Live(n) /\ Outdated(family[n], rows[n].user) => family[n] \in raced

\* profile_crud.go:105: a change that went on to give its caller a fresh session
\* has ended every session of an earlier password, whichever of its statements
\* failed or applied unheard, but for those it raced.
ChangeEndsSessions ==
  \A n, m \in Tokens :
     /\ Stored(n) /\ opened[n].by = "change"
     /\ Live(m) /\ rows[m].user = rows[n].user
     /\ opened[family[m]].pw < opened[n].pw
     => family[m] \in raced

Succeeded(t) == \E n \in Tokens : parent[n] = t

\* The response to r will replace or clear the cookie.
Renewing(r) == \/ Doing(r, "refresh") /\ call[r].pc \in {"ok", "error"}
               \/ Doing(r, "answer") /\ task[r].set # "keep"

\* service.go:141: a tab or a retry presents a token that its own browser has
\* rotated, and is taken for a thief, only while a response that replaces the
\* cookie is on its way to that browser, or after one was lost.
RotatedIsRenewed ==
  \A b \in Devices : cookie[b] # NoToken /\ Succeeded(cookie[b]) =>
     b \in missed \/ \E r \in Requests : Renewing(r) /\ task[r].device = b

\* A browser that sends one request at a time and receives every response
\* never presents a token that was rotated: what looks like a replay is then
\* the token of a session that something else ended.
HonestReplayIsFalseAlarm ==
  ~Tabs /\ ~Lossy =>
    \A r \in Requests : At(r, "replay") =>
       \A n \in Tokens : parent[n] # call[r].token

\* auth.go:256: a logout that has revoked its token ended the session.  Only a
\* token that another tab, or a response that was lost, has rotated before or
\* is rotating leaves it alive.
LogoutEndsSession ==
  \A r \in Requests : Doing(r, "logout") /\ At(r, "ok") =>
    LET t == call[r].token IN
    \/ ~Held(family[t]) /\ ~Exchanged(family[t])
    \/ /\ Tabs \/ Lossy
       /\ Succeeded(t) \/ \E q \in Requests : Rotating(q) /\ call[q].token = t

-----------------------------------------------------------------------------
(* The inductive invariant behind OldSessionsEnd, together with the        *)
(* service's own IInv.                                                     *)

\* A call of the service belongs to a request that made it.
CallsHaveTasks ==
  \A r \in Requests : call[r].pc # "idle" => task[r].pc \in {"refresh", "logout"}

\* Nobody has signed out, checked or set a password that is yet to come.
PasswordsGrow ==
  /\ \A u \in Users : signedOut[u] <= password[u]
  /\ \A r \in Requests : task[r].pc \in Steps => task[r].pw <= password[task[r].user]

\* A request about to store a token of an outdated session was overtaken.
OvertakenKnown ==
  \A r \in Requests :
    /\ task[r].pc \in Opening /\ task[r].pw < signedOut[task[r].user] => r \in late
    /\ Rotating(r) /\ Outdated(family[call[r].token], call[r].row.user)
       => r \in late \/ family[call[r].token] \in raced

\* Only a logout revokes by ID, and a refresh that succeeded has a new token.
CallsFit ==
  \A r \in Requests :
    /\ call[r].pc = "revoke" => task[r].pc = "logout"
    /\ call[r].pc = "ok" /\ task[r].pc = "refresh" =>
         \E n \in Tokens : parent[n] = call[r].token

\* A change gives its caller a session only when its revocation went well.
ChangesRevoked ==
  /\ \A r \in Requests : Doing(r, "fresh") => task[r].pw <= signedOut[task[r].user]
  /\ \A n \in Tokens : Fresh(n) => opened[n].by = "none"
  /\ \A n \in Tokens : Stored(n) /\ opened[n].by = "change" =>
       opened[n].pw <= signedOut[rows[n].user]

AccountsInv ==
  /\ AccountsTypeOK
  /\ CallsHaveTasks
  /\ PasswordsGrow
  /\ OvertakenKnown
  /\ OldSessionsEnd

\* The tokens the response to r carries, or will carry.
Granted(r) ==
  {t \in Tokens : \/ Doing(r, "answer") /\ task[r].set = t
                  \/ Doing(r, "refresh") /\ At(r, "ok") /\ parent[t] = call[r].token}

\* Token t was generated for browser b.
BelongsTo(t, b) == ~Fresh(t) /\ (Stored(t) => rows[t].device = b)

\* What browser b has, is sent or waits for.
Keeps(b) == {t \in Tokens : \/ cookie[b] = t
                            \/ \E r \in Requests : t \in Granted(r) /\ task[r].device = b}

\* That is its own: generated for it, and for no other browser.
CookiesFit ==
  /\ \A b, c \in Devices : \A t \in Tokens : t \in Keeps(b) /\ t \in Keeps(c) => b = c
  /\ \A b \in Devices : cookie[b] # NoToken => BelongsTo(cookie[b], b)
  /\ \A r \in Requests : \A t \in Granted(r) : BelongsTo(t, task[r].device)
  /\ \A r \in Requests :
       Rotating(r) => Doing(r, "refresh") /\ call[r].device = task[r].device

\* Without tabs a browser waits for its answer, so the token it sent is still
\* its cookie.
OneRequestEach ==
  /\ \A q, r \in Requests :
       ~Doing(q, "none") /\ ~Doing(r, "none") /\ task[q].device = task[r].device => q = r
  /\ \A r \in Requests : task[r].pc \in {"refresh", "logout"} =>
       call[r].token = cookie[task[r].device]

\* A call presents a token.
Calling(r) == call[r].pc # "idle"

\* Nobody has, presents or is sent a token that is on its way to a browser.
GrantsAreNew ==
  \A r \in Requests : \A t \in Granted(r) :
    /\ ~Succeeded(t)
    /\ \A b \in Devices : cookie[b] # t
    /\ \A q \in Requests : Calling(q) => call[q].token # t
    /\ \A q \in Requests \ {r} : t \notin Granted(q)

\* Nobody has the cookie that another browser presents.
SentIsOwn ==
  \A q \in Requests : \A b \in Devices :
    Calling(q) /\ call[q].token = cookie[b] => task[q].device = b

CookiesInv ==
  /\ CookiesFit
  /\ GrantsAreNew
  /\ SentIsOwn
  /\ RotatedIsRenewed
  /\ ~Tabs => OneRequestEach
  /\ ~Lossy => missed = {}

\* A session lives in its one token that has no successor.
LastIsAlone ==
  \A t \in Tokens : Minted(t) /\ ~Succeeded(t) =>
    /\ \A n \in Tokens : Live(n) /\ family[n] = family[t] => n = t
    /\ \A q \in Requests : Rotating(q) /\ family[call[q].token] = family[t]
         => call[q].token = t

\* The token of a logout that went well does not work any more.
LogoutsRevoked ==
  \A r \in Requests : Doing(r, "logout") /\ At(r, "ok") => ~Live(call[r].token)

\* The inductive invariant behind RotatedIsRenewed, HonestReplayIsFalseAlarm and
\* LogoutEndsSession.
BrowsersInv == CookiesInv /\ LastIsAlone /\ LogoutsRevoked

-----------------------------------------------------------------------------
(* What a comment says of the handlers and the handlers do not do.         *)

\* profile_crud.go:103 "give this browser a fresh one so the caller stays
\* logged in": until the next change, a browser that sends nothing else keeps
\* a working cookie.
CallerStaysLoggedIn ==
  \A b \in Devices :
    LET t == cookie[b] IN
    /\ t # NoToken /\ Stored(t)
    /\ opened[t] = [pw |-> password[rows[t].user], by |-> "change"]
    /\ \A r \in Requests : ~Doing(r, "none") => task[r].device # b
    => Live(t)
=============================================================================
