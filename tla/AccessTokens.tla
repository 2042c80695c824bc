---------------------------- MODULE AccessTokens ----------------------------
(***************************************************************************)
(* The access tokens: IssueAccessToken signs them, middleware.Auth lets    *)
(* requests in by them, Logout blacklists one, and CleanupExpiredTokens    *)
(* sweeps the token_blacklist table (internal/db/tokens.go) every 15       *)
(* minutes.  A token is known by its jti; a signature nobody forges makes  *)
(* the claims of a jti a fact.                                             *)
(*                                                                         *)
(* Go compares a token's expiry with its own clock, Postgres compares the  *)
(* blacklist row's with NOW(): Ahead is how far the database's clock is    *)
(* ahead (less than 0: behind).                                            *)
(***************************************************************************)
EXTENDS Integers

CONSTANTS Users,      \* primary keys of the users table
          Jtis,       \* token ids that can be drawn
          Requests,   \* concurrent HTTP requests
          AccessTTL,  \* Config.AccessTTL, in ticks
          Ahead,      \* the database's clock minus the server's
          MaxTime,    \* bound: last instant of the clock
          None        \* no token, no row

ASSUME ClockAssumption == AccessTTL \in Nat /\ Ahead \in Int /\ MaxTime \in Nat

VARIABLES now,        \* the server's clock
          exists,     \* the accounts in the users table
          claims,     \* the tokens signed so far
          blacklist,  \* the token_blacklist table
          req,        \* the requests
          loggedOut   \* history: the tokens whose logout was answered 204

vars == <<now, exists, claims, blacklist, req, loggedOut>>

Claims == [user : Users, expiresAt : Nat]
Routes == {"api", "logout"}

ASSUME NoneAssumption == None \notin Claims

\* late records whether the token had been logged out when the request came.
Request == [pc : {"idle"}] \cup
           [pc : {"login"}, user : Users] \cup
           [pc : {"parsed", "admitted"}, jti : Jtis, route : Routes, late : BOOLEAN]

TypeOK ==
  /\ now \in Nat
  /\ exists \subseteq Users
  /\ claims \in [Jtis -> Claims \cup {None}]
  /\ blacklist \in [Jtis -> Claims \cup {None}]
  /\ req \in [Requests -> Request]
  /\ loggedOut \subseteq Jtis

-----------------------------------------------------------------------------
dbNow == now + Ahead

Signed(j) == claims[j] # None
Listed(j) == blacklist[j] # None

Idle == [pc |-> "idle"]
Done(r) == req' = [req EXCEPT ![r] = Idle]

\* Signup, Login, DemoLogin or OpaqueRefresh reads the account ...
ReadAccount(r, u) ==
  /\ req[r] = Idle
  /\ u \in exists
  /\ req' = [req EXCEPT ![r] = [pc |-> "login", user |-> u]]
  /\ UNCHANGED <<now, exists, claims, blacklist, loggedOut>>

\* Mutant of Expiry: ExpiresAt is left out of the claims.
NoExpiry == None

Expiry == now + AccessTTL

\* ... and signs a token for it, whatever became of the account meanwhile.
\* Bound: only tokens the clock outlives.
IssueAccessToken(r, j) ==
  /\ req[r].pc = "login"
  /\ ~Signed(j)
  /\ now + AccessTTL < MaxTime
  /\ claims' = [claims EXCEPT ![j] = [user |-> req[r].user,
                                      expiresAt |-> Expiry]]
  /\ Done(r)
  /\ UNCHANGED <<now, exists, blacklist, loggedOut>>

\* Signing fails, or the request is given up.
IssueFails(r) ==
  /\ req[r].pc = "login"
  /\ Done(r)
  /\ UNCHANGED <<now, exists, claims, blacklist, loggedOut>>

-----------------------------------------------------------------------------
(* middleware.Auth.                                                        *)

\* jwt.ParseWithClaims: signature, expiry, jti, sub and role.  An expired
\* token is answered 401 and changes nothing.
ParseWithClaims(r, j, route) ==
  /\ req[r] = Idle
  /\ Signed(j)
  /\ now < claims[j].expiresAt
  /\ req' = [req EXCEPT ![r] = [pc |-> "parsed", jti |-> j, route |-> route,
                                late |-> j \in loggedOut]]
  /\ UNCHANGED <<now, exists, claims, blacklist, loggedOut>>

\* SELECT ... WHERE jti = $1 AND expires_at > NOW()
IsTokenBlacklisted(j) == Listed(j) /\ blacklist[j].expiresAt > dbNow

Admit(r) ==
  /\ req[r].pc = "parsed"
  /\ ~IsTokenBlacklisted(req[r].jti)
  /\ req' = [req EXCEPT ![r].pc = "admitted"]
  /\ UNCHANGED <<now, exists, claims, blacklist, loggedOut>>

\* 401 for a blacklisted token, 500 when the query fails: no one is let in.
TurnAway(r) ==
  /\ req[r].pc = "parsed"
  /\ Done(r)
  /\ UNCHANGED <<now, exists, claims, blacklist, loggedOut>>

\* Any handler but Logout: nothing here changes.
Serve(r) ==
  /\ req[r].pc = "admitted" /\ req[r].route = "api"
  /\ Done(r)
  /\ UNCHANGED <<now, exists, claims, blacklist, loggedOut>>

-----------------------------------------------------------------------------
(* Logout, and what else happens to the table.                             *)

\* Mutant of Row: the row gets the time of the logout for its expiry.
RowUntilNow(j) == [claims[j] EXCEPT !.expiresAt = now]

Row(j) == claims[j]

\* INSERT ... ON CONFLICT (jti) DO UPDATE; the user must exist.
BlacklistToken(r) ==
  LET j == req[r].jti IN
  /\ req[r].pc = "admitted" /\ req[r].route = "logout"
  /\ claims[j].user \in exists
  /\ blacklist' = [blacklist EXCEPT ![j] = Row(j)]
  /\ loggedOut' = loggedOut \cup {j}
  /\ Done(r)
  /\ UNCHANGED <<now, exists, claims>>

\* 500: the account is gone (foreign key), or the statement reports an error
\* with or without having been applied.
BlacklistError(r) ==
  LET j == req[r].jti IN
  /\ req[r].pc = "admitted" /\ req[r].route = "logout"
  /\ \/ UNCHANGED blacklist
     \/ claims[j].user \in exists /\ blacklist' = [blacklist EXCEPT ![j] = Row(j)]
  /\ Done(r)
  /\ UNCHANGED <<now, exists, claims, loggedOut>>

\* Mutant of Swept: the comparison is turned round.
SweptEarly(j) == Listed(j) /\ blacklist[j].expiresAt > dbNow

\* DELETE ... WHERE expires_at < NOW()
Swept(j) == Listed(j) /\ blacklist[j].expiresAt < dbNow

CleanupExpiredTokens ==
  /\ \E j \in Jtis : Swept(j)
  /\ blacklist' = [j \in Jtis |-> IF Swept(j) THEN None ELSE blacklist[j]]
  /\ UNCHANGED <<now, exists, claims, req, loggedOut>>

\* db.DeleteUser; token_blacklist.user_id is ON DELETE CASCADE.
DeleteUser(u) ==
  /\ u \in exists
  /\ exists' = exists \ {u}
  /\ blacklist' = [j \in Jtis |-> IF Listed(j) /\ blacklist[j].user = u
                                  THEN None ELSE blacklist[j]]
  /\ UNCHANGED <<now, claims, req, loggedOut>>

Tick ==
  /\ now < MaxTime
  /\ now' = now + 1
  /\ UNCHANGED <<exists, claims, blacklist, req, loggedOut>>

-----------------------------------------------------------------------------
Init ==
  /\ now = 0
  /\ exists = Users
  /\ claims = [j \in Jtis |-> None]
  /\ blacklist = [j \in Jtis |-> None]
  /\ req = [r \in Requests |-> Idle]
  /\ loggedOut = {}

Advance(r) ==
  \/ IssueFails(r)
  \/ Admit(r)
  \/ TurnAway(r)
  \/ Serve(r)
  \/ BlacklistToken(r)
  \/ BlacklistError(r)

Next ==
  \/ \E r \in Requests, u \in Users : ReadAccount(r, u)
  \/ \E r \in Requests, j \in Jtis :
        \/ IssueAccessToken(r, j)
        \/ \E route \in Routes : ParseWithClaims(r, j, route)
  \/ \E r \in Requests : Advance(r)
  \/ \E u \in Users : DeleteUser(u)
  \/ CleanupExpiredTokens
  \/ Tick

Spec == Init /\ [][Next]_vars

\* The clock runs, the ticker fires every 15 minutes and, of the statements it
\* sends, not all fail; the request context ends every request.
FairSpec == Spec /\ WF_vars(Tick) /\ WF_vars(CleanupExpiredTokens)
                 /\ \A r \in Requests : WF_vars(Advance(r))

-----------------------------------------------------------------------------
(* What logging out promises.                                              *)

\* handlers/auth.go:235: a request that arrives with a token already logged
\* out gets past Auth only when the database's clock is past the token's
\* expiry by the time the blacklist is asked, or the account was deleted, and
\* its rows with it.
LogoutHolds ==
  \A r \in Requests : req[r].pc = "admitted" /\ req[r].late =>
     LET c == claims[req[r].jti] IN dbNow >= c.expiresAt \/ c.user \notin exists

\* main.go:54 "avoid unbounded growth": no revocation stays in the table for
\* ever, not even one a slow logout stores after its token expired.
BlacklistEmpties == \A j \in Jtis : Listed(j) ~> ~Listed(j)

\* The inductive invariant: a logged-out token is in the table as long as it
\* matters.
RowsAreClaims == \A j \in Jtis : Listed(j) => blacklist[j] = claims[j]
LateIsLoggedOut ==
  \A r \in Requests : req[r].pc \in {"parsed", "admitted"} =>
     /\ Signed(req[r].jti)
     /\ req[r].late => req[r].jti \in loggedOut
LoggedOutListed ==
  \A j \in loggedOut :
     /\ Signed(j)
     /\ Listed(j) \/ claims[j].expiresAt <= dbNow \/ claims[j].user \notin exists

IInv ==
  /\ TypeOK
  /\ RowsAreClaims
  /\ LateIsLoggedOut
  /\ LoggedOutListed
  /\ LogoutHolds
=============================================================================
