------------------------- MODULE AccessTokensProofs -------------------------
(* What AccessTokens promises, proved for any number of accounts, tokens   *)
(* and requests and any difference between the two clocks.                 *)
EXTENDS AccessTokens, TLAPS

LEMMA InitEstablishes == Init => IInv
<1> SUFFICES ASSUME Init PROVE IInv
  OBVIOUS
<1>1. TypeOK
  BY DEF Init, TypeOK, Request, Idle
<1>2. RowsAreClaims
  BY NoneAssumption DEF Init, RowsAreClaims, Listed
<1>3. LateIsLoggedOut /\ LoggedOutListed /\ LogoutHolds
  BY DEF Init, LateIsLoggedOut, LoggedOutListed, LogoutHolds, Idle
<1> QED
  BY <1>1, <1>2, <1>3 DEF IInv

-----------------------------------------------------------------------------
(* One lemma per kind of step.                                             *)

\* A request that is given up, answered, or starts by reading the account:
\* the tokens and the table stay as they are.
LEMMA AnsweringKeeps ==
  ASSUME IInv,
         UNCHANGED <<now, exists, claims, blacklist, loggedOut>>,
         NEW r \in Requests,
         NEW q \in [pc : {"idle"}] \cup [pc : {"login"}, user : Users],
         req' = [req EXCEPT ![r] = q]
  PROVE  IInv'
<1> USE DEF IInv
<1>1. TypeOK'
  BY DEF TypeOK, Request
<1>2. RowsAreClaims'
  BY DEF RowsAreClaims, Listed
<1>3. \A s \in Requests : req'[s].pc \in {"parsed", "admitted"} => req'[s] = req[s]
  <2> TAKE s \in Requests
  <2>1. CASE s = r
    BY <2>1 DEF TypeOK
  <2>2. CASE s # r
    BY <2>2 DEF TypeOK
  <2> QED
    BY <2>1, <2>2
<1>4. LateIsLoggedOut'
  BY <1>3 DEF LateIsLoggedOut, Signed
<1>5. LoggedOutListed'
  BY DEF LoggedOutListed, Signed, Listed, dbNow
<1>6. LogoutHolds'
  BY <1>3 DEF LogoutHolds, dbNow
<1> QED
  BY <1>1, <1>2, <1>4, <1>5, <1>6

LEMMA IssueKeeps ==
  ASSUME IInv, NEW r \in Requests, NEW j \in Jtis, IssueAccessToken(r, j)
  PROVE  IInv'
<1> USE DEF IInv
<1> DEFINE c == [user |-> req[r].user, expiresAt |-> Expiry]
<1>1. /\ ~Signed(j)
      /\ claims' = [claims EXCEPT ![j] = c]
      /\ req' = [req EXCEPT ![r] = Idle]
      /\ UNCHANGED <<now, exists, blacklist, loggedOut>>
  BY DEF IssueAccessToken, Done
<1>2. c \in Claims
  BY ClockAssumption DEF IssueAccessToken, TypeOK, Request, Claims, Expiry
<1>3. TypeOK'
  BY <1>1, <1>2 DEF TypeOK, Request, Idle
<1>4. \A k \in Jtis : Signed(k) => claims'[k] = claims[k] /\ claims[k] # None
  BY <1>1 DEF TypeOK, Signed
<1>5. RowsAreClaims'
  <2> SUFFICES ASSUME NEW k \in Jtis, Listed(k)' PROVE blacklist'[k] = claims'[k]
    BY DEF RowsAreClaims
  <2>1. Listed(k) /\ blacklist[k] = claims[k]
    BY <1>1 DEF RowsAreClaims, Listed
  <2> QED
    BY <1>1, <1>4, <2>1 DEF Listed, Signed
<1>6. \A s \in Requests : req'[s].pc \in {"parsed", "admitted"} => req'[s] = req[s]
  <2> TAKE s \in Requests
  <2>1. CASE s = r
    BY <1>1, <2>1 DEF TypeOK, Idle
  <2>2. CASE s # r
    BY <1>1, <2>2 DEF TypeOK
  <2> QED
    BY <2>1, <2>2
<1>7. \A s \in Requests : req[s].pc \in {"parsed", "admitted"} => req[s].jti \in Jtis
  BY DEF TypeOK, Request
<1>8. LateIsLoggedOut'
  BY <1>1, <1>4, <1>6, <1>7 DEF LateIsLoggedOut, Signed
<1>9. LoggedOutListed'
  BY <1>1, <1>4 DEF LoggedOutListed, Signed, Listed, dbNow, TypeOK
<1>10. LogoutHolds'
  <2> SUFFICES ASSUME NEW s \in Requests, req'[s].pc = "admitted", req'[s].late
               PROVE  \/ dbNow' >= claims'[req'[s].jti].expiresAt
                      \/ claims'[req'[s].jti].user \notin exists'
    BY DEF LogoutHolds
  <2>1. req'[s] = req[s] /\ Signed(req[s].jti) /\ req[s].jti \in Jtis
    BY <1>6, <1>7 DEF LateIsLoggedOut
  <2> QED
    BY <1>1, <1>4, <2>1 DEF LogoutHolds, dbNow
<1> QED
  BY <1>3, <1>5, <1>8, <1>9, <1>10

\* The two steps of middleware.Auth.
LEMMA AuthKeeps ==
  ASSUME IInv, NEW r \in Requests,
         \/ \E j \in Jtis, route \in Routes : ParseWithClaims(r, j, route)
         \/ Admit(r)
  PROVE  IInv'
<1> USE DEF IInv
<1>1. UNCHANGED <<now, exists, claims, blacklist, loggedOut>>
  BY DEF ParseWithClaims, Admit
<1>2. /\ req' = [req EXCEPT ![r] = req'[r]]
      /\ req'[r] \in [pc : {"parsed", "admitted"}, jti : Jtis, route : Routes,
                      late : BOOLEAN]
      /\ Signed(req'[r].jti)
      /\ req'[r].late => req'[r].jti \in loggedOut
  <2>1. ASSUME NEW j \in Jtis, NEW route \in Routes, ParseWithClaims(r, j, route)
        PROVE  <1>2
    <3> DEFINE late == j \in loggedOut
               q == [pc |-> "parsed", jti |-> j, route |-> route, late |-> late]
    <3>1. late \in BOOLEAN
      OBVIOUS
    <3>2. /\ req' = [req EXCEPT ![r] = q] /\ Signed(j)
          /\ late => j \in loggedOut
      BY <2>1 DEF ParseWithClaims
    <3> HIDE DEF late
    <3>3. q \in [pc : {"parsed", "admitted"}, jti : Jtis, route : Routes, late : BOOLEAN]
      BY <3>1
    <3>4. q.jti = j /\ q.late = late
      OBVIOUS
    <3>5. req'[r] = q
      BY <3>2 DEF TypeOK
    <3> HIDE DEF q
    <3> QED
      BY <3>2, <3>3, <3>4, <3>5
  <2>2. ASSUME Admit(r) PROVE <1>2
    <3> DEFINE q == [req[r] EXCEPT !.pc = "admitted"]
    <3>1. req[r] \in [pc : {"parsed", "admitted"}, jti : Jtis, route : Routes,
                      late : BOOLEAN]
      BY <2>2 DEF Admit, TypeOK, Request
    <3>2. /\ q \in [pc : {"parsed", "admitted"}, jti : Jtis, route : Routes,
                     late : BOOLEAN]
          /\ q.jti = req[r].jti /\ q.late = req[r].late
      BY <3>1
    <3>3. req' = [req EXCEPT ![r] = q] /\ req'[r] = q
      BY <2>2 DEF Admit, TypeOK
    <3>4. Signed(req[r].jti) /\ (req[r].late => req[r].jti \in loggedOut)
      BY <2>2, <3>1 DEF LateIsLoggedOut, Admit
    <3> HIDE DEF q
    <3> QED
      BY <3>2, <3>3, <3>4
  <2> QED
    BY <2>1, <2>2
<1>3. \A s \in Requests \ {r} : req'[s] = req[s]
  BY <1>2 DEF TypeOK
<1>4. TypeOK'
  BY <1>1, <1>2 DEF TypeOK, Request
<1>5. RowsAreClaims' /\ LoggedOutListed'
  BY <1>1 DEF RowsAreClaims, LoggedOutListed, Signed, Listed, dbNow
<1>6. LateIsLoggedOut'
  BY <1>1, <1>2, <1>3 DEF LateIsLoggedOut, Signed
<1>7. ASSUME req'[r].pc = "admitted", req'[r].late
      PROVE  \/ dbNow >= claims[req'[r].jti].expiresAt
             \/ claims[req'[r].jti].user \notin exists
  <2>1. Admit(r)
    BY <1>7 DEF ParseWithClaims, TypeOK
  <2>2. req'[r].jti = req[r].jti /\ req[r].jti \in Jtis /\ ~IsTokenBlacklisted(req[r].jti)
    BY <2>1 DEF Admit, TypeOK, Request
  <2> DEFINE j == req[r].jti
  <2>3. j \in loggedOut /\ claims[j] \in Claims
    BY <1>2, <1>7, <2>2 DEF Signed, TypeOK
  <2>4. CASE Listed(j)
    <3>1. ~(claims[j].expiresAt > dbNow)
      BY <2>2, <2>4 DEF IsTokenBlacklisted, RowsAreClaims
    <3> QED
      BY <2>2, <2>3, <3>1, ClockAssumption DEF dbNow, Claims, TypeOK
  <2>5. CASE ~Listed(j)
    BY <2>2, <2>3, <2>5 DEF LoggedOutListed
  <2> QED
    BY <2>4, <2>5
<1>8. LogoutHolds'
  BY <1>1, <1>3, <1>7 DEF LogoutHolds, dbNow
<1> QED
  BY <1>4, <1>5, <1>6, <1>8

\* A logout stores its row, whether or not the client hears of it.
LEMMA LogoutKeeps ==
  ASSUME IInv, NEW r \in Requests, BlacklistToken(r) \/ BlacklistError(r)
  PROVE  IInv'
<1> USE DEF IInv
<1> DEFINE j == req[r].jti
<1>1. /\ j \in Jtis /\ Signed(j)
      /\ UNCHANGED <<now, exists, claims>>
      /\ req' = [req EXCEPT ![r] = Idle]
      /\ \/ blacklist' = [blacklist EXCEPT ![j] = claims[j]] /\ loggedOut' = loggedOut \cup {j}
         \/ blacklist' = [blacklist EXCEPT ![j] = claims[j]] /\ loggedOut' = loggedOut
         \/ blacklist' = blacklist /\ loggedOut' = loggedOut
  BY DEF BlacklistToken, BlacklistError, Done, Row, LateIsLoggedOut, TypeOK, Request
<1>2. TypeOK'
  BY <1>1 DEF TypeOK, Request, Idle
<1>3. RowsAreClaims'
  BY <1>1 DEF RowsAreClaims, Listed, TypeOK
<1>4. \A s \in Requests : req'[s].pc \in {"parsed", "admitted"} => req'[s] = req[s]
  <2> TAKE s \in Requests
  <2>1. CASE s = r
    BY <1>1, <2>1 DEF TypeOK, Idle
  <2>2. CASE s # r
    BY <1>1, <2>2 DEF TypeOK
  <2> QED
    BY <2>1, <2>2
<1>5. LateIsLoggedOut'
  BY <1>1, <1>4 DEF LateIsLoggedOut, Signed
<1>6. LoggedOutListed'
  BY <1>1 DEF LoggedOutListed, Signed, Listed, dbNow, TypeOK
<1>7. LogoutHolds'
  BY <1>1, <1>4 DEF LogoutHolds, dbNow
<1> QED
  BY <1>2, <1>3, <1>5, <1>6, <1>7

\* A row leaves the table when it no longer matters: it is expired, or its
\* account is gone.
LEMMA RemovingKeeps ==
  ASSUME IInv, CleanupExpiredTokens \/ \E u \in Users : DeleteUser(u)
  PROVE  IInv'
<1> USE DEF IInv
<1>1. UNCHANGED <<now, claims, req, loggedOut>> /\ exists' \subseteq exists
  BY DEF CleanupExpiredTokens, DeleteUser
<1>2. \A j \in Jtis : blacklist'[j] \in {blacklist[j], None}
  BY DEF CleanupExpiredTokens, DeleteUser
<1>3. TypeOK'
  BY <1>1 DEF TypeOK, CleanupExpiredTokens, DeleteUser
<1>4. RowsAreClaims' /\ LateIsLoggedOut'
  BY <1>1, <1>2 DEF RowsAreClaims, LateIsLoggedOut, Listed, Signed
<1>5. ASSUME NEW j \in Jtis, Listed(j), ~Listed(j)'
      PROVE  claims[j].expiresAt <= dbNow \/ claims[j].user \notin exists'
  <2>1. CASE CleanupExpiredTokens
    <3>1. blacklist[j].expiresAt < dbNow
      BY <1>5, <2>1 DEF CleanupExpiredTokens, Swept, Listed
    <3>2. claims[j] = blacklist[j] /\ claims[j] \in Claims
      BY <1>5 DEF RowsAreClaims, Listed, TypeOK
    <3> QED
      BY <3>1, <3>2, ClockAssumption DEF Claims, dbNow, TypeOK
  <2>2. CASE \E u \in Users : DeleteUser(u)
    BY <1>5, <2>2 DEF DeleteUser, RowsAreClaims, Listed
  <2> QED
    BY <2>1, <2>2
<1>6. LoggedOutListed'
  BY <1>1, <1>5 DEF LoggedOutListed, Signed, dbNow, TypeOK
<1>7. LogoutHolds'
  BY <1>1 DEF LogoutHolds, dbNow
<1> QED
  BY <1>3, <1>4, <1>6, <1>7

LEMMA TickKeeps ==
  ASSUME IInv, Tick
  PROVE  IInv'
<1> USE DEF IInv, Tick
<1>1. TypeOK'
  BY DEF TypeOK
<1>2. RowsAreClaims' /\ LateIsLoggedOut'
  BY DEF RowsAreClaims, LateIsLoggedOut, Listed, Signed
<1>3. dbNow \in Int /\ dbNow' = dbNow + 1
  BY ClockAssumption DEF dbNow, TypeOK
<1>4. \A j \in Jtis : Signed(j) => claims[j].expiresAt \in Nat
  BY DEF TypeOK, Signed, Claims
<1>5. LoggedOutListed'
  BY <1>3, <1>4 DEF LoggedOutListed, Signed, Listed, TypeOK
<1>6. \A s \in Requests : req[s].pc = "admitted" => claims[req[s].jti].expiresAt \in Nat
  BY <1>4 DEF LateIsLoggedOut, TypeOK, Request
<1>7. LogoutHolds'
  BY <1>3, <1>6 DEF LogoutHolds
<1> QED
  BY <1>1, <1>2, <1>5, <1>7

LEMMA NextKeeps == IInv /\ [Next]_vars => IInv'
<1> SUFFICES ASSUME IInv, [Next]_vars PROVE IInv'
  OBVIOUS
<1>1. ASSUME NEW r \in Requests, NEW u \in Users, ReadAccount(r, u)
      PROVE  IInv'
  BY <1>1, AnsweringKeeps DEF ReadAccount
<1>2. ASSUME NEW r \in Requests, NEW j \in Jtis, IssueAccessToken(r, j)
      PROVE  IInv'
  BY <1>2, IssueKeeps
<1>3. ASSUME NEW r \in Requests, NEW j \in Jtis, NEW route \in Routes,
             ParseWithClaims(r, j, route)
      PROVE  IInv'
  BY <1>3, AuthKeeps
<1>4. ASSUME NEW r \in Requests, Advance(r)
      PROVE  IInv'
  <2>1. CASE IssueFails(r) \/ TurnAway(r) \/ Serve(r)
    <3>1. /\ UNCHANGED <<now, exists, claims, blacklist, loggedOut>>
          /\ req' = [req EXCEPT ![r] = Idle]
          /\ Idle \in [pc : {"idle"}]
      BY <2>1 DEF IssueFails, TurnAway, Serve, Done, Idle
    <3> QED
      BY <3>1, AnsweringKeeps
  <2>2. CASE Admit(r)
    BY <2>2, AuthKeeps
  <2>3. CASE BlacklistToken(r) \/ BlacklistError(r)
    BY <2>3, LogoutKeeps
  <2> QED
    BY <1>4, <2>1, <2>2, <2>3 DEF Advance
<1>5. CASE CleanupExpiredTokens \/ \E u \in Users : DeleteUser(u)
  BY <1>5, RemovingKeeps
<1>6. CASE Tick
  BY <1>6, TickKeeps
<1>7. CASE UNCHANGED vars
  <2> USE <1>7 DEF vars
  <2>1. TypeOK'
    BY DEF IInv, TypeOK
  <2>2. RowsAreClaims' /\ LateIsLoggedOut' /\ LoggedOutListed' /\ LogoutHolds'
    BY DEF IInv, RowsAreClaims, LateIsLoggedOut, LoggedOutListed, LogoutHolds,
           Signed, Listed, dbNow
  <2> QED
    BY <2>1, <2>2 DEF IInv
<1> QED
  BY <1>1, <1>2, <1>3, <1>4, <1>5, <1>6, <1>7 DEF Next

-----------------------------------------------------------------------------
\* The inductive invariant holds: a token once logged out stays in the
\* blacklist for as long as some request could be admitted by it.
THEOREM Invariance == Spec => []IInv
  BY InitEstablishes, NextKeeps, PTL DEF Spec

\* Claims, blacklist rows and requests keep their shape, the dates included.
THEOREM TypeCorrect == Spec => []TypeOK
<1>1. IInv => TypeOK
  BY DEF IInv
<1> QED
  BY <1>1, Invariance, PTL

\* Logging out holds (handlers/auth.go Logout, middleware.Auth): whichever way
\* logouts, sweeps of the table, deletions and other requests interleave, a
\* request that comes later with the same token is admitted only when the token
\* has expired by the database's clock or its account was deleted.
THEOREM LoggedOutStaysOut == Spec => []LogoutHolds
<1>1. IInv => LogoutHolds
  BY DEF IInv
<1> QED
  BY <1>1, Invariance, PTL
=============================================================================
