--------------------------- MODULE RefreshTokens ---------------------------
(***************************************************************************)
(* The refresh tokens of internal/auth: the refresh_tokens table           *)
(* (models.go) and RefreshService (service.go), called by any number of    *)
(* HTTP requests at once.  Every SQL statement is one atomic step; what a  *)
(* request does between two statements interleaves with the others.        *)
(*                                                                         *)
(* A raw token is a member of Tokens.  Generating 256 random bits is       *)
(* choosing a token nobody has seen, hashing it is a bijection, so the     *)
(* table is a function from raw tokens to rows.  A device is the pair of   *)
(* headers ComputeDeviceFingerprint hashes.                                *)
(***************************************************************************)
EXTENDS Naturals, FiniteSets

CONSTANTS Users,       \* primary keys of the users table
          Devices,     \* device fingerprints
          Tokens,      \* raw refresh tokens that can be generated
          Requests,    \* concurrent calls of the service
          RefreshTTL,  \* Config.RefreshTTL, in ticks
          DemoTTL,     \* DemoRefreshTTL, in ticks
          MaxTime,     \* bound: last instant of the clock
          Faults,      \* how a failing SQL statement may leave the table
          NoRow,       \* no row (pgx.ErrNoRows)
          NoToken      \* no token

ASSUME TTLAssumption  == RefreshTTL \in Nat \ {0} /\ DemoTTL \in Nat \ {0}
ASSUME TimeAssumption == MaxTime \in Nat
ASSUME FaultsAssumption == Faults \subseteq {"lost", "applied"}
ASSUME NoTokenAssumption == NoToken \notin Tokens

VARIABLES now,      \* the wall clock
          role,     \* users.role, or "gone" once the row is deleted
          rows,     \* the refresh_tokens table, by raw token
          call,     \* the calls of ValidateAndRotate and RevokeRefreshToken
          family,   \* history: the token a stored token descends from
          parent,   \* history: the token a stored token replaced
          capped,   \* history: the tokens that began a demo login
          issued    \* history: the raw tokens handed to a browser

vars == <<now, role, rows, call, family, parent, capped, issued>>
history == <<family, parent, capped, issued>>

Row == [user : Users, device : Devices, expiresAt : Nat, revoked : BOOLEAN]

ASSUME NoRowAssumption == NoRow \notin Row

Roles == {"user", "demo"}
Outcomes == {"ok", "notFound", "revoked", "expired", "mismatch", "error"}
Stages == {"idle", "lookup", "replay", "claimed", "insert", "revoke"} \cup Outcomes

Call == [pc : Stages, token : Tokens \cup {NoToken},
         device : Devices \cup {"none"},
         row : Row \cup {NoRow}, role : Roles \cup {"none"}]

TypeOK ==
  /\ now \in Nat
  /\ role \in [Users -> Roles \cup {"gone"}]
  /\ rows \in [Tokens -> Row \cup {NoRow}]
  /\ call \in [Requests -> Call]
  /\ family \in [Tokens -> Tokens \cup {NoToken}]
  /\ parent \in [Tokens -> Tokens \cup {NoToken}]
  /\ capped \subseteq Tokens
  /\ issued \subseteq Tokens

-----------------------------------------------------------------------------
(* The table and its statements (models.go).                               *)

Stored(n) == rows[n] # NoRow
Live(n)   == Stored(n) /\ ~rows[n].revoked
Fresh(n)  == family[n] = NoToken

\* Mutant of Claimable: the UPDATE forgets "AND revoked = FALSE".
ClaimableTwice(t) == Stored(t) /\ rows[t].expiresAt > now

\* WHERE token_hash = $1 AND revoked = FALSE AND expires_at > NOW()
Claimable(t) == Live(t) /\ rows[t].expiresAt > now

Revoked(t) == [rows EXCEPT ![t].revoked = TRUE]

\* WHERE user_id = $1 AND revoked = FALSE
RevokedAll(u) ==
  [n \in Tokens |->
     IF Stored(n) /\ rows[n].user = u
     THEN [rows[n] EXCEPT !.revoked = TRUE] ELSE rows[n]]

\* The table after a statement that would leave new reports an error: the
\* server may have committed it before the connection broke.
AfterError(new) == (IF "lost" \in Faults THEN {rows} ELSE {}) \cup
                   (IF "applied" \in Faults THEN {new} ELSE {})

\* InsertRefreshToken of raw token n, the successor of p (or of no token) in
\* the family that f began.  The foreign key needs the users row.
Insert(n, u, d, exp, f, p) ==
  /\ Fresh(n)
  /\ role[u] # "gone"
  /\ rows' = [rows EXCEPT ![n] = [user |-> u, device |-> d,
                                  expiresAt |-> exp, revoked |-> FALSE]]
  /\ family' = [family EXCEPT ![n] = f]
  /\ parent' = [parent EXCEPT ![n] = p]

-----------------------------------------------------------------------------
(* Calls.  A call that returned keeps its outcome until the handler replies. *)

Idle == [pc |-> "idle", token |-> NoToken, device |-> "none", row |-> NoRow,
         role |-> "none"]

At(r, pc) == call[r].pc = pc
Hold(r, pc, row) == call' = [call EXCEPT ![r] = [@ EXCEPT !.pc = pc, !.row = row]]
Return(r, t, outcome) ==
  call' = [call EXCEPT ![r] = [Idle EXCEPT !.pc = outcome, !.token = t]]
Begin(r, t, d, pc, row) ==
  call' = [call EXCEPT ![r] = [pc |-> pc, token |-> t, device |-> d,
                               row |-> row, role |-> "none"]]

\* r has claimed a token and may still store its replacement.
Rotating(r) == call[r].pc \in {"claimed", "insert"}

\* Bound: a token is claimed or a session opened only while the finite set of
\* raw tokens has one left for each replacement under way, so that a call is
\* never stuck for want of random bits.
RoomForOne == Cardinality({n \in Tokens : Fresh(n)}) >
              Cardinality({r \in Requests : Rotating(r)})

\* A browser presents a raw token it was once given.
Presents(r, t) == At(r, "idle") /\ t \in issued

-----------------------------------------------------------------------------
(* ValidateAndRotate.                                                      *)

RotateClaim(r, t, d) ==
  /\ Presents(r, t)
  /\ Claimable(t)
  /\ RoomForOne
  /\ rows' = Revoked(t)
  /\ Begin(r, t, d, "claimed", Revoked(t)[t])
  /\ UNCHANGED <<now, role, history>>

RotateMiss(r, t, d) ==
  /\ Presents(r, t)
  /\ ~Claimable(t)
  /\ Begin(r, t, d, "lookup", NoRow)
  /\ UNCHANGED <<now, role, rows, history>>

RotateClaimError(r, t, d) ==
  /\ Presents(r, t)
  /\ rows' \in AfterError(IF Claimable(t) THEN Revoked(t) ELSE rows)
  /\ Return(r, t, "error")
  /\ UNCHANGED <<now, role, history>>

\* Nothing claimed: find out why so replays revoke the family.
RotateLookup(r) ==
  LET t == call[r].token IN
  /\ At(r, "lookup")
  /\ \/ ~Stored(t) /\ Return(r, t, "notFound")
     \/ Live(t)    /\ Return(r, t, "expired")
     \/ Stored(t) /\ ~Live(t) /\ Hold(r, "replay", rows[t])
  /\ UNCHANGED <<now, role, rows, history>>

\* Mutant of RotateReplay: only the replayed token's own family is revoked.
RotateReplayFamily(r) ==
  /\ At(r, "replay")
  /\ rows' = [n \in Tokens |->
                 IF Stored(n) /\ family[n] = family[call[r].token]
                 THEN [rows[n] EXCEPT !.revoked = TRUE] ELSE rows[n]]
  /\ Return(r, call[r].token, "revoked")
  /\ UNCHANGED <<now, role, history>>

\* An error of the revocation is only logged.
RotateReplay(r) ==
  /\ At(r, "replay")
  /\ LET new == RevokedAll(call[r].row.user)
     IN  rows' \in {new} \cup AfterError(new)
  /\ Return(r, call[r].token, "revoked")
  /\ UNCHANGED <<now, role, history>>

\* Mutant of SameDevice: the fingerprint is not compared.
AnyDevice(r) == TRUE

SameDevice(r) == call[r].row.device = call[r].device

RotateMismatch(r) ==
  /\ At(r, "claimed")
  /\ ~SameDevice(r)
  /\ LET new == RevokedAll(call[r].row.user)
     IN  rows' \in {new} \cup AfterError(new)
  /\ Return(r, call[r].token, "mismatch")
  /\ UNCHANGED <<now, role, history>>

\* Mutant of KnownRole: a users row that is gone passes for a role.
AnyRole(ro) == TRUE

KnownRole(ro) == ro \in Roles

\* s.userRole reads users.role again, so a demotion takes effect here.
RotateRole(r) ==
  LET current == role[call[r].row.user] IN
  /\ At(r, "claimed")
  /\ SameDevice(r)
  /\ IF KnownRole(current)
     THEN call' = [call EXCEPT ![r] = [@ EXCEPT !.pc = "insert", !.role = current]]
     ELSE Return(r, call[r].token, "error")
  /\ UNCHANGED <<now, role, rows, history>>

\* Mutant of ReplacementExpiry: every rotation slides the deadline.
SlidingExpiry(r) == now + RefreshTTL

\* A demo rotation keeps the original absolute deadline.
ReplacementExpiry(r) ==
  IF call[r].role = "demo" THEN call[r].row.expiresAt ELSE now + RefreshTTL

\* CreateRefreshTokenUntil refuses a deadline that has passed.
Expired(r) == call[r].role = "demo" /\ call[r].row.expiresAt <= now

\* The call's INSERT, as the table sees it.
Replace(r, n) ==
  Insert(n, call[r].row.user, call[r].device, ReplacementExpiry(r),
         family[call[r].token], call[r].token)

\* CreateRefreshToken or CreateRefreshTokenUntil, then IssueAccessToken.
RotateInsert(r, n) ==
  /\ At(r, "insert")
  /\ ~Expired(r)
  /\ Replace(r, n)
  /\ issued' = issued \cup {n}
  /\ Return(r, call[r].token, "ok")
  /\ UNCHANGED <<now, role, capped>>

RotateInsertExpired(r) ==
  /\ At(r, "insert")
  /\ Expired(r)
  /\ Return(r, call[r].token, "error")
  /\ UNCHANGED <<now, role, rows, history>>

\* Mutant of RotateInsertError: the INSERT is tried again.
RotateInsertRetry(r) ==
  /\ At(r, "insert")
  /\ ~Expired(r)
  /\ "applied" \in Faults
  /\ \E n \in Tokens : Replace(r, n)
  /\ UNCHANGED <<now, role, call, capped, issued>>

\* The INSERT fails, or it is stored and the caller hears of an error: then
\* nobody holds the raw token.
RotateInsertError(r) ==
  /\ At(r, "insert")
  /\ ~Expired(r)
  /\ \/ /\ "lost" \in Faults \/ role[call[r].row.user] = "gone"
        /\ UNCHANGED <<rows, family, parent>>
     \/ /\ "applied" \in Faults
        /\ \E n \in Tokens : Replace(r, n)
  /\ Return(r, call[r].token, "error")
  /\ UNCHANGED <<now, role, capped, issued>>

\* A SELECT of ValidateAndRotate that fails.
ReadError(r) ==
  /\ Faults # {}
  /\ \/ At(r, "lookup")
     \/ At(r, "claimed") /\ SameDevice(r)
  /\ Return(r, call[r].token, "error")
  /\ UNCHANGED <<now, role, rows, history>>

-----------------------------------------------------------------------------
(* RevokeRefreshToken: the logout handler, for the cookie it was sent.      *)

RevokeLookup(r, t, d) ==
  /\ Presents(r, t)
  /\ \/ Stored(t)    /\ Begin(r, t, d, "revoke", rows[t])
     \/ ~Stored(t)   /\ Return(r, t, "notFound")
     \/ Faults # {}  /\ Return(r, t, "error")
  /\ UNCHANGED <<now, role, rows, history>>

\* Mutant of RevokeByID: an error of the statement is dropped.
RevokeByIDUnheard(r) ==
  LET t   == call[r].token
      new == IF Stored(t) THEN Revoked(t) ELSE rows
  IN
  /\ At(r, "revoke")
  /\ rows' \in {new} \cup AfterError(new)
  /\ Return(r, call[r].token, "ok")
  /\ UNCHANGED <<now, role, history>>

\* RevokeByID: by primary key, whatever became of the row since.
RevokeByID(r) ==
  LET t   == call[r].token
      new == IF Stored(t) THEN Revoked(t) ELSE rows
  IN
  /\ At(r, "revoke")
  /\ \/ rows' = new /\ Return(r, call[r].token, "ok")
     \/ rows' \in AfterError(new) /\ Return(r, call[r].token, "error")
  /\ UNCHANGED <<now, role, history>>

\* The handler answers the request.
Reply(r) ==
  /\ call[r].pc \in Outcomes
  /\ call' = [call EXCEPT ![r] = Idle]
  /\ UNCHANGED <<now, role, rows, history>>

-----------------------------------------------------------------------------
(* The rest of the interface, called by the handlers.                      *)

\* An orphan: the row is stored and the caller hears of an error.
Hand(n) == issued' \in {issued \cup {n}} \cup
                       (IF "applied" \in Faults THEN {issued} ELSE {})

\* CreateRefreshToken: login, signup, a changed password.
CreateRefreshToken(u, d, n) ==
  /\ RoomForOne
  /\ Insert(n, u, d, now + RefreshTTL, n, NoToken)
  /\ Hand(n)
  /\ UNCHANGED <<now, role, call, capped>>

\* CreateRefreshTokenUntil: DemoLogin, only for an account of role demo.
CreateDemoToken(u, d, n) ==
  /\ RoomForOne
  /\ role[u] = "demo"
  /\ Insert(n, u, d, now + DemoTTL, n, NoToken)
  /\ capped' = capped \cup {n}
  /\ Hand(n)
  /\ UNCHANGED <<now, role, call>>

\* RevokeAllForUser: a changed password.
RevokeAllForUser(u) ==
  /\ rows' = RevokedAll(u)
  /\ UNCHANGED <<now, role, call, history>>

\* db.SetUserRole, only ever called with role demo (EnsureDemoUser).
SetUserRole(u) ==
  /\ role[u] = "user"
  /\ role' = [role EXCEPT ![u] = "demo"]
  /\ UNCHANGED <<now, rows, call, history>>

\* db.DeleteUser; refresh_tokens.user_id is ON DELETE CASCADE.
DeleteUser(u) ==
  /\ role[u] # "gone"
  /\ role' = [role EXCEPT ![u] = "gone"]
  /\ rows' = [n \in Tokens |-> IF Stored(n) /\ rows[n].user = u
                               THEN NoRow ELSE rows[n]]
  /\ UNCHANGED <<now, call, history>>

Tick ==
  /\ now < MaxTime
  /\ now' = now + 1
  /\ UNCHANGED <<role, rows, call, history>>

-----------------------------------------------------------------------------
Init ==
  /\ now = 0
  /\ role \in [Users -> Roles]
  /\ rows = [n \in Tokens |-> NoRow]
  /\ call = [r \in Requests |-> Idle]
  /\ family = [n \in Tokens |-> NoToken]
  /\ parent = [n \in Tokens |-> NoToken]
  /\ capped = {}
  /\ issued = {}

Arrive(r) ==
  \E t \in Tokens, d \in Devices :
     \/ RotateClaim(r, t, d)
     \/ RotateMiss(r, t, d)
     \/ RotateClaimError(r, t, d)
     \/ RevokeLookup(r, t, d)

\* What a request does on its own once it has begun.
Advance(r) ==
  \/ RotateLookup(r)
  \/ RotateReplay(r)
  \/ RotateMismatch(r)
  \/ RotateRole(r)
  \/ \E n \in Tokens : RotateInsert(r, n)
  \/ RotateInsertExpired(r)
  \/ RotateInsertError(r)
  \/ ReadError(r)
  \/ RevokeByID(r)
  \/ Reply(r)

Environment ==
  \/ \E u \in Users, d \in Devices, n \in Tokens :
        CreateRefreshToken(u, d, n) \/ CreateDemoToken(u, d, n)
  \/ \E u \in Users : RevokeAllForUser(u) \/ SetUserRole(u) \/ DeleteUser(u)
  \/ Tick

Next == (\E r \in Requests : Arrive(r) \/ Advance(r)) \/ Environment

Spec == Init /\ [][Next]_vars

\* The Go scheduler runs every goroutine, and every statement returns (the
\* request context ends it after 60 seconds at the latest).
FairSpec == Spec /\ \A r \in Requests : WF_vars(Advance(r))

-----------------------------------------------------------------------------
(* What the code promises.                                                 *)

\* service.go:118 "Two concurrent calls with the same token cannot both
\* succeed": a token has at most one replacement, ever.
SingleUse ==
  \A m, n \in Tokens : parent[m] # NoToken /\ parent[m] = parent[n] => m = n

\* A session, that is the chain of tokens that descends from one login, never
\* forks: at most one of its tokens works, or one request holds the claimed
\* token it is about to replace, and never both.
LinearFamily ==
  /\ \A m, n \in Tokens :
        Live(m) /\ Live(n) /\ family[m] = family[n] => m = n
  /\ \A q, r \in Requests :
        Rotating(q) /\ Rotating(r)
          /\ family[call[q].token] = family[call[r].token] => q = r
  /\ \A r \in Requests, n \in Tokens :
        Rotating(r) /\ Live(n) => family[n] # family[call[r].token]

\* service.go:152: a session stays on the device and the account it began on,
\* through every rotation, deletion of the account included.
DeviceBound ==
  \A n \in Tokens : Stored(n) =>
     LET root == family[n] IN
     /\ Stored(root)
     /\ rows[n].user = rows[root].user
     /\ rows[n].device = rows[root].device

\* config.go:22: "DemoRefreshTTL is an absolute cap for a public demo session.
\* Rotation must not extend it": every token of a session that DemoLogin
\* opened dies at the deadline its first token had.
DemoDeadline ==
  \A n \in Tokens : Stored(n) /\ family[n] \in capped =>
     rows[n].expiresAt = rows[family[n]].expiresAt

\* The session that token f began, as SessionFamily sees it.
Held(f)      == \E n \in Tokens : Live(n) /\ family[n] = f
Exchanged(f) == \E r \in Requests : Rotating(r) /\ family[call[r].token] = f
SessionState(f) ==
  IF family[f] # f     THEN "unopened"
  ELSE IF Held(f)      THEN "held"
  ELSE IF Exchanged(f) THEN "exchanged"
  ELSE "closed"

Sessions == INSTANCE SessionFamily
              WITH Families <- Tokens, state <- [f \in Tokens |-> SessionState(f)]

\* Sessions open once, change hands one request at a time, and never come back
\* to life: a replayed, raced or failed rotation included.
ImplementsSessions == Sessions!Spec

\* A session with no working token, and no request about to store one, is
\* over: logout, replay detection or a deleted account cannot be undone by a
\* statement of a call that began earlier.
DeadStaysDead ==
  [][\A f \in Tokens : family[f] = f /\ ~Held(f) /\ ~Exchanged(f)
        => ~Held(f)' /\ ~Exchanged(f)']_vars

-----------------------------------------------------------------------------
(* The inductive invariant: what the properties above rest on.             *)

Minted(n) == family[n] \in Tokens

\* Only a token that was generated is stored, presented or descended from.
Provenance ==
  /\ \A n \in Tokens : Stored(n) \/ n \in issued \/ n \in capped => Minted(n)
  /\ \A n \in Tokens : Minted(n) => family[family[n]] = family[n]
  /\ \A n \in Tokens : parent[n] # NoToken => Minted(parent[n]) /\ Minted(n)

\* Neither a working token nor one that is being replaced has a successor.
NoSuccessorYet ==
  /\ \A m, n \in Tokens : Live(n) => parent[m] # n
  /\ \A r \in Requests, m \in Tokens : Rotating(r) => parent[m] # call[r].token

CallsSound ==
  \A r \in Requests :
    /\ call[r].pc # "idle" => call[r].token \in Tokens /\ Minted(call[r].token)
    /\ call[r].pc \in {"claimed", "insert", "replay", "revoke"} => call[r].row # NoRow
    /\ call[r].pc = "insert" => SameDevice(r) /\ call[r].role \in Roles

\* The row a rotation claimed is the table's, until the account is deleted.
ClaimsAgree ==
  \A r \in Requests : Rotating(r) /\ role[call[r].row.user] # "gone" =>
    LET t == call[r].token IN
    /\ Stored(t)
    /\ rows[t].user = call[r].row.user
    /\ rows[t].device = call[r].row.device
    /\ rows[t].expiresAt = call[r].row.expiresAt

\* A session belongs to an account that exists, a demo login's to a demo one.
OwnersExist ==
  \A n \in Tokens : Stored(n) =>
    /\ role[rows[n].user] # "gone"
    /\ family[n] \in capped => role[rows[n].user] = "demo"

\* A rotation of a demo login's token knows it is one.
DemoKnown ==
  \A r \in Requests : Rotating(r) /\ family[call[r].token] \in capped =>
    /\ role[call[r].row.user] # "user"
    /\ call[r].pc = "insert" => call[r].role = "demo"

IInv ==
  /\ TypeOK
  /\ SingleUse
  /\ LinearFamily
  /\ DeviceBound
  /\ DemoDeadline
  /\ Provenance
  /\ NoSuccessorYet
  /\ CallsSound
  /\ ClaimsAgree
  /\ OwnersExist
  /\ DemoKnown

-----------------------------------------------------------------------------
(* What must happen.                                                       *)

\* service.go:119-120 "If the token was already revoked (replay) or the
\* fingerprint changed, ALL of the user's refresh tokens are revoked": when
\* statements do not fail, every token the account has when the service notices
\* ends up revoked or deleted, whatever else runs meanwhile.
Noticed(r) == At(r, "replay") \/ (At(r, "claimed") /\ ~SameDevice(r))
NoticedMeansRevoked ==
  \A r \in Requests, n \in Tokens :
     Noticed(r) /\ Stored(n) /\ rows[n].user = call[r].row.user ~> ~Live(n)

-----------------------------------------------------------------------------
(* What comments say of the code and the code does not do.                 *)

\* service.go:119-120, 143: once a replay was answered, the replayed token's
\* family has no working token.
ReplayRevokesFamily ==
  \A r \in Requests, n \in Tokens :
     At(r, "revoked") /\ Live(n) => family[n] # family[call[r].token]
=============================================================================
