------------------------------ MODULE Identity ------------------------------
(***************************************************************************)
(* Who an account is: the e-mail, password and role in its row of the      *)
(* users table, what start-up makes of the demo account (EnsureDemoUser,   *)
(* run by every server before it listens), and for how long the role that  *)
(* was read for a token goes on to work after the row has changed.         *)
(*                                                                         *)
(* Servers are killed between any two statements and started again, and    *)
(* share nothing but the database.  A request is a reading of the row and  *)
(* what it does later, relying on it.  Access tokens and sessions are      *)
(* known by their account and dates; how a session is rotated and a token  *)
(* revoked is RefreshTokens' and AccessTokens' matter.                     *)
(***************************************************************************)
EXTENDS Integers, FiniteSets

CONSTANTS Ids,         \* primary keys of the users table
          Emails,      \* addresses people give
          DemoEmail,   \* DEMO_USER_EMAIL
          Servers,     \* instances on the one database
          Requests,    \* concurrent HTTP requests
          AccessTTL,   \* Config.AccessTTL, in ticks
          RefreshTTL,  \* Config.RefreshTTL
          DemoTTL,     \* DemoRefreshTTL
          MaxStall,    \* a request ends less than a tick later than this
          None,        \* no demo account
          MaxTime,     \* bound: last instant of the clock
          MaxHeld      \* bound: tokens, and sessions, that work at a time

ASSUME IdentityAssumption ==
  /\ DemoEmail \in Emails
  /\ None \notin Ids
  /\ AccessTTL \in Nat \ {0} /\ RefreshTTL \in Nat /\ DemoTTL \in Nat
  /\ DemoTTL <= RefreshTTL
  /\ MaxStall \in Nat /\ MaxTime \in Nat /\ MaxHeld \in Nat

VARIABLES now,       \* the clock
          users,     \* the users table
          server,    \* how far each server has started
          task,      \* the requests under way
          tokens,    \* access tokens that have not expired
          sessions,  \* refresh tokens that can be presented
          born,      \* history: accounts CreateDemoUser made
          became     \* history: when an account got the role demo

vars == <<now, users, server, task, tokens, sessions, born, became>>

Roles == {"user", "demo"}
Row == [email : Emails, pw : {"own", "demo"}, role : Roles \cup {"unused", "gone"}]
Token == [id : Ids, role : Roles, until : Nat]
Session == [id : Ids, opened : Nat, until : Nat]

\* A server that runs since before DEMO_USER_EMAIL was set has no demo account.
\* touched: a request changed the server's demo account since it looked it up.
Starting == {"look", "create", "password", "role"}
Server == [pc : Starting \cup {"down", "degraded", "up"}, id : Ids \cup {None},
           touched : BOOLEAN]

\* from: when the request read the row.
Mutations == {"email", "password", "delete"}
Task == [pc : {"none"}] \cup
        [pc : {"issue"}, id : Ids, from : Nat, role : Roles, ttl : {RefreshTTL, DemoTTL}] \cup
        [pc : {"renew"}, id : Ids, from : Nat, role : Roles, session : Session] \cup
        [pc : Mutations \cup {"revoke", "store"}, id : Ids, from : Nat]

TypeOK ==
  /\ now \in Nat
  /\ users \in [Ids -> Row]
  /\ server \in [Servers -> Server]
  /\ task \in [Requests -> Task]
  /\ tokens \subseteq Token
  /\ sessions \subseteq Session
  /\ born \subseteq Ids
  /\ became \in [Ids -> Nat]

-----------------------------------------------------------------------------
(* The statements of internal/db/users.go.                                 *)

Exists(u) == users[u].role \in Roles
Named(u, e) == Exists(u) /\ users[u].email = e

\* The UNIQUE constraint on users.email refuses e: ErrEmailAlreadyExists.
Taken(e) == \E u \in Ids : Named(u, e)

Insert(u, row) ==
  /\ users[u].role = "unused"
  /\ ~Taken(row.email)
  /\ users' = [users EXCEPT ![u] = row]

Blank == [email |-> DemoEmail, pw |-> "own", role |-> "unused"]

\* What EnsureDemoUser makes of its account.
DemoRow == [email |-> DemoEmail, pw |-> "demo", role |-> "demo"]

-----------------------------------------------------------------------------
(* A server starts.                                                        *)

Move(s, pc, id) == server' = [server EXCEPT ![s] = [pc |-> pc, id |-> id, touched |-> FALSE]]
Step(s, pc) == server' = [server EXCEPT ![s].pc = pc]

\* InitDB; a server without a database goes on "without DB features", and
\* nobody signs in there.  Bound: the database is away at the first instant only.
Start(s) ==
  /\ server[s].pc = "down"
  /\ \/ Move(s, "look", None)
     \/ now = 0 /\ Move(s, "degraded", None)
  /\ UNCHANGED <<now, users, task, tokens, sessions, born, became>>

\* EnsureDemoUser: GetUserByEmail ...
LookUp(s) ==
  /\ server[s].pc = "look"
  /\ \/ \E u \in Ids : Named(u, DemoEmail) /\ Move(s, "password", u)
     \/ ~Taken(DemoEmail) /\ Move(s, "create", None)
  /\ UNCHANGED <<now, users, task, tokens, sessions, born, became>>

\* ... CreateDemoUser ...
CreateDemoUser(s, u) ==
  /\ server[s].pc = "create"
  /\ Insert(u, DemoRow)
  /\ Move(s, "up", u)
  /\ born' = born \cup {u}
  /\ became' = [became EXCEPT ![u] = now]
  /\ UNCHANGED <<now, task, tokens, sessions>>

\* ... or UpdateUserPassword ...
UpdateUserPassword(s) ==
  LET u == server[s].id IN
  /\ server[s].pc = "password"
  /\ Exists(u)
  /\ users' = [users EXCEPT ![u].pw = "demo"]
  /\ Step(s, "role")
  /\ UNCHANGED <<now, task, tokens, sessions, born, became>>

\* Mutant of NewRole: the role is left as it was.
OldRole(s) == users[server[s].id].role

NewRole(s) == "demo"

\* ... and SetUserRole; then the server listens.
SetUserRole(s) ==
  LET u == server[s].id IN
  /\ server[s].pc = "role"
  /\ Exists(u)
  /\ users' = [users EXCEPT ![u].role = NewRole(s)]
  /\ became' = [became EXCEPT ![u] = IF users[u].role = "demo" THEN @ ELSE now]
  /\ Step(s, "up")
  /\ UNCHANGED <<now, task, tokens, sessions, born>>

\* Mutant of ExitOnError: a row that is not there is waited for.
ExitIfTaken(s) ==
  /\ server[s].pc = "create" /\ Taken(DemoEmail)
  /\ Move(s, "down", None)
  /\ UNCHANGED <<now, users, task, tokens, sessions, born, became>>

\* os.Exit(1): somebody else has the e-mail by now, or the account is gone.
ExitOnError(s) ==
  /\ \/ server[s].pc = "create" /\ Taken(DemoEmail)
     \/ server[s].pc \in {"password", "role"} /\ ~Exists(server[s].id)
  /\ Move(s, "down", None)
  /\ UNCHANGED <<now, users, task, tokens, sessions, born, became>>

\* A signal, a crash, or a statement of EnsureDemoUser that fails.
\* Bound: not at the last instant.
Kill(s) ==
  /\ server[s].pc # "down"
  /\ now < MaxTime
  /\ Move(s, "down", None)
  /\ UNCHANGED <<now, users, task, tokens, sessions, born, became>>

-----------------------------------------------------------------------------
(* A request reads the row of an account.                                  *)

\* Bound: none begins at the last instant, nor while all it could store is held.
Ready(r) ==
  /\ task[r].pc = "none"
  /\ now < MaxTime
  /\ \E s \in Servers : server[s].pc = "up"

Room(held) == Cardinality(held) +
  Cardinality({r \in Requests : task[r].pc \in {"issue", "renew"}}) < MaxHeld

Begin(r, t) == task' = [task EXCEPT ![r] = t]
Finish(r) == Begin(r, [pc |-> "none"])

\* Mutant of RoleOf: the role is not copied from the row.
AlwaysUser(u) == "user"

\* roleOrUser: the column is NOT NULL, so that it never is "".
RoleOf(u) == users[u].role

\* Login, with the password of the moment.
Login(r, u) ==
  /\ Ready(r) /\ Room(tokens) /\ Room(sessions)
  /\ Exists(u)
  /\ Begin(r, [pc |-> "issue", id |-> u, from |-> now, role |-> RoleOf(u), ttl |-> RefreshTTL])
  /\ UNCHANGED <<now, users, server, tokens, sessions, born, became>>

DemoLogin(r, u) ==
  /\ Ready(r) /\ Room(tokens) /\ Room(sessions)
  /\ \E s \in Servers : server[s].pc = "up" /\ server[s].id # None
  /\ Named(u, DemoEmail)
  /\ users[u].role = "demo"
  /\ Begin(r, [pc |-> "issue", id |-> u, from |-> now, role |-> "demo", ttl |-> DemoTTL])
  /\ UNCHANGED <<now, users, server, tokens, sessions, born, became>>

\* Bound: a key is left for CreateDemoUser.
Keys == Cardinality({u \in Ids : users[u].role = "unused"}) > 1

\* CreateUser; any address may be given, DemoEmail too.
Signup(r, u, e) ==
  /\ Ready(r) /\ Room(tokens) /\ Room(sessions) /\ Keys
  /\ Insert(u, [email |-> e, pw |-> "own", role |-> "user"])
  /\ Begin(r, [pc |-> "issue", id |-> u, from |-> now, role |-> "user", ttl |-> RefreshTTL])
  /\ UNCHANGED <<now, server, tokens, sessions, born, became>>

\* ValidateAndRotate: the session is claimed, then SetUserRole's callback
\* reads the role.
Refresh(r, s) ==
  /\ Ready(r) /\ Room(tokens)
  /\ s \in sessions
  /\ sessions' = sessions \ {s}
  /\ Begin(r, [pc |-> "renew", id |-> s.id, from |-> now, role |-> RoleOf(s.id), session |-> s])
  /\ UNCHANGED <<now, users, server, tokens, born, became>>

\* middleware.RequireRole(RoleUser), by the claim.
RequireRole(t) == t.role = "user"

\* UpdateProfile, UpdateProfilePassword or DeleteAccount: Auth and RequireRole
\* let token t in, GetUserByID finds the row, and the password is right.
Admit(r, t, op) ==
  /\ Ready(r)
  /\ t \in tokens
  /\ RequireRole(t)
  /\ Exists(t.id)
  /\ Begin(r, [pc |-> op, id |-> t.id, from |-> now])
  /\ UNCHANGED <<now, users, server, tokens, sessions, born, became>>

-----------------------------------------------------------------------------
(* ... and goes on, whatever has become of the row.                        *)

Issued(r) == tokens \cup {[id |-> task[r].id, role |-> task[r].role,
                           until |-> now + AccessTTL]}

\* IssueAccessToken, then CreateRefreshToken or CreateRefreshTokenUntil, whose
\* failure costs the cookie only.
Issue(r) ==
  LET k == task[r] IN
  /\ k.pc = "issue"
  /\ tokens' = Issued(r)
  /\ \/ /\ Exists(k.id)
        /\ sessions' = sessions \cup {[id |-> k.id, opened |-> k.from, until |-> now + k.ttl]}
     \/ UNCHANGED sessions
  /\ Finish(r)
  /\ UNCHANGED <<now, users, server, born, became>>

\* Mutant of Deadline: a rotation always extends the session.
Sliding(k) == now + RefreshTTL

Deadline(k) == IF k.role = "demo" THEN k.session.until ELSE now + RefreshTTL

\* The replacement is stored, then the access token is signed.
Renew(r) ==
  LET k == task[r] IN
  /\ k.pc = "renew"
  /\ Exists(k.id)
  /\ Deadline(k) > now
  /\ sessions' = sessions \cup {[k.session EXCEPT !.until = Deadline(k)]}
  /\ tokens' = Issued(r)
  /\ Finish(r)
  /\ UNCHANGED <<now, users, server, born, became>>

\* The servers whose demo account is the one a request changes.
Touch(u) ==
  server' = [s \in Servers |->
    [server[s] EXCEPT !.touched = @ \/ (server[s].id = u /\ users'[u] # users[u])]]

\* UpdateUserEmail; an address that is taken is answered 409.
UpdateUserEmail(r, e) ==
  LET u == task[r].id IN
  /\ task[r].pc = "email"
  /\ Exists(u)
  /\ Taken(e) => Named(u, e)
  /\ users' = [users EXCEPT ![u].email = e]
  /\ Touch(u)
  /\ Finish(r)
  /\ UNCHANGED <<now, tokens, sessions, born, became>>

\* Mutant of SessionsOf: none goes with the account.
NoSessions(u) == {}

SessionsOf(u) == {s \in sessions : s.id = u}

\* db.Users.UpdateUserPassword ...
ChangePassword(r) ==
  LET u == task[r].id IN
  /\ task[r].pc = "password"
  /\ Exists(u)
  /\ users' = [users EXCEPT ![u].pw = "own"]
  /\ Touch(u)
  /\ Begin(r, [task[r] EXCEPT !.pc = "revoke"])
  /\ UNCHANGED <<now, tokens, sessions, born, became>>

\* ... RevokeAllForUser, without which the change is answered 500 and the old
\* sessions go on under the new password ...
RevokeSessions(r) ==
  /\ task[r].pc = "revoke"
  /\ sessions' = sessions \ SessionsOf(task[r].id)
  /\ Begin(r, [task[r] EXCEPT !.pc = "store"])
  /\ UNCHANGED <<now, users, server, tokens, born, became>>

\* ... then CreateRefreshToken for the caller, whose role nobody asks for.
StoreFresh(r) ==
  LET k == task[r] IN
  /\ k.pc = "store"
  /\ Exists(k.id)
  /\ Cardinality(sessions) < MaxHeld
  /\ sessions' = sessions \cup {[id |-> k.id, opened |-> k.from, until |-> now + RefreshTTL]}
  /\ Finish(r)
  /\ UNCHANGED <<now, users, server, tokens, born, became>>

\* DeleteUser; refresh_tokens.user_id is ON DELETE CASCADE.
DeleteUser(r) ==
  LET u == task[r].id IN
  /\ task[r].pc = "delete"
  /\ Exists(u)
  /\ users' = [users EXCEPT ![u] = [Blank EXCEPT !.role = "gone"]]
  /\ Touch(u)
  /\ sessions' = sessions \ SessionsOf(u)
  /\ Finish(r)
  /\ UNCHANGED <<now, tokens, born, became>>

\* The statement fails, finds no row, or the request or its server ends.
GiveUp(r) ==
  /\ task[r].pc # "none"
  /\ Finish(r)
  /\ UNCHANGED <<now, users, server, tokens, sessions, born, became>>

\* jwt.ParseWithClaims and ClaimActive take x until its deadline.
InTime(x) == now + 1 < x.until

\* The context of a request ends it before it gets older than MaxStall.
Tick ==
  /\ now < MaxTime
  /\ \A r \in Requests : task[r].pc # "none" => now < task[r].from + MaxStall
  /\ now' = now + 1
  /\ tokens' = {t \in tokens : InTime(t)}
  /\ sessions' = {s \in sessions : InTime(s)}
  /\ UNCHANGED <<users, server, task, born, became>>

-----------------------------------------------------------------------------
\* DEMO_USER_EMAIL is set while there are ordinary accounts, at that address
\* perhaps, and servers that run without.
Init ==
  /\ now = 0
  /\ \E accounts \in (SUBSET Ids) \ {Ids} : \E email \in [accounts -> Emails] :
       /\ \A u, v \in accounts : email[u] = email[v] => u = v
       /\ users = [u \in Ids |-> IF u \in accounts
                     THEN [Blank EXCEPT !.email = email[u], !.role = "user"] ELSE Blank]
  /\ \E up \in SUBSET Servers :
       server = [s \in Servers |-> [pc |-> IF s \in up THEN "up" ELSE "down",
                                   id |-> None, touched |-> FALSE]]
  /\ task = [r \in Requests |-> [pc |-> "none"]]
  /\ tokens = {}
  /\ sessions = {}
  /\ born = {}
  /\ became = [u \in Ids |-> 0]

\* Starting, which a supervisor does again whenever it has failed.
StartUp(s) ==
  \/ Start(s)
  \/ LookUp(s)
  \/ \E u \in Ids : CreateDemoUser(s, u)
  \/ UpdateUserPassword(s)
  \/ SetUserRole(s)
  \/ ExitOnError(s)

Receive(r) ==
  \/ \E u \in Ids : \/ Login(r, u)
                    \/ DemoLogin(r, u)
                    \/ \E e \in Emails : Signup(r, u, e)
  \/ \E s \in sessions : Refresh(r, s)
  \/ \E t \in tokens, op \in Mutations : Admit(r, t, op)

Proceed(r) ==
  \/ Issue(r)
  \/ Renew(r)
  \/ \E e \in Emails : UpdateUserEmail(r, e)
  \/ ChangePassword(r)
  \/ RevokeSessions(r)
  \/ StoreFresh(r)
  \/ DeleteUser(r)
  \/ GiveUp(r)

Next ==
  \/ \E s \in Servers : StartUp(s) \/ Kill(s)
  \/ \E r \in Requests : Receive(r) \/ Proceed(r)
  \/ Tick

Spec == Init /\ [][Next]_vars

\* A supervisor restarts a server that exited and the scheduler runs it; a
\* request ends; the clock runs.
FairSpec == Spec /\ \A s \in Servers : WF_vars(StartUp(s))
                 /\ \A r \in Requests : WF_vars(Proceed(r))
                 /\ WF_vars(Tick)

-----------------------------------------------------------------------------
(* What start-up and the roles promise.                                    *)

Demo(u) == users[u].role = "demo"
Later(m, n) == IF m < n THEN n ELSE m

\* handlers/auth.go:202 "creates or updates the demo account": on every server
\* that is up the account it found or made has the address, password and role of
\* the environment, whatever the other servers did at the same time and
\* wherever they died, unless a request of its owner has changed it since.
UpMeansDemoReady ==
  \A s \in Servers :
     server[s].pc = "up" /\ server[s].id # None /\ ~server[s].touched =>
        users[server[s].id] = DemoRow

\* middleware/auth.go:111 "Demo sessions fail with 403": nobody ever changes or
\* deletes an account that was created as the demo account, and one that was an
\* ordinary account changes only while a request admitted by a token from
\* before may be under way.  (A start gives it its password again.)
Settled(u) == u \in born \/ now >= became[u] + AccessTTL + 2 * MaxStall
DemoAccountSettles ==
  [][\A u \in Ids : Demo(u) /\ Settled(u) =>
       users'[u] \in {users[u], [users[u] EXCEPT !.pw = "demo"]}]_vars

\* internal/auth/config.go:22 "Rotation must not extend it": a session of a demo
\* account ends within a lifetime of being opened or, if that was earlier, of
\* the moment the account became one, however often it is refreshed.
DemoSessionsEnd ==
  \A s \in sessions : Demo(s.id) =>
     s.until <= Later(s.opened, became[s.id]) + MaxStall + RefreshTTL

\* main.go:77: wherever a start was interrupted and whoever took the address
\* meanwhile, a server that starts is up in the end, or up without a database.
ServersComeUp ==
  \A s \in Servers : server[s].pc \in Starting ~> server[s].pc \in {"up", "degraded"}

-----------------------------------------------------------------------------
(* The inductive invariant.                                                *)

Used(u) == users[u].role # "unused"

\* No token lasts longer than AccessTTL; one that says user is no token of a
\* demo account, or was asked for before the account became one.
TokenSound(t) ==
  /\ Used(t.id)
  /\ now < t.until /\ t.until <= now + AccessTTL
  /\ t.role = "user" /\ Demo(t.id) =>
       t.id \notin born /\ t.until <= became[t.id] + MaxStall + AccessTTL

\* What a session may last to.
Ends(s) ==
  /\ Demo(s.id) => s.until <= Later(s.opened, became[s.id]) + MaxStall + RefreshTTL
  /\ s.until <= now + RefreshTTL

SessionSound(s) == Exists(s.id) /\ Ends(s)

\* No request is older than MaxStall; one that holds the role user, or was let in
\* by it, is none of a demo account, or read it before the account became one.
TaskSound(k) ==
  k.pc # "none" =>
    /\ Used(k.id)
    /\ k.from <= now /\ now <= k.from + MaxStall
    /\ k.pc \in {"issue", "renew"} /\ k.role = "user" /\ Demo(k.id) =>
         k.id \notin born /\ k.from <= became[k.id]
    /\ k.pc \in Mutations /\ Demo(k.id) =>
         k.id \notin born /\ k.from < became[k.id] + MaxStall + AccessTTL
    /\ k.pc = "renew" => k.session.id = k.id /\ Ends(k.session)

\* What a server that starts has done of the demo account so far.
ServerSound(x) ==
  /\ x.pc \in {"password", "role"} => x.id \in Ids
  /\ x.pc \in {"password", "role"} /\ ~x.touched => Named(x.id, DemoEmail)
  /\ x.pc = "role" /\ ~x.touched => users[x.id].pw = "demo"

HoldersSound ==
  /\ \A t \in tokens : TokenSound(t)
  /\ \A s \in sessions : SessionSound(s)
  /\ \A r \in Requests : TaskSound(task[r])

AccountsSound ==
  /\ \A u \in born : users[u] = DemoRow
  /\ \A u \in Ids : became[u] <= now

StartsSound == \A s \in Servers : ServerSound(server[s])

IInv == TypeOK /\ HoldersSound /\ AccountsSound /\ StartsSound /\ UpMeansDemoReady
=============================================================================
