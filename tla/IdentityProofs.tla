--------------------------- MODULE IdentityProofs ---------------------------
(* A server that is up has its demo account ready, the sessions of a demo  *)
(* account end, and the account settles: for every number of accounts,     *)
(* servers and requests, and whatever the lifetimes are.                   *)
EXTENDS Identity, TLAPS

-----------------------------------------------------------------------------
(* What a change of the users table leaves sound.                          *)

\* A row that is there stays there, and one that says demo said so before or
\* says so from this moment.
Onward ==
  /\ now' = now
  /\ \A u \in Ids : Used(u) =>
       /\ Used(u)'
       /\ Demo(u)' => \/ Demo(u) /\ became'[u] = became[u] /\ (u \in born' => u \in born)
                      \/ u \notin born' /\ became'[u] = now

LEMMA OnwardTokens ==
  ASSUME IInv, Onward, NEW t \in Token, TokenSound(t)
  PROVE  TokenSound(t)'
BY IdentityAssumption
DEF IdentityAssumption, IInv, TypeOK, Onward, TokenSound, Token, Used

LEMMA OnwardEnds ==
  ASSUME IInv, Onward, NEW s \in Session, Used(s.id), Ends(s)
  PROVE  Ends(s)'
BY IdentityAssumption
DEF IdentityAssumption, IInv, TypeOK, Onward, Ends, Session, Later

LEMMA TaskFields ==
  ASSUME NEW k \in Task, k.pc # "none"
  PROVE  /\ k.id \in Ids /\ k.from \in Nat
         /\ k.pc \in {"issue", "renew", "revoke", "store"} \cup Mutations
         /\ k.pc = "issue" => k.ttl \in {RefreshTTL, DemoTTL}
         /\ k.pc = "renew" => k.session \in Session
         /\ k.pc \in {"issue", "renew"} => k.role \in Roles
BY DEF Task, Mutations

LEMMA OnwardTasks ==
  ASSUME IInv, Onward, NEW k \in Task, TaskSound(k)
  PROVE  TaskSound(k)'
<1> SUFFICES ASSUME k.pc # "none"
             PROVE  TaskSound(k)'
  BY DEF TaskSound
<1>1. k.id \in Ids /\ k.from \in Nat /\ (k.pc = "renew" => k.session \in Session)
  BY TaskFields
<1>2. k.pc = "renew" => Ends(k.session)'
  BY <1>1, OnwardEnds DEF TaskSound
<1>3. k.pc \in {"issue", "renew"} /\ k.role = "user" /\ Demo(k.id)' =>
        k.id \notin born' /\ k.from <= became'[k.id]
  BY <1>1 DEF TaskSound, Onward
<1>4. k.pc \in Mutations /\ Demo(k.id)' =>
        k.id \notin born' /\ k.from < became'[k.id] + MaxStall + AccessTTL
  BY <1>1, IdentityAssumption
  DEF IdentityAssumption, TaskSound, Onward, IInv, TypeOK
<1> QED
  BY <1>1, <1>2, <1>3, <1>4 DEF TaskSound, Onward

-----------------------------------------------------------------------------
(* The steps that leave the accounts alone.                                *)

LEMMA InitSound == Init => IInv
<1> SUFFICES ASSUME Init
             PROVE  IInv
  OBVIOUS
<1> USE DEF Init
<1>0. PICK accounts \in SUBSET Ids : \E email \in [accounts -> Emails] :
        users = [u \in Ids |-> IF u \in accounts
                   THEN [Blank EXCEPT !.email = email[u], !.role = "user"] ELSE Blank]
  OBVIOUS
<1>1. PICK email \in [accounts -> Emails] :
        users = [u \in Ids |-> IF u \in accounts
                   THEN [Blank EXCEPT !.email = email[u], !.role = "user"] ELSE Blank]
  BY <1>0
<1>2. users \in [Ids -> Row]
  BY <1>1, IdentityAssumption DEF IdentityAssumption, Row, Roles, Blank
<1>3. server \in [Servers -> Server] /\ \A s \in Servers : server[s].id = None
                                                      /\ server[s].pc \in {"up", "down"}
  <2>1. PICK up \in SUBSET Servers :
          server = [s \in Servers |-> [pc |-> IF s \in up THEN "up" ELSE "down",
                                       id |-> None, touched |-> FALSE]]
    OBVIOUS
  <2> QED
    BY <2>1 DEF Server
<1>4. task \in [Requests -> Task]
  BY DEF Task
<1>5. TypeOK
  BY <1>2, <1>3, <1>4 DEF TypeOK
<1>6. HoldersSound /\ AccountsSound
  <2>1. \A r \in Requests : TaskSound(task[r])
    BY DEF TaskSound
  <2>2. now = 0 /\ tokens = {} /\ sessions = {} /\ born = {} /\ became = [u \in Ids |-> 0]
    OBVIOUS
  <2> HIDE DEF Init
  <2> QED
    BY <2>1, <2>2 DEF HoldersSound, AccountsSound
<1>7. StartsSound /\ UpMeansDemoReady
  BY <1>3 DEF StartsSound, ServerSound, UpMeansDemoReady
<1> QED
  BY <1>5, <1>6, <1>7 DEF IInv

LEMMA StaysOnward ==
  ASSUME UNCHANGED <<now, users, born, became>>
  PROVE  Onward
BY DEF Onward, Demo, Used

\* A start that has written nothing yet, or ended.
LEMMA MoveSound ==
  ASSUME IInv, NEW s \in Servers, NEW x \in Server,
         server' = [server EXCEPT ![s] = x],
         ServerSound(x), x.pc = "up" => x.id = None,
         UNCHANGED <<now, users, task, tokens, sessions, born, became>>
  PROVE  IInv'
<1> USE DEF IInv
<1>1. TypeOK'
  BY DEF TypeOK
<1>2. HoldersSound'
  BY DEF HoldersSound, TokenSound, SessionSound, TaskSound, Ends, Exists, Used, Demo
<1>3. AccountsSound'
  BY DEF AccountsSound
<1>4. StartsSound'
  BY DEF StartsSound, ServerSound, Named, Exists, TypeOK
<1>5. UpMeansDemoReady'
  BY DEF UpMeansDemoReady, TypeOK
<1> QED
  BY <1>1, <1>2, <1>3, <1>4, <1>5

LEMMA QuietStart ==
  ASSUME IInv, NEW s \in Servers, Start(s) \/ LookUp(s) \/ ExitOnError(s) \/ Kill(s)
  PROVE  IInv'
<1>1. CASE Start(s) \/ ExitOnError(s) \/ Kill(s)
  <2>1. PICK pc \in {"look", "degraded", "down"} : Move(s, pc, None)
    BY <1>1 DEF Start, ExitOnError, Kill
  <2> DEFINE x == [pc |-> pc, id |-> None, touched |-> FALSE]
  <2>2. x \in Server /\ ServerSound(x) /\ x.pc # "up"
    BY DEF Server, Starting, ServerSound
  <2> QED
    BY <1>1, <2>1, <2>2, MoveSound DEF Move, Start, ExitOnError, Kill
<1>2. ASSUME NEW u \in Ids, Named(u, DemoEmail), Move(s, "password", u), LookUp(s)
      PROVE  IInv'
  <2> DEFINE x == [pc |-> "password", id |-> u, touched |-> FALSE]
  <2>1. x \in Server /\ ServerSound(x) /\ x.pc # "up"
    BY <1>2 DEF Server, Starting, ServerSound
  <2> QED
    BY <1>2, <2>1, MoveSound DEF Move, LookUp
<1>3. CASE LookUp(s) /\ Move(s, "create", None)
  <2> DEFINE x == [pc |-> "create", id |-> None, touched |-> FALSE]
  <2>1. x \in Server /\ ServerSound(x) /\ x.pc # "up"
    BY DEF Server, Starting, ServerSound
  <2> QED
    BY <1>3, <2>1, MoveSound DEF Move, LookUp
<1> QED
  BY <1>1, <1>2, <1>3 DEF LookUp

\* A request reads, or stores what it relies on.
LEMMA HoldSound ==
  ASSUME IInv, NEW r \in Requests, NEW k \in Task, task' = [task EXCEPT ![r] = k],
         TaskSound(k),
         tokens' \subseteq Token, \A t \in tokens' \ tokens : TokenSound(t),
         sessions' \subseteq Session, \A s \in sessions' \ sessions : SessionSound(s),
         UNCHANGED <<now, users, server, born, became>>
  PROVE  IInv'
<1> USE DEF IInv
<1>1. TypeOK'
  BY DEF TypeOK
<1>2. \A t \in Token : TokenSound(t) => TokenSound(t)'
  BY DEF TokenSound, Used, Demo
<1>3. \A s \in Session : SessionSound(s) => SessionSound(s)'
  BY DEF SessionSound, Ends, Exists, Demo
<1>4. \A q \in Task : TaskSound(q) => TaskSound(q)'
  BY DEF TaskSound, Ends, Used, Demo
<1>5. HoldersSound'
  BY <1>1, <1>2, <1>3, <1>4 DEF HoldersSound, TypeOK
<1>6. AccountsSound'
  BY DEF AccountsSound
<1>7. StartsSound' /\ UpMeansDemoReady'
  BY DEF StartsSound, ServerSound, UpMeansDemoReady, Named, Exists
<1> QED
  BY <1>1, <1>5, <1>6, <1>7

LEMMA RequestFields ==
  ASSUME IInv, NEW r \in Requests, task[r].pc # "none"
  PROVE  /\ task[r] \in Task /\ TaskSound(task[r])
         /\ task[r].id \in Ids /\ task[r].from \in Nat /\ Used(task[r].id)
         /\ now \in Nat /\ task[r].from <= now /\ now <= task[r].from + MaxStall
BY TaskFields DEF IInv, TypeOK, HoldersSound, TaskSound

LEMMA ReadingSound ==
  ASSUME IInv, NEW r \in Requests,
         \/ \E u \in Ids : Login(r, u) \/ DemoLogin(r, u)
         \/ \E s \in sessions : Refresh(r, s)
         \/ \E t \in tokens, op \in Mutations : Admit(r, t, op)
  PROVE  IInv'
<1> USE DEF Begin
<1>0. now \in Nat /\ now <= now + MaxStall
  BY IdentityAssumption DEF IdentityAssumption, IInv, TypeOK
<1>1. ASSUME NEW u \in Ids, Login(r, u) \/ DemoLogin(r, u)
      PROVE  IInv'
  <2> DEFINE k(role, ttl) == [pc |-> "issue", id |-> u, from |-> now, role |-> role, ttl |-> ttl]
  <2>1. PICK role \in Roles, ttl \in {RefreshTTL, DemoTTL} :
          task' = [task EXCEPT ![r] = k(role, ttl)] /\ role = users[u].role
    BY <1>1 DEF Login, DemoLogin, RoleOf, Exists, Roles
  <2>2. k(role, ttl) \in Task
    BY <1>0 DEF Task
  <2>3. TaskSound(k(role, ttl))
    BY <1>0, <2>1 DEF TaskSound, Used, Demo, Roles, Mutations
  <2> QED
    BY <1>1, <2>1, <2>2, <2>3, HoldSound DEF Login, DemoLogin, IInv, TypeOK
<1>2. ASSUME NEW s \in sessions, Refresh(r, s)
      PROVE  IInv'
  <2> DEFINE k == [pc |-> "renew", id |-> s.id, from |-> now, role |-> users[s.id].role,
                   session |-> s]
  <2>1. s \in Session /\ s.id \in Ids /\ SessionSound(s)
    BY DEF IInv, TypeOK, HoldersSound, Session
  <2>2. k \in Task
    BY <1>0, <2>1 DEF Task, SessionSound, Exists
  <2>3. TaskSound(k)
    BY <1>0, <2>1 DEF TaskSound, SessionSound, Exists, Used, Demo, Roles, Mutations
  <2> QED
    BY <1>2, <2>2, <2>3, HoldSound DEF Refresh, RoleOf, IInv, TypeOK
<1>3. ASSUME NEW t \in tokens, NEW op \in Mutations, Admit(r, t, op)
      PROVE  IInv'
  <2> DEFINE k == [pc |-> op, id |-> t.id, from |-> now]
  <2>1. t \in Token /\ t.id \in Ids /\ t.until \in Nat /\ TokenSound(t)
    BY DEF IInv, TypeOK, HoldersSound, Token
  <2>2. k \in Task
    BY <1>0, <2>1 DEF Task
  <2>3. TaskSound(k)
    BY <1>0, <1>3, <2>1, IdentityAssumption
    DEF IdentityAssumption, TaskSound, TokenSound, Admit, RequireRole, Mutations, IInv, TypeOK
  <2> QED
    BY <1>3, <2>2, <2>3, HoldSound DEF Admit, IInv, TypeOK
<1> QED
  BY <1>1, <1>2, <1>3

LEMMA FinishSound ==
  ASSUME IInv, NEW r \in Requests, Finish(r),
         tokens' \subseteq Token, \A t \in tokens' \ tokens : TokenSound(t),
         sessions' \subseteq Session, \A s \in sessions' \ sessions : SessionSound(s),
         UNCHANGED <<now, users, server, born, became>>
  PROVE  IInv'
<1> DEFINE k == [pc |-> "none"]
<1>1. k \in Task /\ TaskSound(k)
  BY DEF Task, TaskSound
<1> QED
  BY <1>1, HoldSound DEF Finish, Begin

\* The token signed for a request that read the role.
LEMMA IssuedSound ==
  ASSUME IInv, NEW r \in Requests, task[r].pc \in {"issue", "renew"}
  PROVE  /\ Issued(r) \subseteq Token
         /\ \A t \in Issued(r) \ tokens : TokenSound(t)
<1> DEFINE t == [id |-> task[r].id, role |-> task[r].role, until |-> now + AccessTTL]
<1>1. task[r].role \in Roles
  BY RequestFields, TaskFields
<1>2. t \in Token
  BY <1>1, RequestFields, IdentityAssumption DEF IdentityAssumption, Token
<1>3. TokenSound(t)
  BY RequestFields, IdentityAssumption
  DEF IdentityAssumption, TokenSound, TaskSound, IInv, TypeOK
<1> QED
  BY <1>2, <1>3 DEF Issued, IInv, TypeOK

LEMMA StoringSound ==
  ASSUME IInv, NEW r \in Requests, Issue(r) \/ Renew(r) \/ StoreFresh(r) \/ GiveUp(r)
  PROVE  IInv'
<1> DEFINE k == task[r]
<1> USE IdentityAssumption DEF IdentityAssumption
<1>0. k.pc # "none"
  BY DEF Issue, Renew, StoreFresh, GiveUp
<1>1. sessions \subseteq Session /\ tokens \subseteq Token
  BY DEF IInv, TypeOK
<1>2. ASSUME NEW ttl \in {RefreshTTL, DemoTTL}, Exists(k.id)
      PROVE  LET s == [id |-> k.id, opened |-> k.from, until |-> now + ttl]
             IN  s \in Session /\ SessionSound(s)
  BY <1>0, <1>2, RequestFields DEF Session, SessionSound, Ends, Later, IInv, TypeOK
<1>3. CASE Issue(r)
  <2>1. k.ttl \in {RefreshTTL, DemoTTL}
    BY <1>0, <1>3, RequestFields, TaskFields DEF Issue
  <2> QED
    BY <1>1, <1>2, <1>3, <2>1, IssuedSound, FinishSound DEF Issue
<1>4. CASE Renew(r)
  <2> DEFINE s == [k.session EXCEPT !.until = Deadline(k)]
  <2>1. k.session \in Session /\ k.session.id = k.id /\ Ends(k.session)
    BY <1>0, <1>4, RequestFields, TaskFields DEF Renew, TaskSound
  <2>2. k.role \in Roles /\ k.id \in Ids /\ k.from \in Nat /\ now \in Nat /\ k.from <= now
           /\ now <= k.from + MaxStall
    BY <1>0, <1>4, RequestFields, TaskFields DEF Renew
  <2>3. became[k.id] \in Nat
    BY <2>2 DEF IInv, TypeOK
  <2>4. s \in Session
    BY <2>1, <2>2 DEF Session, Deadline
  <2>5. s.id = k.id /\ s.opened = k.session.opened /\ s.until = Deadline(k)
    BY <2>1 DEF Session
  <2>6. Ends(s)
    <3>1. CASE k.role = "demo"
      BY <2>1, <2>5, <3>1 DEF Ends, Deadline
    <3>2. CASE k.role = "user"
      <4>1. Demo(k.id) => k.from <= became[k.id]
        BY <1>0, <1>4, <3>2, RequestFields DEF Renew, TaskSound
      <4>2. s.until = now + RefreshTTL /\ s.opened \in Nat
        BY <2>4, <2>5, <3>2 DEF Deadline, Session
      <4> QED
        BY <2>2, <2>3, <2>5, <4>1, <4>2 DEF Ends, Later
    <3> QED
      BY <2>2, <3>1, <3>2 DEF Roles
  <2> QED
    BY <1>1, <1>4, <2>4, <2>5, <2>6, IssuedSound, FinishSound DEF Renew, SessionSound
<1>5. CASE StoreFresh(r)
  BY <1>1, <1>2, <1>5, FinishSound DEF StoreFresh
<1>6. CASE GiveUp(r)
  BY <1>1, <1>6, FinishSound DEF GiveUp
<1> QED
  BY <1>3, <1>4, <1>5, <1>6

-----------------------------------------------------------------------------
(* The steps that change an account.                                       *)

\* Where tokens, sessions and requests lose or keep what they hold, a change of
\* the table that goes Onward leaves the holders sound.
LEMMA OnwardHolders ==
  ASSUME IInv, Onward, TypeOK', tokens' = tokens,
         \A s \in sessions' : s \in sessions /\ (Exists(s.id) => Exists(s.id)'),
         \A r \in Requests : task'[r] = task[r] \/ TaskSound(task[r])'
  PROVE  HoldersSound'
<1>1. \A t \in tokens' : TokenSound(t)'
  BY OnwardTokens DEF HoldersSound, IInv, TypeOK
<1>2. \A s \in sessions' : SessionSound(s)'
  BY OnwardEnds DEF HoldersSound, SessionSound, IInv, TypeOK, Exists, Used, Roles
<1>3. \A r \in Requests : TaskSound(task[r])'
  BY OnwardTasks DEF HoldersSound, IInv, TypeOK
<1> QED
  BY <1>1, <1>2, <1>3 DEF HoldersSound

LEMMA CreateDemoUserSound ==
  ASSUME IInv, NEW s \in Servers, NEW u \in Ids, CreateDemoUser(s, u)
  PROVE  IInv'
<1> USE DEF CreateDemoUser, Insert, Move
<1>1. DemoRow \in Row /\ users' \in [Ids -> Row]
  BY IdentityAssumption DEF IdentityAssumption, IInv, TypeOK, DemoRow, Row, Roles
<1>2. TypeOK'
  BY <1>1 DEF IInv, TypeOK, Server
<1>3. \A v \in Ids : v # u => users'[v] = users[v] /\ became'[v] = became[v]
  BY DEF IInv, TypeOK
<1>4. users'[u] = DemoRow /\ became'[u] = now
  BY DEF IInv, TypeOK
<1>5. \A v \in Ids : Used(v) => v # u
  BY DEF Used
<1>6. Onward
  BY <1>3, <1>5 DEF Onward, Used, Demo
<1>7. HoldersSound'
  BY <1>2, <1>3, <1>5, <1>6, OnwardHolders DEF Exists, Used, Roles, IInv, TypeOK, Session
<1>8. AccountsSound'
  BY <1>3, <1>4 DEF AccountsSound, IInv, TypeOK
<1>9. ASSUME NEW q \in Servers, q # s
      PROVE  ServerSound(server[q])' /\ server'[q] = server[q]
  BY <1>3, <1>5, <1>9 DEF StartsSound, ServerSound, Named, Exists, Used, Roles, IInv, TypeOK
<1>10. server'[s] = [pc |-> "up", id |-> u, touched |-> FALSE]
  BY DEF IInv, TypeOK
<1>11. StartsSound'
  BY <1>9, <1>10 DEF StartsSound, ServerSound
<1>12. UpMeansDemoReady'
  BY <1>3, <1>4, <1>5, <1>9, <1>10 DEF UpMeansDemoReady, Used, DemoRow, IInv, TypeOK, Server
<1> QED
  BY <1>2, <1>7, <1>8, <1>11, <1>12 DEF IInv

LEMMA UpdateUserPasswordSound ==
  ASSUME IInv, NEW s \in Servers, UpdateUserPassword(s)
  PROVE  IInv'
<1> DEFINE u == server[s].id
<1> USE DEF UpdateUserPassword, Step
<1>1. u \in Ids
  BY DEF IInv, StartsSound, ServerSound
<1>2. TypeOK'
  BY <1>1 DEF IInv, TypeOK, Row, Server, Starting
<1>3. \A v \in Ids : v # u => users'[v] = users[v]
  BY <1>1 DEF IInv, TypeOK
<1>4. users'[u] = [users[u] EXCEPT !.pw = "demo"]
  BY <1>1 DEF IInv, TypeOK
<1>5. /\ users'[u].email = users[u].email /\ users'[u].role = users[u].role
      /\ users'[u].pw = "demo"
      /\ (users[u] = DemoRow => users'[u] = DemoRow)
  BY <1>1, <1>4 DEF IInv, TypeOK, Row, DemoRow
<1>6. Onward
  BY <1>3, <1>5 DEF Onward, Used, Demo
<1>7. HoldersSound'
  BY <1>2, <1>3, <1>5, <1>6, OnwardHolders DEF Exists, IInv, TypeOK, Session
<1>8. AccountsSound'
  BY <1>3, <1>5 DEF AccountsSound, IInv, TypeOK
<1>9. ASSUME NEW q \in Servers, q # s
      PROVE  ServerSound(server[q])' /\ server'[q] = server[q]
  <2>1. server'[q] = server[q]
    BY <1>9 DEF IInv, TypeOK
  <2>2. server[q].pc \in {"password", "role"} => server[q].id \in Ids
    BY DEF IInv, StartsSound, ServerSound
  <2> QED
    BY <1>3, <1>5, <2>1, <2>2 DEF StartsSound, ServerSound, Named, Exists, IInv
<1>10. server'[s] = [server[s] EXCEPT !.pc = "role"] /\ server[s] \in Server
  BY DEF IInv, TypeOK
<1>11. ServerSound(server[s])'
  BY <1>1, <1>5, <1>10 DEF StartsSound, ServerSound, Named, Exists, IInv, Server
<1>12. StartsSound'
  BY <1>9, <1>11 DEF StartsSound
<1>13. UpMeansDemoReady'
  BY <1>3, <1>5, <1>9, <1>10 DEF UpMeansDemoReady, IInv, TypeOK, Server
<1> QED
  BY <1>2, <1>7, <1>8, <1>12, <1>13 DEF IInv

LEMMA SetUserRoleSound ==
  ASSUME IInv, NEW s \in Servers, SetUserRole(s)
  PROVE  IInv'
<1> DEFINE u == server[s].id
<1> USE DEF SetUserRole, Step, NewRole
<1>1. u \in Ids
  BY DEF IInv, StartsSound, ServerSound
<1>2. TypeOK'
  <2>1. users' \in [Ids -> Row] /\ became' \in [Ids -> Nat]
    BY <1>1 DEF IInv, TypeOK, Row, Roles
  <2>2. server' \in [Servers -> Server]
    BY DEF IInv, TypeOK, Server
  <2> QED
    BY <2>1, <2>2 DEF IInv, TypeOK
<1>3. \A v \in Ids : v # u => users'[v] = users[v] /\ became'[v] = became[v]
  BY <1>1 DEF IInv, TypeOK
<1>4. /\ users'[u] = [users[u] EXCEPT !.role = "demo"]
      /\ became'[u] = IF Demo(u) THEN became[u] ELSE now
  BY <1>1 DEF IInv, TypeOK, Demo
<1>5. /\ users'[u].email = users[u].email /\ users'[u].pw = users[u].pw
      /\ users'[u].role = "demo" /\ users[u].role \in Roles
      /\ (users[u] = DemoRow => users'[u] = DemoRow)
  BY <1>1, <1>4 DEF IInv, TypeOK, Row, DemoRow, Exists
<1>6. Onward
  <2>1. ~Demo(u) => u \notin born
    BY DEF IInv, AccountsSound, Demo, DemoRow
  <2> QED
    BY <1>3, <1>4, <1>5, <2>1 DEF Onward, Used, Demo
<1>7. HoldersSound'
  BY <1>2, <1>3, <1>5, <1>6, OnwardHolders DEF Exists, Roles, IInv, TypeOK, Session
<1>8. AccountsSound'
  BY <1>3, <1>4, <1>5 DEF AccountsSound, IInv, TypeOK
<1>9. ASSUME NEW q \in Servers, q # s
      PROVE  ServerSound(server[q])' /\ server'[q] = server[q]
  <2>1. server'[q] = server[q]
    BY <1>9 DEF IInv, TypeOK
  <2>2. server[q].pc \in {"password", "role"} => server[q].id \in Ids
    BY DEF IInv, StartsSound, ServerSound
  <2> QED
    BY <1>3, <1>5, <2>1, <2>2 DEF StartsSound, ServerSound, Named, Exists, Roles, IInv
<1>10. server'[s] = [server[s] EXCEPT !.pc = "up"] /\ server[s] \in Server
  BY DEF IInv, TypeOK
<1>11. StartsSound'
  BY <1>9, <1>10 DEF StartsSound, ServerSound, Server
<1>12. ~server[s].touched => users'[u] = DemoRow
  <2>1. ~server[s].touched => users[u].email = DemoEmail /\ users[u].pw = "demo"
    BY DEF IInv, StartsSound, ServerSound, Named
  <2> QED
    BY <1>1, <1>4, <2>1 DEF IInv, TypeOK, Row, DemoRow
<1>13. UpMeansDemoReady'
  BY <1>3, <1>5, <1>9, <1>10, <1>12 DEF UpMeansDemoReady, IInv, TypeOK, Server
<1> QED
  BY <1>2, <1>7, <1>8, <1>11, <1>13 DEF IInv

LEMMA SignupSound ==
  ASSUME IInv, NEW r \in Requests, NEW u \in Ids, NEW e \in Emails, Signup(r, u, e)
  PROVE  IInv'
<1> DEFINE row == [email |-> e, pw |-> "own", role |-> "user"]
           k == [pc |-> "issue", id |-> u, from |-> now, role |-> "user", ttl |-> RefreshTTL]
<1> USE DEF Signup, Insert, Begin
<1>0. now \in Nat /\ now <= now + MaxStall
  BY IdentityAssumption DEF IdentityAssumption, IInv, TypeOK
<1>1. row \in Row /\ k \in Task
  BY <1>0 DEF Row, Roles, Task
<1>2. TypeOK'
  <2>1. users' \in [Ids -> Row] /\ task' \in [Requests -> Task]
    BY <1>1 DEF IInv, TypeOK
  <2> QED
    BY <2>1 DEF IInv, TypeOK
<1>3. \A v \in Ids : v # u => users'[v] = users[v]
  BY DEF IInv, TypeOK
<1>4. users'[u] = row /\ task'[r] = k /\ \A q \in Requests : q # r => task'[q] = task[q]
  BY DEF IInv, TypeOK
<1>5. \A v \in Ids : Used(v) => v # u
  BY DEF Used
<1>6. Onward
  BY <1>3, <1>5 DEF Onward, Used, Demo
<1>7. TaskSound(task[r])'
  BY <1>0, <1>4 DEF TaskSound, Used, Demo, Mutations
<1>8. HoldersSound'
  BY <1>2, <1>3, <1>4, <1>5, <1>6, <1>7, OnwardHolders
  DEF Exists, Used, Roles, IInv, TypeOK, Session
<1>9. AccountsSound'
  BY <1>3 DEF AccountsSound, DemoRow, IInv, TypeOK
<1>10. StartsSound'
  BY <1>3, <1>5 DEF StartsSound, ServerSound, Named, Exists, Used, Roles, IInv
<1>11. UpMeansDemoReady'
  BY <1>3, <1>5 DEF UpMeansDemoReady, Used, DemoRow, IInv, TypeOK, Server
<1> QED
  BY <1>2, <1>8, <1>9, <1>10, <1>11 DEF IInv

\* Who changes the account of its token: it is not a born demo account, and a
\* server whose demo account it is has been touched if the row is another.
LEMMA ChangeSound ==
  ASSUME IInv, NEW r \in Requests, task[r].pc \in Mutations, NEW row \in Row, NEW k \in Task,
         users' = [users EXCEPT ![task[r].id] = row],
         row.role # "unused", row.role = "demo" => Demo(task[r].id),
         Touch(task[r].id), task' = [task EXCEPT ![r] = k], TaskSound(k)',
         \A s \in sessions' : s \in sessions /\ (s.id = task[r].id => row.role \in Roles),
         UNCHANGED <<now, tokens, born, became>>
  PROVE  IInv'
<1> DEFINE u == task[r].id
<1>1. u \in Ids /\ task[r].pc # "none" /\ (Demo(u) => u \notin born)
  BY RequestFields DEF TaskSound, Mutations
<1>2. TypeOK'
  <2>1. users' \in [Ids -> Row] /\ task' \in [Requests -> Task]
    BY <1>1 DEF IInv, TypeOK
  <2>2. server' \in [Servers -> Server]
    BY DEF Touch, IInv, TypeOK, Server
  <2> QED
    BY <2>1, <2>2 DEF IInv, TypeOK
<1>3. \A v \in Ids : v # u => users'[v] = users[v]
  BY <1>1 DEF IInv, TypeOK
<1>4. users'[u] = row /\ task'[r] = k /\ \A q \in Requests : q # r => task'[q] = task[q]
  BY <1>1 DEF IInv, TypeOK
<1>5. Onward
  BY <1>1, <1>3, <1>4 DEF Onward, Used, Demo
<1>6. HoldersSound'
  BY <1>2, <1>3, <1>4, <1>5, OnwardHolders DEF Exists, IInv, TypeOK, Session
<1>7. AccountsSound'
  <2>1. u \notin born
    BY <1>1 DEF IInv, AccountsSound, Demo, DemoRow
  <2> QED
    BY <1>3, <2>1 DEF AccountsSound, IInv, TypeOK
<1>8. ASSUME NEW s \in Servers
      PROVE  /\ server'[s].pc = server[s].pc /\ server'[s].id = server[s].id
             /\ ~server'[s].touched => ~server[s].touched
             /\ ~server'[s].touched /\ server[s].id \in Ids =>
                  users'[server[s].id] = users[server[s].id]
  <2>1. server'[s] = [server[s] EXCEPT !.touched =
                        @ \/ (server[s].id = u /\ users'[u] # users[u])]
    BY DEF Touch
  <2>2. server[s] \in Server
    BY DEF IInv, TypeOK
  <2>3. /\ server'[s].pc = server[s].pc /\ server'[s].id = server[s].id
        /\ server'[s].touched = (server[s].touched \/ (server[s].id = u /\ users'[u] # users[u]))
    BY <2>1, <2>2 DEF Server
  <2> QED
    BY <1>3, <2>3
<1>9. StartsSound'
  BY <1>8 DEF StartsSound, ServerSound, Named, Exists, IInv
<1>10. UpMeansDemoReady'
  BY <1>8 DEF UpMeansDemoReady, IInv, TypeOK, Server
<1> QED
  BY <1>2, <1>6, <1>7, <1>9, <1>10 DEF IInv

LEMMA RequestChangeSound ==
  ASSUME IInv, NEW r \in Requests,
         (\E e \in Emails : UpdateUserEmail(r, e)) \/ ChangePassword(r) \/ DeleteUser(r)
  PROVE  IInv'
<1> DEFINE u == task[r].id
           none == [pc |-> "none"]
<1>1. task[r].pc \in Mutations /\ task[r].pc # "none" /\ Exists(u)
  BY DEF UpdateUserEmail, ChangePassword, DeleteUser, Mutations
<1>2. u \in Ids /\ users[u] \in Row /\ users[u].role \in Roles
  BY <1>1, RequestFields DEF IInv, TypeOK, Exists
<1>3. none \in Task /\ TaskSound(none)'
  BY DEF Task, TaskSound
<1>4. \A s \in sessions : s \in Session
  BY DEF IInv, TypeOK
<1>5. ASSUME NEW e \in Emails, UpdateUserEmail(r, e)
      PROVE  IInv'
  <2> DEFINE row == [users[u] EXCEPT !.email = e]
  <2>1. row \in Row /\ row.role = users[u].role
    BY <1>2 DEF Row
  <2>2. users' = [users EXCEPT ![u] = row]
    BY <1>2, <1>5 DEF UpdateUserEmail, IInv, TypeOK
  <2> QED
    BY <1>1, <1>2, <1>3, <1>5, <2>1, <2>2, ChangeSound
    DEF UpdateUserEmail, Finish, Begin, Demo, Roles
<1>6. CASE ChangePassword(r)
  <2> DEFINE row == [users[u] EXCEPT !.pw = "own"]
             k == [task[r] EXCEPT !.pc = "revoke"]
  <2>1. row \in Row /\ row.role = users[u].role
    BY <1>2 DEF Row
  <2>2. users' = [users EXCEPT ![u] = row]
    BY <1>2, <1>6 DEF ChangePassword, IInv, TypeOK
  <2>3. task[r].pc = "password" /\ task[r] \in Task
    BY <1>1, <1>6, RequestFields DEF ChangePassword
  <2>4. PICK m \in Task : m = k /\ m.pc = "revoke" /\ m.id = u /\ m.from = task[r].from
    <3>1. task[r] \in [pc : Mutations \cup {"revoke", "store"}, id : Ids, from : Nat]
      BY <2>3 DEF Task
    <3>2. k \in [pc : Mutations \cup {"revoke", "store"}, id : Ids, from : Nat]
      BY <3>1
    <3> QED
      BY <3>1, <3>2 DEF Task
  <2>5. users'[m.id].role = users[u].role
    BY <1>2, <2>1, <2>2, <2>4 DEF IInv, TypeOK
  <2>6. TaskSound(m)'
    BY <1>1, <1>2, <1>6, <2>4, <2>5, RequestFields
    DEF ChangePassword, TaskSound, Mutations, Used, Roles
  <2> QED
    BY <1>1, <1>2, <1>6, <2>1, <2>2, <2>4, <2>6, ChangeSound
    DEF ChangePassword, Begin, Demo, Roles
<1>7. CASE DeleteUser(r)
  <2> DEFINE row == [Blank EXCEPT !.role = "gone"]
  <2>1. row \in Row /\ row.role = "gone"
    BY IdentityAssumption DEF IdentityAssumption, Row, Blank
  <2> QED
    BY <1>1, <1>3, <1>7, <2>1, ChangeSound DEF DeleteUser, Finish, Begin, SessionsOf
<1> QED
  BY <1>5, <1>6, <1>7

\* The revocation only takes sessions away.
LEMMA RevokeSessionsSound ==
  ASSUME IInv, NEW r \in Requests, RevokeSessions(r)
  PROVE  IInv'
<1> DEFINE k == [task[r] EXCEPT !.pc = "store"]
<1>1. task[r].pc = "revoke" /\ task[r] \in Task /\ TaskSound(task[r])
  BY RequestFields DEF RevokeSessions
<1>2. PICK m \in Task : m = k /\ m.pc = "store" /\ m.id = task[r].id /\ m.from = task[r].from
  <2>1. task[r] \in [pc : Mutations \cup {"revoke", "store"}, id : Ids, from : Nat]
    BY <1>1 DEF Task
  <2>2. k \in [pc : Mutations \cup {"revoke", "store"}, id : Ids, from : Nat]
    BY <2>1
  <2> QED
    BY <2>1, <2>2 DEF Task
<1>3. TaskSound(m)
  BY <1>1, <1>2 DEF TaskSound, Mutations
<1>4. sessions' \subseteq sessions /\ sessions \subseteq Session
  BY DEF RevokeSessions, SessionsOf, IInv, TypeOK
<1> QED
  BY <1>2, <1>3, <1>4, HoldSound DEF RevokeSessions, Begin, IInv, TypeOK

-----------------------------------------------------------------------------
(* The clock, and the theorems.                                            *)

LEMMA TickSound ==
  ASSUME IInv, Tick
  PROVE  IInv'
<1> USE IdentityAssumption DEF IdentityAssumption, Tick, InTime
<1>1. TypeOK'
  BY DEF IInv, TypeOK
<1>2. \A t \in tokens' : TokenSound(t)'
  BY DEF IInv, HoldersSound, TokenSound, TypeOK, Token, Used, Demo
<1>3. ASSUME NEW s \in Session, Used(s.id), Ends(s)
      PROVE  Ends(s)'
  BY <1>3 DEF IInv, TypeOK, Ends, Session, Demo
<1>4. \A s \in sessions' : SessionSound(s)'
  BY <1>3 DEF IInv, HoldersSound, TypeOK, SessionSound, Exists, Used, Roles
<1>5. ASSUME NEW r \in Requests
      PROVE  TaskSound(task[r])'
  <2> SUFFICES ASSUME task[r].pc # "none"
               PROVE  TaskSound(task[r])'
    BY DEF TaskSound
  <2>1. task[r].pc = "renew" => task[r].session \in Session
    BY RequestFields, TaskFields
  <2>2. task[r].pc = "renew" => Ends(task[r].session)'
    BY <1>3, <2>1, RequestFields DEF TaskSound
  <2>3. now' = now + 1 /\ now + 1 <= task[r].from + MaxStall /\ task[r].from <= now + 1
    BY RequestFields
  <2>4. \A u : Used(u)' = Used(u) /\ Demo(u)' = Demo(u)
    BY DEF Used, Demo
  <2> QED
    BY <2>2, <2>3, <2>4, RequestFields DEF TaskSound
<1>6. HoldersSound'
  BY <1>2, <1>4, <1>5 DEF HoldersSound
<1>7. AccountsSound'
  BY DEF IInv, AccountsSound, TypeOK
<1>8. StartsSound' /\ UpMeansDemoReady'
  BY DEF IInv, StartsSound, ServerSound, Named, Exists, UpMeansDemoReady
<1> QED
  BY <1>1, <1>6, <1>7, <1>8 DEF IInv

LEMMA StutterSound == IInv /\ UNCHANGED vars => IInv'
<1> SUFFICES ASSUME IInv, UNCHANGED vars
             PROVE  IInv'
  OBVIOUS
<1>1. TypeOK' /\ AccountsSound'
  BY DEF IInv, TypeOK, AccountsSound, vars
<1>2. HoldersSound'
  BY DEF IInv, HoldersSound, TokenSound, SessionSound, TaskSound, Ends, Exists, Used, Demo, vars
<1>3. StartsSound' /\ UpMeansDemoReady'
  BY DEF IInv, StartsSound, ServerSound, Named, Exists, UpMeansDemoReady, vars
<1> QED
  BY <1>1, <1>2, <1>3 DEF IInv

LEMMA NextSound ==
  ASSUME IInv, [Next]_vars
  PROVE  IInv'
<1>1. ASSUME NEW s \in Servers, StartUp(s) \/ Kill(s)
      PROVE  IInv'
  BY <1>1, QuietStart, CreateDemoUserSound, UpdateUserPasswordSound, SetUserRoleSound
  DEF StartUp
<1>2. ASSUME NEW r \in Requests, Receive(r)
      PROVE  IInv'
  BY <1>2, ReadingSound, SignupSound DEF Receive
<1>3. ASSUME NEW r \in Requests, Proceed(r)
      PROVE  IInv'
  BY <1>3, StoringSound, RequestChangeSound, RevokeSessionsSound DEF Proceed
<1> QED
  BY <1>1, <1>2, <1>3, TickSound, StutterSound DEF Next

\* The invariant from which the theorems below follow: what the holders of a
\* role rely on was read while it was true, and a server that starts has done
\* of the demo account what its program counter says.
THEOREM Invariance == Spec => []IInv
<1>1. Init => IInv
  BY InitSound
<1>2. IInv /\ [Next]_vars => IInv'
  BY NextSound
<1> QED
  BY <1>1, <1>2, PTL DEF Spec

\* Every variable keeps its type; that the role a refresh reads is one at all
\* rests on the sessions of a deleted account going with it.
THEOREM TypeCorrect == Spec => []TypeOK
<1>1. IInv => TypeOK
  BY DEF IInv
<1> QED
  BY <1>1, Invariance, PTL

\* EnsureDemoUser does what its comment says on every server, whatever other
\* servers do at the same time and wherever they died.
THEOREM DemoIsReady == Spec => []UpMeansDemoReady
<1>1. IInv => UpMeansDemoReady
  BY DEF IInv
<1> QED
  BY <1>1, Invariance, PTL

\* No rotation keeps a session of a demo account alive for longer than a session
\* that was opened when the account became one would have lived.
THEOREM SessionsOfDemoAccountsEnd == Spec => []DemoSessionsEnd
<1>1. IInv => DemoSessionsEnd
  BY DEF IInv, DemoSessionsEnd, HoldersSound, SessionSound, Ends
<1> QED
  BY <1>1, Invariance, PTL

LEMMA StepSettles ==
  ASSUME IInv, Next, NEW u \in Ids, Demo(u), Settled(u)
  PROVE  users'[u] \in {users[u], [users[u] EXCEPT !.pw = "demo"]}
<1> SUFFICES ASSUME users' # users
             PROVE  users'[u] \in {users[u], [users[u] EXCEPT !.pw = "demo"]}
  OBVIOUS
<1>0. users \in [Ids -> Row]
  BY DEF IInv, TypeOK
<1>1. ASSUME NEW s \in Servers, StartUp(s) \/ Kill(s)
      PROVE  users'[u] \in {users[u], [users[u] EXCEPT !.pw = "demo"]}
  <2>1. CASE \E v \in Ids : CreateDemoUser(s, v)
    BY <1>0, <2>1 DEF CreateDemoUser, Insert, Demo
  <2>2. CASE UpdateUserPassword(s)
    BY <1>0, <2>2 DEF UpdateUserPassword
  <2>3. CASE SetUserRole(s)
    BY <1>0, <2>3 DEF SetUserRole, NewRole, Demo, Row
  <2> QED
    BY <1>1, <2>1, <2>2, <2>3 DEF StartUp, Start, LookUp, ExitOnError, Kill
<1>2. ASSUME NEW r \in Requests, Receive(r)
      PROVE  users'[u] = users[u]
  BY <1>0, <1>2 DEF Receive, Login, DemoLogin, Signup, Insert, Refresh, Admit, Demo
<1>3. ASSUME NEW r \in Requests, Proceed(r)
      PROVE  users'[u] = users[u]
  <2>1. CASE task[r].pc \in Mutations
    <3>1. task[r].id # u
      <4> SUFFICES ASSUME task[r].id = u
                   PROVE  FALSE
        OBVIOUS
      <4>1. task[r].pc # "none"
        BY <2>1 DEF Mutations
      <4>2. u \notin born /\ task[r].from < became[u] + MaxStall + AccessTTL
        BY <2>1, <4>1, RequestFields DEF TaskSound
      <4>3. became[u] \in Nat
        BY DEF IInv, TypeOK
      <4> QED
        BY <4>1, <4>2, <4>3, RequestFields, IdentityAssumption
        DEF IdentityAssumption, Settled
    <3> QED
      BY <1>0, <1>3, <3>1
      DEF Proceed, Issue, Renew, UpdateUserEmail, ChangePassword, RevokeSessions, StoreFresh,
          DeleteUser, GiveUp
  <2> QED
    BY <1>3, <2>1
    DEF Proceed, Mutations, Issue, Renew, UpdateUserEmail, ChangePassword, RevokeSessions,
        StoreFresh, DeleteUser, GiveUp
<1> QED
  BY <1>1, <1>2, <1>3 DEF Next, Tick

\* RequireRole keeps everybody from changing or deleting the demo account, but
\* for as long as a token that was signed for the role before it may work.
THEOREM DemoAccountsSettle == Spec => DemoAccountSettles
<1>1. IInv /\ [Next]_vars =>
        [\A u \in Ids : Demo(u) /\ Settled(u) =>
           users'[u] \in {users[u], [users[u] EXCEPT !.pw = "demo"]}]_vars
  BY StepSettles
<1> QED
  BY <1>1, Invariance, PTL DEF Spec, DemoAccountSettles
=============================================================================
