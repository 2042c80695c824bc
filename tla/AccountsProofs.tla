--------------------------- MODULE AccountsProofs ---------------------------
(* The handlers use the service as RefreshTokens says it is used, so all   *)
(* that is proved of it holds under them; a change of password ends the    *)
(* old sessions, but for those it raced; and a browser's cookie is the     *)
(* last of its session unless the next one is on its way or was lost, so   *)
(* that a logout ends the session it is of.                                *)
EXTENDS Accounts, RefreshTokensProofs

-----------------------------------------------------------------------------
(* Every step of a handler is a step of the service or leaves it alone.    *)

LEMMA TaskFields ==
  ASSUME AccountsTypeOK, NEW r \in Requests, task[r].pc \in Steps
  PROVE  task[r].user \in Users /\ task[r].device \in Devices /\ task[r].pw \in Nat
BY DEF AccountsTypeOK, Task, Steps

LEMMA StoreIsServiceStep ==
  ASSUME AccountsTypeOK, NEW r \in Requests, NEW n \in Tokens, NEW by,
         task[r].pc \in Steps, Store(r, n, by)
  PROVE  Next
<1>1. task[r].user \in Users /\ task[r].device \in Devices
  BY TaskFields
<1> QED
  BY <1>1 DEF Store, Fingerprint, Next, Environment

LEMMA CookieIsAToken ==
  ASSUME AccountsTypeOK, NEW b \in Devices, cookie[b] # NoToken
  PROVE  cookie[b] \in Tokens
BY DEF AccountsTypeOK

LEMMA ServiceStep ==
  ASSUME AccountsTypeOK, [AccountsNext]_accountsVars
  PROVE  [Next]_vars
<1>1. ASSUME NEW r \in Requests, NEW b \in Devices, Receive(r, b)
      PROVE  [Next]_vars
  <2>1. CASE \E u \in Users : LoginCheck(r, b, u) \/ DemoCheck(r, b, u)
                              \/ ChangeCheck(r, b, u) \/ DeleteCheck(r, b, u)
    BY <2>1 DEF LoginCheck, DemoCheck, ChangeCheck, DeleteCheck
  <2>2. CASE RefreshCall(r, b)
    <3>1. cookie[b] \in Tokens
      BY <2>2, CookieIsAToken DEF RefreshCall, Send
    <3> QED
      BY <2>2, <3>1 DEF RefreshCall, Fingerprint, Next, Arrive
  <2>3. CASE LogoutCall(r, b)
    <3>1. cookie[b] \in Tokens
      BY <2>3, CookieIsAToken DEF LogoutCall, Send
    <3> QED
      BY <2>3, <3>1 DEF LogoutCall, Fingerprint, Next, Arrive
  <2> QED
    BY <1>1, <2>1, <2>2, <2>3 DEF Receive
<1>2. ASSUME NEW r \in Requests, Proceed(r)
      PROVE  [Next]_vars
  <2>1. ASSUME NEW n \in Tokens, LoginStore(r, n) \/ DemoStore(r, n) \/ ChangeFresh(r, n)
        PROVE  [Next]_vars
    BY <2>1, StoreIsServiceStep DEF LoginStore, DemoStore, ChangeFresh, Doing, Steps
  <2>2. CASE StoreFails(r) \/ ChangeStore(r) \/ ChangeStoreFails(r) \/ Deliver(r)
    BY <2>2 DEF StoreFails, ChangeStore, ChangeStoreFails, Deliver
  <2>3. CASE ChangeRevoke(r) \/ ChangeRevokeFails(r)
    <3>1. task[r].user \in Users
      BY <2>3, TaskFields DEF ChangeRevoke, ChangeRevokeFails, Doing, Steps
    <3> QED
      BY <2>3, <3>1 DEF ChangeRevoke, ChangeRevokeFails, SignOut, Next, Environment
  <2>4. CASE DeleteRun(r) \/ DeleteFails(r)
    <3>1. task[r].user \in Users
      BY <2>4, TaskFields DEF DeleteRun, DeleteFails, Doing, Steps
    <3> QED
      BY <2>4, <3>1 DEF DeleteRun, DeleteFails, Next, Environment
  <2>5. CASE CallStep(r) \/ CallStore(r) \/ CallReturns(r)
    BY <2>5 DEF CallStep, CallStore, CallReturns, Next, Advance
  <2> QED
    BY <1>2, <2>1, <2>2, <2>3, <2>4, <2>5 DEF Proceed
<1>3. CASE ClockTick
  BY <1>3 DEF ClockTick, Next, Environment
<1>4. CASE UNCHANGED accountsVars
  BY <1>4 DEF accountsVars
<1> QED
  BY <1>1, <1>2, <1>3, <1>4 DEF AccountsNext

-----------------------------------------------------------------------------
(* The quiet steps: no token is stored or claimed and nothing signed out.  *)

\* No token comes to life and no rotation begins.
Shrinks ==
  /\ family' = family
  /\ \A n \in Tokens : Live(n)' => Live(n) /\ rows'[n].user = rows[n].user
  /\ \A q \in Requests : Rotating(q)' =>
        /\ Rotating(q)
        /\ call'[q].token = call[q].token
        /\ call'[q].row.user = call[q].row.user

\* A request about to open a session already was, or holds a password that
\* nobody has signed out with.
NoneOutdated ==
  \A q \in Requests : task'[q].pc \in Opening =>
    \/ /\ task[q].pc \in Opening
       /\ task'[q].user = task[q].user
       /\ task'[q].pw = task[q].pw
    \/ ~(task'[q].pw < signedOut[task'[q].user])

\* Only a request that will store nothing stops being late.
LateStay ==
  \A q \in Requests : q \in late /\ q \notin late' =>
    task'[q].pc \notin Opening /\ ~Rotating(q)'

LEMMA QuietKeeps ==
  ASSUME AccountsInv, Shrinks, NoneOutdated, LateStay,
         UNCHANGED <<opened, signedOut, raced>>
  PROVE  OvertakenKnown' /\ OldSessionsEnd'
<1> USE DEF AccountsInv
<1>1. OldSessionsEnd'
  BY DEF OldSessionsEnd, Shrinks, Outdated
<1>2. \A q \in Requests :
         task'[q].pc \in Opening /\ task'[q].pw < signedOut'[task'[q].user] => q \in late'
  BY DEF OvertakenKnown, NoneOutdated, LateStay
<1>3. \A q \in Requests :
         Rotating(q)' /\ Outdated(family[call[q].token], call[q].row.user)
           => q \in late' \/ family[call[q].token] \in raced
  BY DEF OvertakenKnown, Shrinks, LateStay
<1>4. OvertakenKnown'
  BY <1>2, <1>3 DEF OvertakenKnown, Shrinks, Outdated
<1> QED
  BY <1>1, <1>4

LEMMA WaningShrinks ==
  ASSUME TypeOK, OnlyRevokes, NoNewRotation, family' = family
  PROVE  Shrinks
<1>1. \A n \in Tokens : Live(n)' => Live(n) /\ rows'[n].user = rows[n].user
  BY DEF OnlyRevokes, Live, Stored, TypeOK, Row
<1>2. \A q \in Requests : Rotating(q)' => call'[q] = call[q]
  BY DEF NoNewRotation, Rotating
<1> QED
  BY <1>1, <1>2 DEF Shrinks, Rotating

LEMMA UnchangedShrinks ==
  ASSUME UNCHANGED <<rows, call, family>>
  PROVE  Shrinks
BY DEF Shrinks, Live, Stored, Rotating

LEMMA RevokingShrinks ==
  ASSUME TypeOK, NEW u \in Users, RevokeAllForUser(u)
  PROVE  Shrinks
<1>1. OnlyRevokes
  BY RevokingOnlyRevokes DEF RevokeAllForUser
<1>2. NoNewRotation
  BY DEF RevokeAllForUser, NoNewRotation
<1> QED
  BY <1>1, <1>2, WaningShrinks DEF RevokeAllForUser, history

LEMMA DeletingShrinks ==
  ASSUME TypeOK, NEW u \in Users, DeleteUser(u)
  PROVE  Shrinks
<1>1. \A n \in Tokens : rows'[n] \in {rows[n], NoRow}
  BY DEF DeleteUser, TypeOK
<1>2. UNCHANGED <<call, family>>
  BY DEF DeleteUser, history
<1> QED
  BY <1>1, <1>2 DEF Shrinks, Live, Stored, Rotating

-----------------------------------------------------------------------------
(* How a request's task moves.                                             *)

LEMMA Moved ==
  ASSUME AccountsTypeOK, NEW r \in Requests, NEW k \in Task,
         task' = [task EXCEPT ![r] = k]
  PROVE  /\ task' \in [Requests -> Task]
         /\ task'[r] = k
         /\ \A q \in Requests \ {r} : task'[q] = task[q]
BY DEF AccountsTypeOK

LEMMA Answered ==
  ASSUME AccountsTypeOK, NEW r \in Requests, task[r].pc # "none",
         NEW c \in Tokens \cup {NoToken, "keep"}, Answer(r, c)
  PROVE  /\ task' \in [Requests -> Task]
         /\ task'[r].pc = "answer" /\ task'[r].set = c
         /\ task'[r].device = task[r].device
         /\ \A q \in Requests \ {r} : task'[q] = task[q]
<1> DEFINE k == [pc |-> "answer", device |-> task[r].device, set |-> c]
<1>1. task[r].device \in Devices
  BY DEF AccountsTypeOK, Task
<1>2. k \in Task /\ k.pc = "answer" /\ k.set = c /\ k.device = task[r].device
  BY <1>1 DEF Task
<1>3. task' = [task EXCEPT ![r] = k]
  BY DEF Answer
<1> HIDE DEF k
<1> QED
  BY <1>2, <1>3, Moved

LEMMA Gone ==
  ASSUME AccountsTypeOK, NEW r \in Requests, task[r].pc \in Steps, NEW pc \in Steps,
         NEW pw \in Nat, Goto(r, pc, pw)
  PROVE  /\ task' \in [Requests -> Task]
         /\ task'[r].pc = pc /\ task'[r].pw = pw /\ task'[r].user = task[r].user
         /\ task'[r].device = task[r].device
         /\ \A q \in Requests \ {r} : task'[q] = task[q]
<1> DEFINE k == [pc |-> pc, device |-> task[r].device, user |-> task[r].user, pw |-> pw]
<1>1. task[r].device \in Devices /\ task[r].user \in Users
  BY TaskFields
<1>2. /\ k \in Task /\ k.pc = pc /\ k.pw = pw /\ k.user = task[r].user
      /\ k.device = task[r].device
  BY <1>1 DEF Task
<1>3. task' = [task EXCEPT ![r] = k]
  BY DEF Goto
<1> HIDE DEF k
<1> QED
  BY <1>2, <1>3, Moved

LEMMA Accepted ==
  ASSUME AccountsTypeOK, NEW r \in Requests, NEW b \in Devices, NEW u \in Users,
         NEW pc \in Steps, Accept(r, b, u, pc)
  PROVE  /\ task' \in [Requests -> Task]
         /\ task'[r].pc = pc /\ task'[r].pw = password[u] /\ task'[r].user = u
         /\ task'[r].device = b
         /\ \A q \in Requests \ {r} : task'[q] = task[q]
<1> DEFINE k == [pc |-> pc, device |-> b, user |-> u, pw |-> password[u]]
<1>1. k \in Task /\ k.pc = pc /\ k.pw = password[u] /\ k.user = u /\ k.device = b
  BY DEF AccountsTypeOK, Task
<1>2. task' = [task EXCEPT ![r] = k]
  BY DEF Accept
<1> HIDE DEF k
<1> QED
  BY <1>1, <1>2, Moved

-----------------------------------------------------------------------------
(* The actions, one lemma for each kind.                                   *)

\* A handler that begins with a password that was right.
LEMMA AcceptKeeps ==
  ASSUME AccountsInv, TypeOK', NEW r \in Requests, NEW b \in Devices, NEW u \in Users,
         NEW pc \in {"login", "demo", "store", "delete"},
         Ready(r, b), Accept(r, b, u, pc), UNCHANGED <<vars, password, cookie, log>>
  PROVE  AccountsInv'
<1> USE DEF AccountsInv
<1>0. /\ UNCHANGED <<now, role, rows, call, family, parent, capped, issued>>
      /\ UNCHANGED <<password, cookie, opened, signedOut, late, raced, missed>>
  BY DEF vars, log
<1>1. /\ task' \in [Requests -> Task]
      /\ task'[r].pc = pc /\ task'[r].pw = password[u] /\ task'[r].user = u
      /\ \A q \in Requests \ {r} : task'[q] = task[q]
  BY Accepted DEF Steps
<1>2. AccountsTypeOK'
  BY <1>0, <1>1 DEF AccountsTypeOK
<1>3. CallsHaveTasks'
  BY <1>0, <1>1 DEF CallsHaveTasks, Ready, Doing
<1>4. password[u] \in Nat /\ signedOut[u] \in Nat /\ signedOut[u] <= password[u]
  BY DEF PasswordsGrow, AccountsTypeOK
<1>5. PasswordsGrow'
  BY <1>0, <1>1, <1>4 DEF PasswordsGrow
<1>6. NoneOutdated /\ LateStay
  BY <1>0, <1>1, <1>4 DEF NoneOutdated, LateStay
<1> QED
  BY <1>0, <1>2, <1>3, <1>5, <1>6, UnchangedShrinks, QuietKeeps

\* A handler that is done with its statements.
LEMMA AnswerKeeps ==
  ASSUME AccountsInv, TypeOK', Shrinks, NEW r \in Requests, task[r].pc # "none",
         NEW c \in Tokens \cup {NoToken, "keep"}, Answer(r, c),
         call' = call \/ call' = [call EXCEPT ![r] = Idle],
         call'[r].pc = "idle", TypeOK,
         late' = late \/ late' = late \ {r},
         \/ password' = password
         \/ \E u \in Users : password' = [password EXCEPT ![u] = @ + 1],
         UNCHANGED <<cookie, opened, signedOut, raced, missed>>
  PROVE  AccountsInv'
<1> USE DEF AccountsInv
<1>1. /\ task' \in [Requests -> Task]
      /\ task'[r].pc = "answer"
      /\ \A q \in Requests \ {r} : task'[q] = task[q]
  BY Answered
<1>2. /\ password' \in [Users -> Nat]
      /\ \A u \in Users : password[u] <= password'[u]
  BY DEF AccountsTypeOK
<1>3. AccountsTypeOK'
  BY <1>1, <1>2 DEF AccountsTypeOK
<1>4. CallsHaveTasks'
  BY <1>1 DEF CallsHaveTasks, TypeOK
<1>5. PasswordsGrow'
  <2>1. \A u \in Users : signedOut'[u] <= password'[u]
    BY <1>2 DEF PasswordsGrow, AccountsTypeOK
  <2>2. ASSUME NEW q \in Requests, task'[q].pc \in Steps
        PROVE  task'[q].pw <= password'[task'[q].user]
    <3>1. q # r /\ task'[q] = task[q]
      BY <1>1, <2>2 DEF Steps
    <3>2. /\ task[q].user \in Users /\ task[q].pw \in Nat
          /\ task[q].pw <= password[task[q].user]
      BY <2>2, <3>1, TaskFields DEF PasswordsGrow
    <3> QED
      BY <1>2, <3>1, <3>2 DEF AccountsTypeOK
  <2> QED
    BY <2>1, <2>2 DEF PasswordsGrow
<1>6. NoneOutdated
  BY <1>1 DEF NoneOutdated, Opening
<1>7. ~Rotating(r)'
  BY DEF Rotating
<1>8. LateStay
  BY <1>1, <1>7 DEF LateStay, Opening
<1> QED
  BY <1>3, <1>4, <1>5, <1>6, <1>8, QuietKeeps

LEMMA FailuresKeep ==
  ASSUME AccountsInv, IInv, TypeOK', NEW r \in Requests,
         \/ StoreFails(r) \/ ChangeStoreFails(r) \/ ChangeRevokeFails(r)
         \/ DeleteRun(r) \/ DeleteFails(r)
  PROVE  AccountsInv'
<1>0. TypeOK /\ AccountsTypeOK
  BY DEF IInv, AccountsInv
<1>1. task[r].pc \in {"login", "demo", "fresh", "store", "revoke", "delete"}
  BY DEF StoreFails, ChangeStoreFails, ChangeRevokeFails, DeleteRun, DeleteFails, Doing
<1>2. task[r].pc # "none" /\ task[r].user \in Users
  BY <1>0, <1>1, TaskFields DEF Steps
<1>3. call[r].pc = "idle"
  BY <1>1 DEF AccountsInv, CallsHaveTasks
<1>4. call' = call /\ Shrinks
  <2>1. CASE StoreFails(r) \/ ChangeStoreFails(r)
    BY <2>1, UnchangedShrinks DEF StoreFails, ChangeStoreFails, vars
  <2>2. CASE ChangeRevokeFails(r)
    <3>1. CASE UNCHANGED vars
      BY <3>1, UnchangedShrinks DEF vars
    <3>2. CASE SignOut(r)
      BY <1>0, <1>2, <3>2, RevokingShrinks DEF SignOut, RevokeAllForUser
    <3> QED
      BY <2>2, <3>1, <3>2 DEF ChangeRevokeFails
  <2>3. CASE DeleteRun(r) \/ DeleteFails(r)
    <3>1. CASE UNCHANGED vars
      BY <3>1, UnchangedShrinks DEF vars
    <3>2. CASE DeleteUser(task[r].user)
      BY <1>0, <1>2, <3>2, DeletingShrinks DEF DeleteUser
    <3> QED
      BY <2>3, <3>1, <3>2 DEF DeleteRun, DeleteFails
  <2> QED
    BY <2>1, <2>2, <2>3
<1>5. /\ late' = late \/ late' = late \ {r}
      /\ \/ password' = password
         \/ \E u \in Users : password' = [password EXCEPT ![u] = @ + 1]
      /\ UNCHANGED <<cookie, opened, signedOut, raced, missed>>
  BY <1>2 DEF StoreFails, ChangeStoreFails, ChangeRevokeFails, DeleteRun, DeleteFails, log
<1>6. \E c \in {NoToken, "keep"} : Answer(r, c)
  BY DEF StoreFails, ChangeStoreFails, ChangeRevokeFails, DeleteRun, DeleteFails
<1> QED
  BY <1>0, <1>2, <1>3, <1>4, <1>5, <1>6, AnswerKeeps

LEMMA ChangeStoreKeeps ==
  ASSUME AccountsInv, TypeOK', NEW r \in Requests, ChangeStore(r)
  PROVE  AccountsInv'
<1> DEFINE u == task[r].user
<1> USE DEF AccountsInv
<1>0. /\ UNCHANGED <<now, role, rows, call, family, parent, capped, issued>>
      /\ UNCHANGED <<cookie, opened, signedOut, late, raced, missed>>
      /\ password' = [password EXCEPT ![u] = @ + 1]
      /\ task[r].pc = "store"
  BY DEF ChangeStore, vars, log, Doing
<1>1. u \in Users /\ password[u] \in Nat /\ signedOut[u] \in Nat
  BY <1>0, TaskFields DEF Steps, AccountsTypeOK
<1>2. /\ task' \in [Requests -> Task]
      /\ task'[r].pc = "revoke" /\ task'[r].pw = password[u] + 1 /\ task'[r].user = u
      /\ \A q \in Requests \ {r} : task'[q] = task[q]
  BY <1>0, <1>1, Gone DEF ChangeStore, Steps
<1>3. /\ password' \in [Users -> Nat]
      /\ \A v \in Users : password[v] <= password'[v]
      /\ password'[u] = password[u] + 1
  BY <1>0, <1>1 DEF AccountsTypeOK
<1>4. AccountsTypeOK'
  BY <1>0, <1>2, <1>3 DEF AccountsTypeOK
<1>5. CallsHaveTasks'
  BY <1>0, <1>2 DEF CallsHaveTasks
<1>6. PasswordsGrow'
  <2>1. \A v \in Users : signedOut'[v] <= password'[v]
    BY <1>0, <1>3 DEF PasswordsGrow, AccountsTypeOK
  <2>2. ASSUME NEW q \in Requests \ {r}, task'[q].pc \in Steps
        PROVE  task'[q].pw <= password'[task'[q].user]
    <3>1. /\ task'[q] = task[q] /\ task[q].user \in Users /\ task[q].pw \in Nat
          /\ task[q].pw <= password[task[q].user]
      BY <1>2, <2>2, TaskFields DEF PasswordsGrow
    <3> QED
      BY <1>3, <3>1 DEF AccountsTypeOK
  <2> QED
    BY <1>1, <1>2, <1>3, <2>1, <2>2 DEF PasswordsGrow
<1>7. signedOut[u] <= password[u]
  BY <1>1 DEF PasswordsGrow
<1>8. NoneOutdated
  BY <1>1, <1>2, <1>7 DEF NoneOutdated
<1>9. LateStay
  BY <1>0 DEF LateStay
<1> QED
  BY <1>0, <1>4, <1>5, <1>6, <1>8, <1>9, UnchangedShrinks, QuietKeeps

\* The revocation itself: no working token of u is left, and whoever is about
\* to store one is noted.
LEMMA ChangeRevokeKeeps ==
  ASSUME AccountsInv, IInv, TypeOK', NEW r \in Requests, ChangeRevoke(r)
  PROVE  AccountsInv'
<1> DEFINE u == task[r].user
           ended == {family[n] : n \in {m \in Tokens : Live(m) /\ rows[m].user = u}}
<1> USE DEF AccountsInv
<1>0. /\ UNCHANGED <<now, role, call, family, parent, capped, issued>>
      /\ rows' = RevokedAll(u)
      /\ UNCHANGED <<password, cookie, opened, missed>>
      /\ task[r].pc = "revoke"
      /\ late' = late \cup Overtaken(r, u)
      /\ raced' = raced \ ended
      /\ signedOut' = [signedOut EXCEPT ![u] = IF task[r].pw > @ THEN task[r].pw ELSE @]
  BY DEF ChangeRevoke, SignOut, RevokeAllForUser, history, Doing
<1>1. /\ u \in Users /\ password[u] \in Nat /\ signedOut[u] \in Nat
      /\ task[r].pw \in Nat /\ task[r].pw <= password[u]
  BY <1>0, TaskFields DEF Steps, AccountsTypeOK, PasswordsGrow
<1>2. /\ task' \in [Requests -> Task]
      /\ task'[r].pc = "fresh" /\ task'[r].pw = task[r].pw /\ task'[r].user = u
      /\ \A q \in Requests \ {r} : task'[q] = task[q]
  BY <1>0, <1>1, Gone DEF ChangeRevoke, Steps
<1>3. /\ signedOut' \in [Users -> Nat]
      /\ \A v \in Users \ {u} : signedOut'[v] = signedOut[v]
      /\ signedOut'[u] \in {signedOut[u], task[r].pw} /\ signedOut'[u] >= signedOut[u]
      /\ signedOut'[u] >= task[r].pw
      /\ signedOut'[u] = signedOut[u] \/ signedOut'[u] = task[r].pw
  BY <1>0, <1>1 DEF AccountsTypeOK
<1>4. AccountsTypeOK'
  BY <1>0, <1>2, <1>3 DEF AccountsTypeOK, Overtaken
<1>5. CallsHaveTasks'
  BY <1>0, <1>2 DEF CallsHaveTasks
<1>6. PasswordsGrow'
  BY <1>0, <1>1, <1>2, <1>3, TaskFields DEF PasswordsGrow, Steps
<1>7. \A n \in Tokens : Live(n)' => /\ Live(n) /\ rows[n].user # u
                                    /\ rows'[n].user = rows[n].user
                                    /\ rows[n].user \in Users
  BY <1>0 DEF Live, Stored, RevokedAll, IInv, TypeOK, Row
<1>8. OldSessionsEnd'
  <2> SUFFICES ASSUME NEW n \in Tokens, Live(n)', Outdated(family[n], rows[n].user)'
               PROVE  family[n] \in raced \ ended
    BY <1>0 DEF OldSessionsEnd
  <2>1. Live(n) /\ rows[n].user # u /\ Outdated(family[n], rows[n].user)
    BY <1>0, <1>3, <1>7 DEF Outdated
  <2>2. family[n] \in raced
    BY <2>1 DEF OldSessionsEnd
  <2>3. \A m \in Tokens : Live(m) /\ family[m] = family[n] => m = n
    BY <2>1 DEF IInv, LinearFamily
  <2> QED
    BY <2>1, <2>2, <2>3
<1>9. \A q \in Requests :
         task'[q].pc \in Opening /\ task'[q].pw < signedOut'[task'[q].user] => q \in late'
  <2> SUFFICES ASSUME NEW q \in Requests, task'[q].pc \in Opening,
                      task'[q].pw < signedOut'[task'[q].user]
               PROVE  q \in late'
    OBVIOUS
  <2>1. CASE q = r
    <3>1. task[r].pw < signedOut[u]
      BY <1>1, <1>2, <1>3, <2>1
    <3> QED
      BY <1>0, <2>1, <3>1 DEF OvertakenKnown, Opening
  <2>2. CASE q # r /\ task[q].user = u
    BY <1>0, <1>2, <2>2 DEF Overtaken, InFlight
  <2>3. CASE q # r /\ task[q].user # u
    <3>1. task'[q] = task[q] /\ task[q].user \in Users
      BY <1>2, <2>3, TaskFields DEF Opening, Steps
    <3> QED
      BY <1>0, <1>3, <2>3, <3>1 DEF OvertakenKnown
  <2> QED
    BY <2>1, <2>2, <2>3
<1>10. \A q \in Requests : Rotating(q)' => Rotating(q)
  BY <1>0 DEF Rotating
<1>11. ASSUME NEW q \in Requests, Rotating(q),
              Outdated(family[call[q].token], call[q].row.user)'
       PROVE  q \in late' \/ family[call[q].token] \in raced'
  <2>0. /\ q # r
        /\ call[q].token \in Tokens /\ call[q].row \in Row
    BY <1>0, <1>11 DEF Rotating, CallsHaveTasks, IInv, CallsSound, TypeOK, Call
  <2>1. CASE call[q].row.user = u
    BY <1>0, <1>11, <2>0, <2>1 DEF Overtaken, InFlight
  <2>2. CASE call[q].row.user # u
    <3>1. call[q].row.user \in Users
      BY <2>0 DEF Row
    <3>2. Outdated(family[call[q].token], call[q].row.user)
      BY <1>0, <1>3, <1>11, <2>2, <3>1 DEF Outdated
    <3>3. family[call[q].token] \notin ended
      BY <1>11 DEF IInv, LinearFamily
    <3> QED
      BY <1>0, <1>11, <3>2, <3>3 DEF OvertakenKnown
  <2> QED
    BY <2>1, <2>2
<1>12. OvertakenKnown'
  BY <1>0, <1>9, <1>10, <1>11 DEF OvertakenKnown
<1> QED
  BY <1>4, <1>5, <1>6, <1>8, <1>12

LEMMA DeliverKeeps ==
  ASSUME AccountsInv, TypeOK', NEW r \in Requests, Deliver(r)
  PROVE  AccountsInv'
<1> USE DEF AccountsInv
<1>0. /\ UNCHANGED <<now, role, rows, call, family, parent, capped, issued>>
      /\ UNCHANGED <<password, opened, signedOut, late, raced>>
      /\ task[r].pc = "answer"
      /\ task' = [task EXCEPT ![r] = [pc |-> "none"]]
      /\ cookie' = SetCookie(task[r].device, task[r].set) \/ cookie' = cookie
      /\ missed' \subseteq missed \cup {task[r].device} /\ task[r].device \in Devices
  BY DEF Deliver, Addressee, vars, log, Doing, AccountsTypeOK, Task, Steps
<1>1. /\ task' \in [Requests -> Task] /\ task'[r].pc = "none"
      /\ \A q \in Requests \ {r} : task'[q] = task[q]
  <2>1. [pc |-> "none"] \in Task
    BY DEF Task
  <2> QED
    BY <1>0, <2>1, Moved
<1>2. cookie' \in [Devices -> Tokens \cup {NoToken}]
  <2>1. task[r].set \in Tokens \cup {NoToken, "keep"}
    BY <1>0 DEF AccountsTypeOK, Task, Steps
  <2> QED
    BY <1>0, <2>1 DEF SetCookie, AccountsTypeOK
<1>3. AccountsTypeOK'
  BY <1>0, <1>1, <1>2 DEF AccountsTypeOK
<1>4. CallsHaveTasks'
  BY <1>0, <1>1 DEF CallsHaveTasks
<1>5. PasswordsGrow'
  BY <1>0, <1>1 DEF PasswordsGrow, Steps
<1>6. NoneOutdated /\ LateStay
  BY <1>0, <1>1 DEF NoneOutdated, LateStay, Opening
<1> QED
  BY <1>0, <1>3, <1>4, <1>5, <1>6, UnchangedShrinks, QuietKeeps

\* A new session: outdated only if the request was overtaken.
LEMMA StoreKeeps ==
  ASSUME AccountsInv, IInv, TypeOK', NEW r \in Requests, NEW n \in Tokens,
         NEW by \in {"login", "demo", "change"}, task[r].pc \in Opening, Store(r, n, by)
  PROVE  AccountsInv'
<1> DEFINE u == task[r].user
           pw == task[r].pw
           o == [pw |-> pw, by |-> by]
<1> USE DEF AccountsInv
<1>0. u \in Users /\ pw \in Nat
  BY TaskFields DEF Opening, Steps
<1>1. /\ UNCHANGED <<now, role, call, password, cookie, signedOut, missed>>
      /\ opened' = [opened EXCEPT ![n] = o]
      /\ raced' = IF r \in late THEN raced \cup {n} ELSE raced
      /\ late' = late \ {r}
      /\ \E c \in Tokens \cup {NoToken, "keep"} : Answer(r, c)
  BY DEF Store, Record, CreateDemoToken, CreateRefreshToken
<1>2. /\ Fresh(n)
      /\ family' = [family EXCEPT ![n] = n]
      /\ rows'[n].user = u
      /\ \A m \in Tokens \ {n} : rows'[m] = rows[m]
  <2>1. \E d, e : Insert(n, u, d, e, n, NoToken)
    BY DEF Store, CreateDemoToken, CreateRefreshToken
  <2> QED
    BY <2>1 DEF Insert, IInv, TypeOK
<1>3. /\ task' \in [Requests -> Task] /\ task'[r].pc = "answer"
      /\ \A q \in Requests \ {r} : task'[q] = task[q]
  BY <1>1, Answered DEF Opening
<1>4. o \in [pw : Nat, by : {"none", "login", "demo", "change"}] /\ o.pw = pw
  BY <1>0
<1> HIDE DEF o
<1>5. AccountsTypeOK'
  BY <1>1, <1>3, <1>4 DEF AccountsTypeOK
<1>6. CallsHaveTasks'
  BY <1>1, <1>3 DEF CallsHaveTasks, Opening
<1>7. PasswordsGrow'
  BY <1>1, <1>3 DEF PasswordsGrow, Steps
<1>8. \A m \in Tokens : Minted(m) =>
         m # n /\ family[m] # n /\ family'[m] = family[m]
           /\ opened'[family[m]] = opened[family[m]]
  <2> SUFFICES ASSUME NEW m \in Tokens, Minted(m)
               PROVE  m # n /\ family[m] # n
    BY <1>1, <1>2 DEF IInv, TypeOK, AccountsTypeOK, Minted
  <2> QED
    BY <1>2, NoTokenAssumption DEF Minted, Fresh, IInv, Provenance
<1>9. \A q \in Requests : Rotating(q) => q # r /\ call[q].token \in Tokens /\ Minted(call[q].token)
  BY DEF Rotating, CallsHaveTasks, Opening, IInv, CallsSound
<1>10. OldSessionsEnd'
  <2> SUFFICES ASSUME NEW m \in Tokens, Live(m)', Outdated(family[m], rows[m].user)'
               PROVE  family'[m] \in raced'
    BY DEF OldSessionsEnd
  <2>1. CASE m = n
    <3>1. family'[n] = n /\ opened'[n].pw = pw
      BY <1>1, <1>2, <1>4 DEF IInv, TypeOK, AccountsTypeOK
    <3>2. pw < signedOut[u]
      BY <1>1, <1>2, <2>1, <3>1 DEF Outdated
    <3>3. r \in late
      BY <3>2 DEF OvertakenKnown
    <3> QED
      BY <1>1, <2>1, <3>1, <3>3
  <2>2. CASE m # n
    <3>1. Live(m) /\ Minted(m)
      BY <1>2, <2>2 DEF Live, Stored, IInv, Provenance
    <3>2. Outdated(family[m], rows[m].user)
      BY <1>1, <1>2, <1>8, <2>2, <3>1 DEF Outdated
    <3> QED
      BY <1>1, <1>8, <3>1, <3>2 DEF OldSessionsEnd
  <2> QED
    BY <2>1, <2>2
<1>11. OvertakenKnown'
  <2>1. \A q \in Requests :
          task'[q].pc \in Opening /\ task'[q].pw < signedOut'[task'[q].user] => q \in late'
    BY <1>1, <1>3 DEF OvertakenKnown, Opening
  <2>2. ASSUME NEW q \in Requests, Rotating(q)',
               Outdated(family[call[q].token], call[q].row.user)'
        PROVE  q \in late' \/ family'[call'[q].token] \in raced'
    <3>1. Rotating(q) /\ call'[q] = call[q]
      BY <1>1, <2>2 DEF Rotating
    <3>2. Outdated(family[call[q].token], call[q].row.user)
      BY <1>1, <1>8, <1>9, <2>2, <3>1 DEF Outdated
    <3> QED
      BY <1>1, <1>8, <1>9, <3>1, <3>2 DEF OvertakenKnown
  <2> QED
    BY <2>1, <2>2 DEF OvertakenKnown
<1> QED
  BY <1>5, <1>6, <1>7, <1>10, <1>11

-----------------------------------------------------------------------------
(* Calls of the service.                                                   *)

\* What a call returns with does not rotate.
LEMMA ReturnedCall ==
  ASSUME TypeOK, NEW r \in Requests, NEW t, NEW outcome \in Outcomes, Return(r, t, outcome)
  PROVE  /\ call'[r].pc = outcome /\ call'[r].token = t
         /\ \A q \in Requests \ {r} : call'[q] = call[q]
         /\ \A q \in Requests : Rotating(q)' => Rotating(q) /\ call'[q] = call[q]
<1> DEFINE k == [Idle EXCEPT !.pc = outcome, !.token = t]
<1>1. k.pc = outcome /\ k.token = t /\ outcome \notin {"claimed", "insert"}
  BY DEF Idle, Outcomes
<1>2. call' = [call EXCEPT ![r] = k]
  BY DEF Return
<1> HIDE DEF k
<1> QED
  BY <1>1, <1>2 DEF TypeOK, Rotating

LEMMA BegunCall ==
  ASSUME TypeOK, NEW r \in Requests, NEW t, NEW d, NEW pc, NEW row, Begin(r, t, d, pc, row)
  PROVE  /\ call'[r].pc = pc /\ call'[r].token = t /\ call'[r].row = row
         /\ call'[r].device = d
         /\ \A q \in Requests \ {r} : call'[q] = call[q]
<1> DEFINE k == [pc |-> pc, token |-> t, device |-> d, row |-> row, role |-> "none"]
<1>1. k.pc = pc /\ k.token = t /\ k.row = row /\ k.device = d
  OBVIOUS
<1>2. call' = [call EXCEPT ![r] = k]
  BY DEF Begin
<1> HIDE DEF k
<1> QED
  BY <1>1, <1>2 DEF TypeOK

\* A statement of a call, failing or not, revokes rows at most.
LEMMA RevokedRows ==
  ASSUME TypeOK,
         \/ rows' = rows
         \/ \E u : rows' = RevokedAll(u)
         \/ \E t \in Tokens : Stored(t) /\ rows' = Revoked(t)
  PROVE  \A n \in Tokens : Live(n)' => Live(n) /\ rows'[n].user = rows[n].user
<1>1. OnlyRevokes
  BY RevokingOnlyRevokes
<1> QED
  BY <1>1 DEF OnlyRevokes, Live, Stored, TypeOK, Row

\* OpaqueRefresh or Logout has sent the cookie to the service.
LEMMA CallBegins ==
  ASSUME AccountsInv, IInv, TypeOK', NEW r \in Requests, NEW b \in Devices,
         RefreshCall(r, b) \/ LogoutCall(r, b)
  PROVE  AccountsInv'
<1> DEFINE t == cookie[b]
<1> USE DEF AccountsInv
<1>0. /\ TypeOK /\ t \in Tokens /\ task[r].pc = "none"
      /\ UNCHANGED <<password, cookie, opened, signedOut, late, raced, missed>>
      /\ \E pc \in {"refresh", "logout"} : task' = [task EXCEPT ![r] = [pc |-> pc, device |-> b]]
  BY CookieIsAToken DEF RefreshCall, LogoutCall, Send, Ready, Doing, log, IInv
<1>1. /\ task' \in [Requests -> Task] /\ task'[r].pc \in {"refresh", "logout"}
      /\ \A q \in Requests \ {r} : task'[q] = task[q]
  <2>1. PICK pc \in {"refresh", "logout"} : task' = [task EXCEPT ![r] = [pc |-> pc, device |-> b]]
    BY <1>0
  <2>2. [pc |-> pc, device |-> b] \in Task
    BY DEF Task
  <2> QED
    BY <2>1, <2>2, Moved
<1>2. AccountsTypeOK'
  BY <1>0, <1>1 DEF AccountsTypeOK
<1>3. PasswordsGrow'
  BY <1>0, <1>1 DEF PasswordsGrow, Steps
<1>4. NoneOutdated
  BY <1>1 DEF NoneOutdated, Opening
<1>5. LateStay
  BY <1>0 DEF LateStay
<1>6. /\ family' = family
      /\ \A q \in Requests \ {r} : call'[q] = call[q]
  BY <1>0, BegunCall, ReturnedCall
  DEF RefreshCall, LogoutCall, RotateClaim, RotateMiss, RotateClaimError, RevokeLookup,
      history, Outcomes
<1>7. CallsHaveTasks'
  BY <1>1, <1>6 DEF CallsHaveTasks
<1>8. ASSUME ~Rotating(r)',
             rows' = rows \/ (Stored(t) /\ rows' = Revoked(t))
      PROVE  AccountsInv'
  <2>1. Shrinks
    BY <1>0, <1>6, <1>8, RevokedRows DEF Shrinks, Rotating
  <2> QED
    BY <1>0, <1>2, <1>3, <1>4, <1>5, <1>7, <2>1, QuietKeeps
<1>9. CASE RotateClaim(r, t, Fingerprint(b))
  <2>1. /\ Live(t) /\ rows' = Revoked(t)
        /\ call'[r].token = t /\ call'[r].row = Revoked(t)[t]
    BY <1>0, <1>9, BegunCall DEF RotateClaim, Claimable
  <2>2. Revoked(t)[t].user = rows[t].user
    BY <1>0, <2>1 DEF Revoked, Live, Stored, TypeOK, Row
  <2>3. OldSessionsEnd'
    BY <1>0, <1>6, <2>1, RevokedRows DEF OldSessionsEnd, Outdated, Live
  <2>4. \A q \in Requests :
          task'[q].pc \in Opening /\ task'[q].pw < signedOut'[task'[q].user] => q \in late'
    BY <1>0, <1>1 DEF OvertakenKnown, Opening
  <2>5. ASSUME NEW q \in Requests, Rotating(q)',
               Outdated(family[call[q].token], call[q].row.user)'
        PROVE  q \in late' \/ family'[call'[q].token] \in raced'
    <3>1. CASE q = r
      BY <1>0, <1>6, <2>1, <2>2, <2>5, <3>1 DEF Outdated, OldSessionsEnd
    <3>2. CASE q # r
      BY <1>0, <1>6, <2>5, <3>2 DEF Outdated, OvertakenKnown, Rotating
    <3> QED
      BY <3>1, <3>2
  <2> QED
    BY <1>2, <1>3, <1>7, <2>3, <2>4, <2>5 DEF OvertakenKnown
<1>10. CASE RotateMiss(r, t, Fingerprint(b))
  BY <1>0, <1>8, <1>10, BegunCall DEF RotateMiss, Rotating
<1>11. CASE RotateClaimError(r, t, Fingerprint(b))
  BY <1>0, <1>8, <1>11, ReturnedCall, ErrorsRevoke
  DEF RotateClaimError, Rotating, Outcomes, Claimable, Live
<1>12. CASE RevokeLookup(r, t, Fingerprint(b))
  BY <1>0, <1>8, <1>12, BegunCall, ReturnedCall DEF RevokeLookup, Rotating, Outcomes
<1> QED
  BY <1>9, <1>10, <1>11, <1>12 DEF RefreshCall, LogoutCall

\* A rotation that learns the account's role rotates on.
LEMMA RoleRead ==
  ASSUME TypeOK, NEW r \in Requests, RotateRole(r)
  PROVE  \A q \in Requests : Rotating(q)' =>
           /\ Rotating(q)
           /\ call'[q].token = call[q].token /\ call'[q].row = call[q].row
<1>1. CASE Return(r, call[r].token, "error")
  BY <1>1, ReturnedCall DEF Outcomes
<1>2. CASE call' = [call EXCEPT ![r] = [@ EXCEPT !.pc = "insert",
                                                 !.role = role[call[r].row.user]]]
  <2> DEFINE k == [call[r] EXCEPT !.pc = "insert", !.role = role[call[r].row.user]]
  <2>1. call[r] \in Call
    BY DEF TypeOK
  <2>2. k.token = call[r].token /\ k.row = call[r].row
    BY <2>1 DEF Call
  <2>3. call' = [call EXCEPT ![r] = k] /\ call[r].pc = "claimed"
    BY <1>2 DEF RotateRole, At
  <2> HIDE DEF k
  <2> QED
    BY <2>2, <2>3 DEF TypeOK, Rotating
<1> QED
  BY <1>1, <1>2 DEF RotateRole

LEMMA HeldCall ==
  ASSUME TypeOK, NEW r \in Requests, NEW pc, NEW row, Hold(r, pc, row),
         pc \notin {"claimed", "insert"}
  PROVE  \A q \in Requests : Rotating(q)' => Rotating(q) /\ call'[q] = call[q]
<1> DEFINE k == [call[r] EXCEPT !.pc = pc, !.row = row]
<1>1. call[r] \in Call
  BY DEF TypeOK
<1>2. k.pc = pc
  BY <1>1 DEF Call
<1>3. call' = [call EXCEPT ![r] = k]
  BY DEF Hold
<1> HIDE DEF k
<1> QED
  BY <1>2, <1>3 DEF TypeOK, Rotating

LEMMA CallStepKeeps ==
  ASSUME AccountsInv, IInv, TypeOK', NEW r \in Requests, CallStep(r)
  PROVE  AccountsInv'
<1> USE DEF AccountsInv
<1>0. /\ TypeOK /\ UNCHANGED <<password, cookie, task, opened, signedOut, raced, missed>>
      /\ late' = IF Rotating(r)' THEN late ELSE late \ {r}
      /\ family' = family
      /\ call[r].pc # "idle"
  BY DEF CallStep, RotateLookup, RotateReplay, RotateMismatch, RotateRole,
         RotateInsertExpired, ReadError, RevokeByID, history, IInv, At
<1>1. task[r].pc \in {"refresh", "logout"}
  BY <1>0 DEF CallsHaveTasks
<1>2. \A q \in Requests \ {r} : call'[q] = call[q]
  BY <1>0, ReturnedCall
  DEF CallStep, RotateLookup, RotateReplay, RotateMismatch, RotateRole,
      RotateInsertExpired, ReadError, RevokeByID, Hold, Return, TypeOK
<1>3. CallsHaveTasks'
  BY <1>0, <1>1, <1>2 DEF CallsHaveTasks
<1>4. AccountsTypeOK' /\ PasswordsGrow'
  BY <1>0 DEF AccountsTypeOK, PasswordsGrow
<1>5. NoneOutdated /\ LateStay
  BY <1>0, <1>1 DEF NoneOutdated, LateStay, Opening
<1>6. \/ rows' = rows
      \/ \E u : rows' = RevokedAll(u)
      \/ \E t \in Tokens : Stored(t) /\ rows' = Revoked(t)
  <2>1. CASE RotateLookup(r) \/ RotateRole(r) \/ RotateInsertExpired(r) \/ ReadError(r)
    BY <2>1 DEF RotateLookup, RotateRole, RotateInsertExpired, ReadError
  <2>2. CASE RotateReplay(r) \/ RotateMismatch(r)
    BY <2>2, ErrorsRevoke DEF RotateReplay, RotateMismatch
  <2>3. CASE RevokeByID(r)
    <3>1. call[r].token \in Tokens
      BY <1>0 DEF IInv, CallsSound
    <3> QED
      BY <2>3, <3>1, ErrorsRevoke DEF RevokeByID
  <2> QED
    BY <2>1, <2>2, <2>3 DEF CallStep
<1>7. \A q \in Requests : Rotating(q)' =>
         /\ Rotating(q)
         /\ call'[q].token = call[q].token /\ call'[q].row = call[q].row
  <2>1. CASE RotateRole(r)
    BY <1>0, <2>1, RoleRead
  <2>2. CASE \E outcome \in Outcomes : Return(r, call[r].token, outcome)
    BY <1>0, <2>2, ReturnedCall
  <2>3. CASE Hold(r, "replay", rows[call[r].token])
    BY <1>0, <2>3, HeldCall
  <2> QED
    BY <2>1, <2>2, <2>3
    DEF CallStep, RotateLookup, RotateReplay, RotateMismatch, RotateInsertExpired,
        ReadError, RevokeByID, Outcomes
<1>8. Shrinks
  BY <1>0, <1>6, <1>7, RevokedRows DEF Shrinks
<1> QED
  BY <1>0, <1>3, <1>4, <1>5, <1>8, QuietKeeps

\* A rotation stores the next token of an outdated session only if it was
\* overtaken, or the session was one of the raced already.
LEMMA CallStoreKeeps ==
  ASSUME AccountsInv, IInv, TypeOK', NEW r \in Requests, CallStore(r)
  PROVE  AccountsInv'
<1> DEFINE t == call[r].token
           u == call[r].row.user
           f == family[t]
<1> USE DEF AccountsInv
<1>0. /\ TypeOK /\ UNCHANGED <<password, cookie, task, opened, signedOut, missed>>
      /\ late' = late \ {r}
      /\ raced' = IF r \in late THEN raced \cup {f} ELSE raced
      /\ Rotating(r)
      /\ \E outcome \in Outcomes : Return(r, t, outcome)
  BY DEF CallStore, RotateInsert, RotateInsertError, Record, IInv, At, Rotating, Outcomes
<1>1. task[r].pc \in {"refresh", "logout"} /\ t \in Tokens /\ Minted(t)
  BY <1>0 DEF CallsHaveTasks, Rotating, IInv, CallsSound
<1>2. /\ \A q \in Requests \ {r} : call'[q] = call[q]
      /\ ~Rotating(r)'
  <2>1. PICK outcome \in Outcomes : Return(r, t, outcome)
    BY <1>0
  <2>2. call'[r].pc = outcome /\ \A q \in Requests \ {r} : call'[q] = call[q]
    BY <1>0, <2>1, ReturnedCall
  <2> QED
    BY <2>2 DEF Rotating, Outcomes
<1>3. CallsHaveTasks'
  BY <1>0, <1>1, <1>2 DEF CallsHaveTasks
<1>4. AccountsTypeOK' /\ PasswordsGrow'
  BY <1>0, <1>1 DEF AccountsTypeOK, PasswordsGrow, Minted
<1>5. \/ rows' = rows /\ family' = family
      \/ \E n \in Tokens :
           /\ Fresh(n) /\ family' = [family EXCEPT ![n] = f]
           /\ rows'[n].user = u
           /\ \A m \in Tokens \ {n} : rows'[m] = rows[m]
  BY <1>0 DEF CallStore, RotateInsert, RotateInsertError, Replace, Insert, TypeOK
<1>6. \A m \in Tokens : Minted(m) => family'[m] = family[m]
  BY <1>5, NoTokenAssumption DEF Minted, Fresh, TypeOK
<1>7. \A m \in Tokens : Live(m) => Minted(m)
  BY DEF Live, IInv, Provenance
<1>8. OldSessionsEnd'
  <2> SUFFICES ASSUME NEW m \in Tokens, Live(m)', Outdated(family[m], rows[m].user)'
               PROVE  family'[m] \in raced'
    BY DEF OldSessionsEnd
  <2>1. CASE rows'[m] = rows[m] /\ Live(m)
    BY <1>0, <1>6, <1>7, <2>1 DEF OldSessionsEnd, Outdated
  <2>2. CASE rows'[m].user = u /\ family'[m] = f
    BY <1>0, <2>2 DEF Outdated, OvertakenKnown
  <2> QED
    BY <1>0, <1>5, <2>1, <2>2 DEF Live, Stored, TypeOK
<1>9. OvertakenKnown'
  <2>1. \A q \in Requests :
          task'[q].pc \in Opening /\ task'[q].pw < signedOut'[task'[q].user] => q \in late'
    BY <1>0, <1>1 DEF OvertakenKnown, Opening
  <2>2. ASSUME NEW q \in Requests, Rotating(q)',
               Outdated(family[call[q].token], call[q].row.user)'
        PROVE  q \in late' \/ family'[call'[q].token] \in raced'
    <3>1. q # r /\ call'[q] = call[q] /\ Rotating(q)
      BY <1>2, <2>2 DEF Rotating
    <3>2. call[q].token \in Tokens /\ Minted(call[q].token)
      BY <3>1 DEF IInv, CallsSound, Rotating
    <3> QED
      BY <1>0, <1>6, <2>2, <3>1, <3>2 DEF OvertakenKnown, Outdated
  <2> QED
    BY <2>1, <2>2 DEF OvertakenKnown
<1> QED
  BY <1>3, <1>4, <1>8, <1>9

LEMMA CallReturnsKeeps ==
  ASSUME AccountsInv, IInv, TypeOK', NEW r \in Requests, CallReturns(r),
         CookieOf(r) \in Tokens \cup {NoToken}
  PROVE  AccountsInv'
<1>0. TypeOK /\ AccountsTypeOK
  BY DEF IInv, AccountsInv
<1>1. /\ call' = [call EXCEPT ![r] = Idle]
      /\ UNCHANGED <<rows, family, password, cookie, opened, signedOut, late, raced, missed>>
      /\ task[r].pc # "none" /\ Answer(r, CookieOf(r))
  BY DEF CallReturns, Reply, history, log
<1>2. call'[r] = Idle /\ Idle.pc = "idle"
  BY <1>0, <1>1 DEF TypeOK, Idle
<1>3. Shrinks
  BY <1>0, <1>1, <1>2 DEF Shrinks, Live, Stored, Rotating, TypeOK
<1> QED
  BY <1>0, <1>1, <1>2, <1>3, AnswerKeeps

-----------------------------------------------------------------------------
(* What a refresh answers with.                                            *)

LEMMA SuccessorsStay ==
  ASSUME IInv, [Next]_vars
  PROVE  \A n \in Tokens : parent[n] # NoToken => parent'[n] = parent[n]
<1>1. ASSUME NEW m \in Tokens, NEW u, NEW d, NEW e, NEW f, NEW p, Insert(m, u, d, e, f, p)
      PROVE  \A n \in Tokens : parent[n] # NoToken => parent'[n] = parent[n]
  <2>1. parent[m] = NoToken
    BY <1>1, NoTokenAssumption DEF Insert, Fresh, IInv, Provenance, Minted
  <2> QED
    BY <1>1, <2>1 DEF Insert, IInv, TypeOK
<1>2. CASE parent' = parent
  BY <1>2
<1> QED
  BY <1>1, <1>2, StepKinds
  DEF Waning, RotateClaim, RotateRole, Replaces, Replace, Opens, SetUserRole, DeleteUser,
      history

\* What a step may do to request q without harm to CallsFit.
FitStep(q) ==
  \/ call'[q] = call[q] /\ task'[q] = task[q]
  \/ call'[q].pc \notin {"revoke", "ok"}
  \/ call'[q].pc = "revoke" /\ task'[q].pc = "logout"
  \/ call'[q].pc = "ok" /\ task'[q].pc # "refresh"
  \/ call'[q].pc = "ok" /\ \E n \in Tokens : parent'[n] = call'[q].token

LEMMA FitSteps ==
  ASSUME AccountsInv, IInv, CallsFit, [AccountsNext]_accountsVars,
         NEW r \in Requests, FitStep(r),
         \A q \in Requests \ {r} : call'[q] = call[q] /\ task'[q] = task[q]
  PROVE  CallsFit'
<1>1. \A n \in Tokens : parent[n] # NoToken => parent'[n] = parent[n]
  BY ServiceStep, SuccessorsStay DEF IInv, AccountsInv
<1>2. \A q \in Requests : call[q].pc # "idle" => call[q].token \in Tokens
  BY DEF IInv, CallsSound
<1> SUFFICES ASSUME NEW q \in Requests
             PROVE  /\ call'[q].pc = "revoke" => task'[q].pc = "logout"
                    /\ call'[q].pc = "ok" /\ task'[q].pc = "refresh" =>
                         \E n \in Tokens : parent'[n] = call'[q].token
  BY DEF CallsFit
<1>3. CASE call'[q] = call[q] /\ task'[q] = task[q]
  BY <1>1, <1>2, <1>3, NoTokenAssumption DEF CallsFit
<1> QED
  BY <1>3 DEF FitStep

LEMMA CallsFitKeeps ==
  ASSUME AccountsInv, IInv, CallsFit, [AccountsNext]_accountsVars
  PROVE  CallsFit'
<1> USE DEF AccountsInv
<1>0. TypeOK /\ AccountsTypeOK
  BY DEF IInv
<1>4. ASSUME NEW r \in Requests, call' = call, call[r].pc = "idle",
             \A q \in Requests \ {r} : task'[q] = task[q]
      PROVE  CallsFit'
  BY <1>4, FitSteps DEF FitStep
<1>5. ASSUME NEW r \in Requests, NEW b \in Devices, Receive(r, b)
      PROVE  CallsFit'
  <2>1. call[r].pc = "idle"
    BY <1>5 DEF Receive, LoginCheck, DemoCheck, ChangeCheck, DeleteCheck, RefreshCall,
                LogoutCall, Send, Ready, Doing, CallsHaveTasks
  <2>2. CASE \E u \in Users : LoginCheck(r, b, u) \/ DemoCheck(r, b, u)
                              \/ ChangeCheck(r, b, u) \/ DeleteCheck(r, b, u)
    <3>1. call' = call
      BY <2>2 DEF LoginCheck, DemoCheck, ChangeCheck, DeleteCheck, vars
    <3>2. \A q \in Requests \ {r} : task'[q] = task[q]
      BY <1>0, <2>2 DEF LoginCheck, DemoCheck, ChangeCheck, DeleteCheck, Accept, AccountsTypeOK
    <3> QED
      BY <1>4, <2>1, <3>1, <3>2
  <2>3. CASE RefreshCall(r, b)
    <3>1. \A q \in Requests \ {r} : task'[q] = task[q]
      BY <1>0, <2>3 DEF RefreshCall, Send, AccountsTypeOK
    <3>2. /\ call'[r].pc \in {"claimed", "lookup", "error"}
          /\ \A q \in Requests \ {r} : call'[q] = call[q]
      BY <1>0, <2>3, BegunCall, ReturnedCall
      DEF RefreshCall, RotateClaim, RotateMiss, RotateClaimError, Outcomes
    <3> QED
      BY FitSteps, <3>1, <3>2 DEF FitStep
  <2>4. CASE LogoutCall(r, b)
    <3>1. task'[r].pc = "logout" /\ \A q \in Requests \ {r} : task'[q] = task[q]
      BY <1>0, <2>4 DEF LogoutCall, Send, AccountsTypeOK
    <3>2. /\ call'[r].pc \in {"revoke", "notFound", "error"}
          /\ \A q \in Requests \ {r} : call'[q] = call[q]
      BY <1>0, <2>4, BegunCall, ReturnedCall DEF LogoutCall, RevokeLookup, Outcomes
    <3> QED
      BY FitSteps, <3>1, <3>2 DEF FitStep
  <2> QED
    BY <1>5, <2>2, <2>3, <2>4 DEF Receive
<1>6. ASSUME NEW r \in Requests, Proceed(r)
      PROVE  CallsFit'
  <2>1. CASE \/ \E n \in Tokens : LoginStore(r, n) \/ DemoStore(r, n) \/ ChangeFresh(r, n)
             \/ StoreFails(r) \/ ChangeStore(r) \/ ChangeStoreFails(r)
             \/ ChangeRevoke(r) \/ ChangeRevokeFails(r)
             \/ DeleteRun(r) \/ DeleteFails(r) \/ Deliver(r)
    <3>1. task[r].pc \notin {"refresh", "logout"}
      BY <2>1 DEF LoginStore, DemoStore, ChangeFresh, StoreFails, ChangeStore,
                  ChangeStoreFails, ChangeRevoke, ChangeRevokeFails, DeleteRun,
                  DeleteFails, Deliver, Doing
    <3>2. call' = call
      BY <2>1 DEF LoginStore, DemoStore, ChangeFresh, Store, CreateRefreshToken,
                  CreateDemoToken, StoreFails, ChangeStore, ChangeStoreFails,
                  ChangeRevoke, ChangeRevokeFails, SignOut, RevokeAllForUser, DeleteRun,
                  DeleteFails, DeleteUser, Deliver, vars
    <3>3. \A q \in Requests \ {r} : task'[q] = task[q]
      BY <1>0, <2>1 DEF LoginStore, DemoStore, ChangeFresh, Store, StoreFails, ChangeStore,
                  ChangeStoreFails, ChangeRevoke, ChangeRevokeFails, DeleteRun,
                  DeleteFails, Deliver, Answer, Goto, AccountsTypeOK
    <3> QED
      BY <1>4, <3>1, <3>2, <3>3 DEF CallsHaveTasks
  <2>2. CASE CallStep(r)
    <3>1. \A q \in Requests \ {r} : call'[q] = call[q]
      BY <1>0, <2>2 DEF CallStep, RotateLookup, RotateReplay, RotateMismatch, RotateRole,
             RotateInsertExpired, ReadError, RevokeByID, Hold, Return, TypeOK
    <3>2. CASE RevokeByID(r)
      <4>1. task[r].pc = "logout" /\ task' = task
        BY <2>2, <3>2 DEF RevokeByID, At, CallsFit, CallStep
      <4>2. call'[r].pc \in {"ok", "error"}
        BY <1>0, <3>2, ReturnedCall DEF RevokeByID, Outcomes
      <4> QED
        BY FitSteps, <3>1, <4>1, <4>2 DEF FitStep
    <3>3. CASE Hold(r, "replay", rows[call[r].token])
      <4>1. call'[r].pc = "replay"
        <5> DEFINE k == [call[r] EXCEPT !.pc = "replay", !.row = rows[call[r].token]]
        <5>1. k.pc = "replay"
          BY <1>0 DEF TypeOK, Call
        <5>2. call' = [call EXCEPT ![r] = k]
          BY <3>3 DEF Hold
        <5> HIDE DEF k
        <5> QED
          BY <1>0, <5>1, <5>2 DEF TypeOK
      <4> QED
        BY FitSteps, <2>2, <3>1, <4>1 DEF CallStep, FitStep
    <3>4. CASE \E outcome \in Outcomes \ {"ok"} : Return(r, call[r].token, outcome)
      <4>1. call'[r].pc \in Outcomes \ {"ok"}
        BY <1>0, <3>4, ReturnedCall
      <4> QED
        BY FitSteps, <2>2, <3>1, <4>1 DEF CallStep, Outcomes, FitStep
    <3>5. CASE call' = [call EXCEPT ![r] = [@ EXCEPT !.pc = "insert",
                                              !.role = role[call[r].row.user]]]
      <4>1. call'[r].pc = "insert"
        <5> DEFINE k == [call[r] EXCEPT !.pc = "insert", !.role = role[call[r].row.user]]
        <5>1. k.pc = "insert"
          BY <1>0 DEF TypeOK, Call
        <5>2. call' = [call EXCEPT ![r] = k]
          BY <3>5
        <5> HIDE DEF k
        <5> QED
          BY <1>0, <5>1, <5>2 DEF TypeOK
      <4> QED
        BY FitSteps, <2>2, <3>1, <4>1 DEF CallStep, FitStep
    <3> QED
      BY <2>2, <3>2, <3>3, <3>4, <3>5
      DEF CallStep, RotateLookup, RotateReplay, RotateMismatch, RotateRole,
          RotateInsertExpired, ReadError, Outcomes
  <2>3. CASE CallStore(r)
    <3>1. PICK outcome \in {"ok", "error"} : Return(r, call[r].token, outcome)
      BY <2>3 DEF CallStore, RotateInsert, RotateInsertError
    <3>2. /\ call'[r].pc = outcome
          /\ \A q \in Requests \ {r} : call'[q] = call[q]
      BY <1>0, <3>1, ReturnedCall DEF Outcomes
    <3>3. call'[r].token = call[r].token
      BY <1>0, <3>1 DEF Return, Idle, TypeOK
    <3>4. CASE \E n \in Tokens : RotateInsert(r, n)
      <4>1. \E n \in Tokens : parent'[n] = call[r].token
        BY <1>0, <3>4 DEF RotateInsert, Replace, Insert, TypeOK
      <4> QED
        BY FitSteps, <2>3, <3>2, <3>3, <4>1 DEF CallStore, FitStep
    <3>5. CASE RotateInsertError(r)
      <4>1. call'[r].pc = "error"
        BY <1>0, <3>5, ReturnedCall DEF RotateInsertError, Outcomes
      <4> QED
        BY FitSteps, <2>3, <3>2, <4>1 DEF CallStore, FitStep
    <3> QED
      BY <2>3, <3>4, <3>5 DEF CallStore
  <2>4. CASE CallReturns(r)
    <3>1. \A q \in Requests \ {r} : call'[q] = call[q] /\ task'[q] = task[q]
      BY <1>0, <2>4 DEF CallReturns, Reply, Answer, TypeOK, AccountsTypeOK
    <3>2. call'[r].pc = "idle"
      BY <1>0, <2>4 DEF CallReturns, Reply, TypeOK, Idle
    <3> QED
      BY FitSteps, <3>1, <3>2 DEF FitStep
  <2> QED
    BY <1>6, <2>1, <2>2, <2>3, <2>4 DEF Proceed
<1>7. CASE ClockTick \/ UNCHANGED accountsVars
  BY <1>7 DEF ClockTick, Tick, accountsVars, vars, history, CallsFit
<1> QED
  BY <1>5, <1>6, <1>7 DEF AccountsNext

-----------------------------------------------------------------------------
(* The invariant.                                                          *)

LEMMA StartsSound ==
  ASSUME AccountsInit
  PROVE  AccountsInv /\ CallsFit /\ IInv
<1>1. IInv
  BY InitIInv DEF AccountsInit
<1>2. AccountsTypeOK
  <2>1. [pc |-> "none"] \in Task
    BY DEF Task
  <2>2. [pw |-> 0, by |-> "none"] \in [pw : Nat, by : {"none", "login", "demo", "change"}]
    OBVIOUS
  <2> QED
    BY <1>1, <2>1, <2>2 DEF AccountsInit, AccountsTypeOK, IInv
<1>3. \A r \in Requests : call[r].pc = "idle" /\ task[r].pc = "none"
  BY DEF AccountsInit, Init, Idle
<1>4. CallsHaveTasks /\ CallsFit
  BY <1>3 DEF CallsHaveTasks, CallsFit
<1>5. \A u \in Users : password[u] = 0 /\ signedOut[u] = 0
  BY DEF AccountsInit
<1>6. PasswordsGrow
  BY <1>3, <1>5 DEF PasswordsGrow, Steps
<1>7. OvertakenKnown
  BY <1>3 DEF OvertakenKnown, Opening, Rotating
<1>8. \A n \in Tokens : ~Live(n)
  BY NoTokenAssumption DEF AccountsInit, Init, Live, Stored
<1>9. OldSessionsEnd
  BY <1>8 DEF OldSessionsEnd
<1> QED
  BY <1>1, <1>2, <1>4, <1>6, <1>7, <1>9 DEF AccountsInv

LEMMA StepKeeps ==
  ASSUME AccountsInv, CallsFit, IInv, [AccountsNext]_accountsVars
  PROVE  AccountsInv' /\ CallsFit' /\ IInv'
<1>1. IInv' /\ TypeOK'
  BY ServiceStep, NextKeepsIInv DEF AccountsInv, IInv
<1>2. CallsFit'
  BY CallsFitKeeps
<1>3. ASSUME NEW r \in Requests, NEW b \in Devices, Receive(r, b)
      PROVE  AccountsInv'
  <2>1. ASSUME NEW u \in Users, \/ LoginCheck(r, b, u) \/ DemoCheck(r, b, u)
                                \/ ChangeCheck(r, b, u) \/ DeleteCheck(r, b, u)
        PROVE  AccountsInv'
    <3>1. \E pc \in {"login", "demo", "store", "delete"} :
            /\ Ready(r, b) /\ Accept(r, b, u, pc)
            /\ UNCHANGED <<vars, password, cookie, log>>
      BY <2>1 DEF LoginCheck, DemoCheck, ChangeCheck, DeleteCheck
    <3> QED
      BY <1>1, <3>1, AcceptKeeps
  <2>2. CASE RefreshCall(r, b) \/ LogoutCall(r, b)
    BY <1>1, <2>2, CallBegins
  <2> QED
    BY <1>3, <2>1, <2>2 DEF Receive
<1>4. ASSUME NEW r \in Requests, Proceed(r)
      PROVE  AccountsInv'
  <2>1. ASSUME NEW n \in Tokens, LoginStore(r, n) \/ DemoStore(r, n) \/ ChangeFresh(r, n)
        PROVE  AccountsInv'
    <3>1. /\ task[r].pc \in Opening
          /\ \E by \in {"login", "demo", "change"} : Store(r, n, by)
      BY <2>1 DEF LoginStore, DemoStore, ChangeFresh, Doing, Opening
    <3> QED
      BY <1>1, <3>1, StoreKeeps
  <2>2. CASE CallReturns(r)
    <3>1. CookieOf(r) \in Tokens \cup {NoToken}
      <4>1. CASE Doing(r, "refresh") /\ call[r].pc = "ok"
        BY <4>1 DEF CookieOf, CallsFit, Doing
      <4> QED
        BY <4>1 DEF CookieOf
    <3> QED
      BY <1>1, <2>2, <3>1, CallReturnsKeeps
  <2>3. CASE \/ StoreFails(r) \/ ChangeStoreFails(r) \/ ChangeRevokeFails(r)
             \/ DeleteRun(r) \/ DeleteFails(r)
    BY <1>1, <2>3, FailuresKeep
  <2> QED
    BY <1>1, <1>4, <2>1, <2>2, <2>3, ChangeStoreKeeps, ChangeRevokeKeeps, CallStepKeeps,
       CallStoreKeeps, DeliverKeeps
    DEF Proceed
<1>5. CASE ClockTick \/ UNCHANGED accountsVars
  <2>1. UNCHANGED <<rows, role, call, family, parent, capped, issued>>
    BY <1>5 DEF ClockTick, Tick, accountsVars, vars, history
  <2>2. UNCHANGED <<password, cookie, task, opened, signedOut, late, raced, missed>>
    BY <1>5 DEF ClockTick, accountsVars, log
  <2>3. AccountsTypeOK'
    BY <1>1, <2>2 DEF AccountsInv, AccountsTypeOK
  <2>4. Shrinks
    BY <2>1, UnchangedShrinks
  <2>5. CallsHaveTasks' /\ PasswordsGrow'
    BY <2>1, <2>2 DEF AccountsInv, CallsHaveTasks, PasswordsGrow
  <2>6. OvertakenKnown' /\ OldSessionsEnd'
    BY <2>1, <2>2, <2>4, QuietKeeps DEF NoneOutdated, LateStay
  <2> QED
    BY <1>1, <1>2, <2>3, <2>5, <2>6 DEF AccountsInv
<1> QED
  BY <1>1, <1>2, <1>3, <1>4, <1>5 DEF AccountsNext

\* Everything the two inductive invariants say holds always.
THEOREM AccountsInvariance == AccountsSpec => [](AccountsInv /\ CallsFit /\ IInv)
<1>1. AccountsInit => AccountsInv /\ CallsFit /\ IInv
  BY StartsSound
<1>2. AccountsInv /\ CallsFit /\ IInv /\ [AccountsNext]_accountsVars
        => AccountsInv' /\ CallsFit' /\ IInv'
  BY StepKeeps
<1> QED
  BY <1>1, <1>2, PTL DEF AccountsSpec

\* profile_crud.go:102: once a change of password revoked the tokens, a session
\* opened with an earlier password works only if a request was overtaken.
THEOREM OldSessionsAreEnded == AccountsSpec => []OldSessionsEnd
<1>1. AccountsInv => OldSessionsEnd
  BY DEF AccountsInv
<1> QED
  BY <1>1, AccountsInvariance, PTL

\* The handlers use the service as its own specification allows, so whatever
\* is proved of RefreshTokens holds of the composition.
THEOREM HandlersKeepTheService == AccountsSpec => Spec
<1>1. AccountsInit => Init
  BY DEF AccountsInit
<1>2. AccountsInv /\ [AccountsNext]_accountsVars => [Next]_vars
  BY ServiceStep DEF AccountsInv
<1> QED
  BY <1>1, <1>2, AccountsInvariance, PTL DEF AccountsSpec, Spec

-----------------------------------------------------------------------------
(* Who was given a session by a change of password.                        *)

\* Only a token that was new has a row it had not before.
LEMMA StoredTokens ==
  ASSUME IInv, [Next]_vars, NEW n \in Tokens
  PROVE  /\ Fresh(n)' => Fresh(n)
         /\ Stored(n)' => Fresh(n) \/ (Stored(n) /\ rows'[n].user = rows[n].user)
<1> DEFINE Goal == /\ Fresh(n)' => Fresh(n)
                   /\ Stored(n)' => Fresh(n) \/ (Stored(n) /\ rows'[n].user = rows[n].user)
<1>0. TypeOK
  BY DEF IInv
<1>1. ASSUME OnlyRevokes, family' = family
      PROVE  Goal
  BY <1>0, <1>1 DEF OnlyRevokes, Stored, Fresh, TypeOK, Row
<1>2. ASSUME NEW m \in Tokens, NEW u, NEW d, NEW e, NEW f, NEW p, Insert(m, u, d, e, f, p)
      PROVE  Goal
  BY <1>0, <1>2 DEF Insert, Fresh, Stored, TypeOK
<1>3. ASSUME NEW u \in Users, DeleteUser(u)
      PROVE  Goal
  BY <1>0, <1>3 DEF DeleteUser, history, Fresh, Stored, TypeOK
<1>4. ASSUME NEW r \in Requests, NEW t \in Tokens, NEW d \in Devices, RotateClaim(r, t, d)
      PROVE  Goal
  <2>1. Stored(t) /\ rows' = Revoked(t) /\ family' = family
    BY <1>4 DEF RotateClaim, Claimable, Live, history
  <2> QED
    BY <1>0, <1>1, <2>1, RevokingOnlyRevokes
<1>5. ASSUME UNCHANGED <<rows, family>>
      PROVE  Goal
  BY <1>5 DEF Fresh, Stored
<1> QED
  BY <1>1, <1>2, <1>3, <1>4, <1>5, StepKinds
  DEF Waning, RotateRole, Replaces, Replace, Opens, SetUserRole, history

\* What a step may do without harm to ChangesRevoked.
LEMMA ChangesStep ==
  ASSUME TypeOK, AccountsTypeOK, AccountsTypeOK', ChangesRevoked,
         \A u \in Users : signedOut[u] <= signedOut'[u],
         \A q \in Requests : Doing(q, "fresh")' =>
           \/ task'[q] = task[q]
           \/ task'[q].pw <= signedOut'[task'[q].user],
         \A n \in Tokens : Fresh(n)' => Fresh(n) /\ opened'[n] = opened[n],
         \A n \in Tokens : Stored(n)' /\ opened'[n].by = "change" =>
           \/ Stored(n) /\ rows'[n].user = rows[n].user /\ opened'[n] = opened[n]
           \/ opened'[n].pw <= signedOut'[rows'[n].user]
  PROVE  ChangesRevoked'
<1>1. ASSUME NEW q \in Requests, Doing(q, "fresh")'
      PROVE  task'[q].pw <= signedOut'[task'[q].user]
  <2> SUFFICES ASSUME task'[q] = task[q]
               PROVE  task'[q].pw <= signedOut'[task'[q].user]
    BY <1>1
  <2>1. task[q].user \in Users /\ task[q].pw \in Nat /\ Doing(q, "fresh")
    BY <1>1, TaskFields DEF Doing, Steps
  <2>2. task[q].pw <= signedOut[task[q].user]
    BY <2>1 DEF ChangesRevoked
  <2> QED
    BY <2>1, <2>2 DEF AccountsTypeOK
<1>2. ASSUME NEW n \in Tokens, Stored(n)', opened'[n].by = "change"
      PROVE  opened'[n].pw <= signedOut'[rows'[n].user]
  <2> SUFFICES ASSUME Stored(n), rows'[n].user = rows[n].user, opened'[n] = opened[n]
               PROVE  opened'[n].pw <= signedOut'[rows'[n].user]
    BY <1>2
  <2>1. rows[n].user \in Users
    BY DEF TypeOK, Stored, Row
  <2>2. opened[n].pw <= signedOut[rows[n].user]
    BY <1>2 DEF ChangesRevoked
  <2> QED
    BY <2>1, <2>2 DEF AccountsTypeOK
<1>3. \A n \in Tokens : Fresh(n)' => opened'[n].by = "none"
  BY DEF ChangesRevoked
<1> QED
  BY <1>1, <1>2, <1>3 DEF ChangesRevoked, Stored, Doing

LEMMA ChangesKeep ==
  ASSUME AccountsInv, CallsFit, IInv, ChangesRevoked, [AccountsNext]_accountsVars
  PROVE  ChangesRevoked'
<1>0. AccountsTypeOK /\ AccountsTypeOK' /\ TypeOK /\ [Next]_vars
  BY ServiceStep, StepKeeps DEF AccountsInv, IInv
<1>1. ASSUME UNCHANGED <<opened, signedOut>>,
             \A q \in Requests : Doing(q, "fresh")' => task'[q] = task[q]
      PROVE  ChangesRevoked'
  <2>1. \A u \in Users : signedOut[u] <= signedOut'[u]
    BY <1>0, <1>1 DEF AccountsTypeOK
  <2>2. \A n \in Tokens : Fresh(n)' => Fresh(n) /\ opened'[n] = opened[n]
    BY <1>0, <1>1, StoredTokens
  <2>3. \A n \in Tokens : Stored(n)' /\ opened'[n].by = "change" =>
          Stored(n) /\ rows'[n].user = rows[n].user /\ opened'[n] = opened[n]
    BY <1>0, <1>1, StoredTokens DEF ChangesRevoked
  <2> QED
    BY <1>0, <1>1, <2>1, <2>2, <2>3, ChangesStep
<1>2. ASSUME NEW r \in Requests, NEW n \in Tokens,
             LoginStore(r, n) \/ DemoStore(r, n) \/ ChangeFresh(r, n)
      PROVE  ChangesRevoked'
  <2>1. PICK by : /\ Store(r, n, by)
                  /\ task[r].pc \in Opening /\ (by = "change" => Doing(r, "fresh"))
    BY <1>2 DEF LoginStore, DemoStore, ChangeFresh, Doing, Opening
  <2>2. /\ signedOut' = signedOut
        /\ opened' = [opened EXCEPT ![n] = [pw |-> task[r].pw, by |-> by]]
        /\ \E c \in Tokens \cup {NoToken, "keep"} : Answer(r, c)
    BY <2>1 DEF Store, Record
  <2>3. /\ Fresh(n) /\ family' = [family EXCEPT ![n] = n]
        /\ rows'[n].user = task[r].user
        /\ \A m \in Tokens \ {n} : rows'[m] = rows[m]
    <3>1. \E d, e : Insert(n, task[r].user, d, e, n, NoToken)
      BY <2>1 DEF Store, CreateDemoToken, CreateRefreshToken
    <3> QED
      BY <1>0, <3>1 DEF Insert, TypeOK
  <2>4. \A q \in Requests : Doing(q, "fresh")' => task'[q] = task[q]
    BY <1>0, <2>1, <2>2, Answered DEF Doing, Opening
  <2>5. \A u \in Users : signedOut[u] <= signedOut'[u]
    BY <1>0, <2>2 DEF AccountsTypeOK
  <2>6. \A m \in Tokens \ {n} : opened'[m] = opened[m]
    BY <1>0, <2>2 DEF AccountsTypeOK
  <2>7. \A m \in Tokens : Fresh(m)' => Fresh(m) /\ opened'[m] = opened[m]
    BY <1>0, <2>3, <2>6, NoTokenAssumption DEF Fresh, TypeOK
  <2>8. opened'[n].by = "change" => opened'[n].pw <= signedOut'[rows'[n].user]
    <3>1. opened'[n].by = by /\ opened'[n].pw = task[r].pw
      BY <1>0, <2>2 DEF AccountsTypeOK
    <3> QED
      BY <2>1, <2>2, <2>3, <3>1 DEF ChangesRevoked
  <2>9. \A m \in Tokens : Stored(m)' /\ opened'[m].by = "change" =>
          \/ Stored(m) /\ rows'[m].user = rows[m].user /\ opened'[m] = opened[m]
          \/ opened'[m].pw <= signedOut'[rows'[m].user]
    BY <2>3, <2>6, <2>8 DEF Stored
  <2> QED
    BY <1>0, <2>4, <2>5, <2>7, <2>9, ChangesStep
<1>3. ASSUME NEW r \in Requests, ChangeRevoke(r)
      PROVE  ChangesRevoked'
  <2> DEFINE u == task[r].user
  <2>1. /\ opened' = opened /\ task[r].pc = "revoke" /\ Goto(r, "fresh", task[r].pw)
        /\ signedOut' = [signedOut EXCEPT ![u] = IF task[r].pw > @ THEN task[r].pw ELSE @]
    BY <1>3 DEF ChangeRevoke, Doing
  <2>2. u \in Users /\ task[r].pw \in Nat
    BY <1>0, <2>1, TaskFields DEF Steps
  <2>3. /\ \A v \in Users : signedOut[v] <= signedOut'[v]
        /\ task[r].pw <= signedOut'[u]
    BY <1>0, <2>1, <2>2 DEF AccountsTypeOK
  <2>4. \A q \in Requests : Doing(q, "fresh")' =>
          task'[q] = task[q] \/ task'[q].pw <= signedOut'[task'[q].user]
    BY <1>0, <2>1, <2>2, <2>3, Gone DEF Steps
  <2>5. \A n \in Tokens : Fresh(n)' => Fresh(n) /\ opened'[n] = opened[n]
    BY <1>0, <2>1, StoredTokens
  <2>6. \A n \in Tokens : Stored(n)' /\ opened'[n].by = "change" =>
          Stored(n) /\ rows'[n].user = rows[n].user /\ opened'[n] = opened[n]
    BY <1>0, <2>1, StoredTokens DEF ChangesRevoked
  <2> QED
    BY <1>0, <2>3, <2>4, <2>5, <2>6, ChangesStep
<1>4. ASSUME NEW r \in Requests, NEW b \in Devices, Receive(r, b)
      PROVE  ChangesRevoked'
  <2>1. \E k : k.pc # "fresh" /\ task' = [task EXCEPT ![r] = k]
    BY <1>4 DEF Receive, LoginCheck, DemoCheck, ChangeCheck, DeleteCheck, Accept,
                RefreshCall, LogoutCall, Send
  <2>2. \A q \in Requests : Doing(q, "fresh")' => task'[q] = task[q]
    BY <1>0, <2>1 DEF AccountsTypeOK, Doing
  <2>3. UNCHANGED <<opened, signedOut>>
    BY <1>4 DEF Receive, LoginCheck, DemoCheck, ChangeCheck, DeleteCheck,
                RefreshCall, LogoutCall, Send, log
  <2> QED
    BY <1>1, <2>2, <2>3
<1>5. ASSUME NEW r \in Requests,
             \/ StoreFails(r) \/ ChangeStore(r) \/ ChangeStoreFails(r) \/ ChangeRevokeFails(r)
             \/ DeleteRun(r) \/ DeleteFails(r) \/ CallStep(r) \/ CallStore(r)
             \/ CallReturns(r) \/ Deliver(r)
      PROVE  ChangesRevoked'
  <2>1. \/ task' = task
        \/ \E k : k.pc # "fresh" /\ task' = [task EXCEPT ![r] = k]
    BY <1>5 DEF StoreFails, ChangeStore, ChangeStoreFails, ChangeRevokeFails, DeleteRun,
                DeleteFails, CallStep, CallStore, CallReturns, Deliver, Answer, Goto
  <2>2. \A q \in Requests : Doing(q, "fresh")' => task'[q] = task[q]
    BY <1>0, <2>1 DEF AccountsTypeOK, Doing
  <2>3. UNCHANGED <<opened, signedOut>>
    BY <1>5 DEF StoreFails, ChangeStore, ChangeStoreFails, ChangeRevokeFails, DeleteRun,
                DeleteFails, CallStep, CallStore, CallReturns, Deliver, Record, log
  <2> QED
    BY <1>1, <2>2, <2>3
<1>6. CASE ClockTick \/ UNCHANGED accountsVars
  BY <1>1, <1>6 DEF ClockTick, accountsVars, log
<1> QED
  BY <1>2, <1>3, <1>4, <1>5, <1>6 DEF AccountsNext, Proceed

LEMMA ChangesStartSound ==
  ASSUME AccountsInit
  PROVE  ChangesRevoked
BY DEF AccountsInit, Init, ChangesRevoked, Doing, Stored

\* profile_crud.go:105: a change answers with a fresh session only when every
\* session of an earlier password has ended, but for those it raced.
THEOREM ChangesEndSessions == AccountsSpec => []ChangeEndsSessions
<1>1. AccountsInit => ChangesRevoked
  BY ChangesStartSound
<1>2. AccountsInv /\ CallsFit /\ IInv /\ ChangesRevoked /\ [AccountsNext]_accountsVars
        => ChangesRevoked'
  BY ChangesKeep
<1>3. ASSUME AccountsInv, IInv, ChangesRevoked
      PROVE  ChangeEndsSessions
  <2> SUFFICES ASSUME NEW n \in Tokens, NEW m \in Tokens,
                      Stored(n), opened[n].by = "change",
                      Live(m), rows[m].user = rows[n].user,
                      opened[family[m]].pw < opened[n].pw
               PROVE  family[m] \in raced
    BY DEF ChangeEndsSessions
  <2>1. rows[n].user \in Users /\ family[m] \in Tokens
    BY <1>3 DEF IInv, TypeOK, Stored, Row, Live, Provenance, Minted
  <2>2. /\ opened[n].pw \in Nat /\ opened[family[m]].pw \in Nat
        /\ signedOut[rows[n].user] \in Nat
    BY <1>3, <2>1 DEF AccountsInv, AccountsTypeOK
  <2>3. opened[n].pw <= signedOut[rows[n].user]
    BY <1>3 DEF ChangesRevoked
  <2>4. Outdated(family[m], rows[m].user)
    BY <2>2, <2>3 DEF Outdated
  <2> QED
    BY <1>3, <2>4 DEF AccountsInv, OldSessionsEnd
<1> QED
  BY <1>1, <1>2, <1>3, AccountsInvariance, PTL DEF AccountsSpec

-----------------------------------------------------------------------------
(* The end of a session.                                                   *)

\* A generated token that does not work will not work again.
LEMMA DeadTokensStay ==
  ASSUME IInv, [Next]_vars, NEW t \in Tokens, Minted(t), Live(t)'
  PROVE  Live(t)
<1>0. TypeOK
  BY DEF IInv
<1>1. ASSUME OnlyRevokes
      PROVE  Live(t)
  BY <1>0, <1>1 DEF OnlyRevokes, Live, Stored, TypeOK, Row
<1>2. ASSUME NEW n \in Tokens, NEW u, NEW d, NEW e, NEW f, NEW p, Insert(n, u, d, e, f, p)
      PROVE  Live(t)
  BY <1>0, <1>2, NoTokenAssumption DEF Insert, Fresh, Minted, Live, Stored, TypeOK
<1>3. ASSUME NEW u \in Users, DeleteUser(u)
      PROVE  Live(t)
  BY <1>0, <1>3 DEF DeleteUser, Live, Stored, TypeOK
<1>4. ASSUME NEW r \in Requests, NEW s \in Tokens, NEW d \in Devices, RotateClaim(r, s, d)
      PROVE  Live(t)
  <2>1. Stored(s) /\ rows' = Revoked(s)
    BY <1>4 DEF RotateClaim, Claimable, Live
  <2> QED
    BY <1>0, <1>1, <2>1, RevokingOnlyRevokes
<1>5. ASSUME UNCHANGED rows
      PROVE  Live(t)
  BY <1>5 DEF Live, Stored
<1>6. ASSUME NEW r \in Requests, RotateRole(r)
      PROVE  Live(t)
  BY <1>5, <1>6 DEF RotateRole
<1>7. ASSUME NEW r \in Requests, NEW n \in Tokens, NEW outcome \in Outcomes,
             Replaces(r, n, outcome)
      PROVE  Live(t)
  BY <1>2, <1>7 DEF Replaces, Replace
<1>8. ASSUME NEW n \in Tokens, NEW u \in Users, NEW d \in Devices, NEW e \in Nat,
             Opens(n, u, d, e)
      PROVE  Live(t)
  BY <1>2, <1>8 DEF Opens
<1>9. ASSUME NEW u \in Users, SetUserRole(u) \/ DeleteUser(u)
      PROVE  Live(t)
  BY <1>3, <1>5, <1>9 DEF SetUserRole
<1> QED
  <2>1. CASE Waning
    BY <1>1, <2>1 DEF Waning
  <2> QED
    BY <1>4, <1>6, <1>7, <1>8, <1>9, <2>1, StepKinds

\* Where no token comes to life and no rotation begins, the last stays alone.
LEMMA FadingKeepsLast ==
  ASSUME LastIsAlone, UNCHANGED <<family, parent>>,
         \A n \in Tokens : Live(n)' => Live(n),
         \A q \in Requests : Rotating(q)' => Rotating(q) /\ call'[q].token = call[q].token
  PROVE  LastIsAlone'
<1>1. \A t \in Tokens : /\ Minted(t)' <=> Minted(t)
                        /\ Succeeded(t)' <=> Succeeded(t)
  BY DEF Minted, Succeeded
<1> QED
  BY <1>1 DEF LastIsAlone

\* A new token is the last of its session.
LEMMA InsertKeepsLast ==
  ASSUME IInv, LastIsAlone, NEW n \in Tokens, NEW u, NEW d, NEW e, NEW f \in Tokens, NEW p,
         Insert(n, u, d, e, f, p),
         \A q \in Requests : Rotating(q)' =>
            Rotating(q) /\ call'[q].token = call[q].token /\ family[call[q].token] # f,
         \A m \in Tokens : Live(m) => family[m] # f,
         \A t \in Tokens : Minted(t) /\ family[t] = f => Succeeded(t) \/ t = p
  PROVE  LastIsAlone'
<1>0. TypeOK /\ Provenance /\ CallsSound
  BY DEF IInv
<1>1. /\ family'[n] = f /\ parent'[n] = p
      /\ \A m \in Tokens \ {n} : family'[m] = family[m] /\ parent'[m] = parent[m]
                                 /\ rows'[m] = rows[m]
      /\ ~Minted(n) /\ parent[n] = NoToken
  BY <1>0, NoTokenAssumption DEF Insert, TypeOK, Fresh, Minted, Provenance
<1>2. \A q \in Requests : Rotating(q)' => call[q].token \in Tokens \ {n}
  BY <1>0, <1>1 DEF Rotating, CallsSound
<1>3. \A m \in Tokens \ {n} : Live(m)' => Live(m)
  BY <1>1 DEF Live, Stored
<1>4. \A t \in Tokens : Succeeded(t) => Succeeded(t)'
  BY <1>1, NoTokenAssumption DEF Succeeded
<1>5. p \in Tokens => Succeeded(p)'
  BY <1>1 DEF Succeeded
<1> SUFFICES ASSUME NEW t \in Tokens, Minted(t)', ~Succeeded(t)'
             PROVE  /\ \A m \in Tokens : Live(m)' /\ family'[m] = family'[t] => m = t
                    /\ \A q \in Requests : Rotating(q)' /\ family'[call'[q].token] = family'[t]
                         => call'[q].token = t
  BY DEF LastIsAlone
<1>6. CASE t = n
  BY <1>1, <1>2, <1>3, <1>6
<1>7. CASE t # n
  <2>1. Minted(t) /\ ~Succeeded(t) /\ family'[t] = family[t]
    BY <1>1, <1>4, <1>7 DEF Minted
  <2>2. family[t] # f
    BY <1>5, <2>1
  <2> QED
    BY <1>1, <1>2, <1>3, <1>7, <2>1, <2>2 DEF LastIsAlone
<1> QED
  BY <1>6, <1>7

LEMMA LastKeeps ==
  ASSUME IInv, LastIsAlone, [Next]_vars
  PROVE  LastIsAlone'
<1>0. TypeOK /\ Provenance /\ CallsSound /\ LinearFamily
  BY DEF IInv
<1>1. CASE Waning
  <2>1. \A n \in Tokens : Live(n)' => Live(n)
    BY <1>0, <1>1 DEF Waning, OnlyRevokes, Live, Stored, TypeOK, Row
  <2>2. \A q \in Requests : Rotating(q)' => Rotating(q) /\ call'[q].token = call[q].token
    BY <1>1 DEF Waning, NoNewRotation, Rotating
  <2> QED
    BY <1>1, <2>1, <2>2, FadingKeepsLast DEF Waning, history
<1>2. ASSUME NEW r \in Requests, NEW s \in Tokens, NEW d \in Devices, RotateClaim(r, s, d)
      PROVE  LastIsAlone'
  <2>1. Live(s) /\ rows' = Revoked(s) /\ UNCHANGED <<family, parent>>
    BY <1>2 DEF RotateClaim, Claimable, history
  <2>2. \A n \in Tokens : Live(n)' => Live(n)
    BY <1>0, <2>1, RevokedRows DEF Live
  <2>3. /\ call'[r].token = s
        /\ \A q \in Requests \ {r} : call'[q] = call[q]
    BY <1>0, <1>2, BegunCall DEF RotateClaim
  <2>4. \A q \in Requests \ {r} : Rotating(q)' => Rotating(q)
    BY <2>3 DEF Rotating
  <2>5. \A t \in Tokens : (Minted(t)' <=> Minted(t)) /\ (Succeeded(t)' <=> Succeeded(t))
    BY <2>1 DEF Minted, Succeeded
  <2>6. ASSUME NEW t \in Tokens, Minted(t)', ~Succeeded(t)'
        PROVE  /\ \A m \in Tokens : Live(m)' /\ family'[m] = family'[t] => m = t
               /\ \A q \in Requests : Rotating(q)' /\ family'[call'[q].token] = family'[t]
                    => call'[q].token = t
    <3>1. Minted(t) /\ ~Succeeded(t)
      BY <2>5, <2>6
    <3>2. \A m \in Tokens : Live(m)' /\ family'[m] = family'[t] => m = t
      BY <2>1, <2>2, <3>1 DEF LastIsAlone
    <3>3. ASSUME NEW q \in Requests, Rotating(q)', family'[call'[q].token] = family'[t]
          PROVE  call'[q].token = t
      <4>1. CASE q = r
        BY <2>1, <2>3, <3>1, <3>3, <4>1 DEF LastIsAlone
      <4>2. CASE q # r
        BY <2>1, <2>3, <2>4, <3>1, <3>3, <4>2 DEF LastIsAlone
      <4> QED
        BY <4>1, <4>2
    <3> QED
      BY <3>2, <3>3
  <2> QED
    BY <2>6 DEF LastIsAlone
<1>3. ASSUME NEW r \in Requests, RotateRole(r)
      PROVE  LastIsAlone'
  BY <1>0, <1>3, RoleRead, FadingKeepsLast DEF RotateRole, Live, Stored, history
<1>4. ASSUME NEW r \in Requests, NEW n \in Tokens, NEW outcome \in Outcomes,
             Replaces(r, n, outcome)
      PROVE  LastIsAlone'
  <2> DEFINE c == call[r].token
  <2>1. Rotating(r) /\ c \in Tokens /\ family[c] \in Tokens /\ Minted(c)
    BY <1>0, <1>4 DEF Replaces, Rotating, CallsSound, Minted
  <2>2. Insert(n, call[r].row.user, call[r].device, ReplacementExpiry(r), family[c], c)
    BY <1>4 DEF Replaces, Replace
  <2>3. /\ ~Rotating(r)'
        /\ \A q \in Requests \ {r} : call'[q] = call[q]
    BY <1>0, <1>4, ReturnedCall DEF Replaces, Rotating, Outcomes
  <2>4. \A q \in Requests : Rotating(q)' =>
           Rotating(q) /\ call'[q].token = call[q].token /\ family[call[q].token] # family[c]
    BY <1>0, <2>1, <2>3 DEF LinearFamily, Rotating
  <2>5. \A m \in Tokens : Live(m) => family[m] # family[c]
    BY <1>0, <2>1 DEF LinearFamily
  <2>6. \A t \in Tokens : Minted(t) /\ family[t] = family[c] => Succeeded(t) \/ t = c
    BY <2>1 DEF LastIsAlone
  <2> QED
    BY <2>1, <2>2, <2>4, <2>5, <2>6, InsertKeepsLast
<1>5. ASSUME NEW n \in Tokens, NEW u \in Users, NEW d \in Devices, NEW e \in Nat,
             Opens(n, u, d, e)
      PROVE  LastIsAlone'
  <2>1. Insert(n, u, d, e, n, NoToken) /\ call' = call
    BY <1>5 DEF Opens
  <2>2. \A t \in Tokens : Minted(t) => family[t] # n
    BY <1>0, <2>1, NoTokenAssumption DEF Insert, Fresh, Provenance, Minted
  <2>3. \A m \in Tokens : Live(m) => family[m] # n
    BY <1>0, <2>2 DEF Provenance, Live
  <2>4. \A q \in Requests : Rotating(q)' =>
           Rotating(q) /\ call'[q].token = call[q].token /\ family[call[q].token] # n
    BY <1>0, <2>1, <2>2 DEF Rotating, CallsSound
  <2> QED
    BY <2>1, <2>2, <2>3, <2>4, InsertKeepsLast
<1>6. ASSUME NEW u \in Users, SetUserRole(u) \/ DeleteUser(u)
      PROVE  LastIsAlone'
  <2>1. UNCHANGED <<family, parent, call>>
    BY <1>6 DEF SetUserRole, DeleteUser, history
  <2>2. \A n \in Tokens : rows'[n] \in {rows[n], NoRow}
    BY <1>0, <1>6 DEF SetUserRole, DeleteUser, TypeOK
  <2> QED
    BY <2>1, <2>2, FadingKeepsLast DEF Live, Stored, Rotating
<1> QED
  BY <1>1, <1>2, <1>3, <1>4, <1>5, <1>6, StepKinds
-----------------------------------------------------------------------------
(* The browsers' cookies.                                                  *)

\* BelongsTo(t, b) after the step.
WillBelong(t, b) == family'[t] # NoToken /\ (rows'[t] # NoRow => rows'[t].device = b)

\* A token that was generated for a browser stays that browser's.
LEMMA OwnersStay ==
  ASSUME IInv, [Next]_vars, NEW t \in Tokens, NEW b, BelongsTo(t, b)
  PROVE  WillBelong(t, b)
<1> USE DEF BelongsTo, WillBelong
<1>0. TypeOK
  BY DEF IInv
<1>1. ASSUME OnlyRevokes, family' = family
      PROVE  WillBelong(t, b)
  BY <1>1 DEF OnlyRevokes, Stored, Fresh
<1>2. ASSUME NEW n \in Tokens, NEW u, NEW d, NEW e, NEW f, NEW p, Insert(n, u, d, e, f, p)
      PROVE  WillBelong(t, b)
  BY <1>0, <1>2 DEF Insert, Fresh, Stored, TypeOK
<1>3. ASSUME NEW u \in Users, DeleteUser(u)
      PROVE  WillBelong(t, b)
  BY <1>0, <1>3 DEF DeleteUser, history, Fresh, Stored, TypeOK
<1>4. ASSUME NEW r \in Requests, NEW s \in Tokens, NEW d \in Devices, RotateClaim(r, s, d)
      PROVE  WillBelong(t, b)
  <2>1. Stored(s) /\ rows' = Revoked(s) /\ family' = family
    BY <1>4 DEF RotateClaim, Claimable, Live, history
  <2> QED
    BY <1>0, <1>1, <2>1, RevokingOnlyRevokes
<1>5. ASSUME UNCHANGED <<rows, family>>
      PROVE  WillBelong(t, b)
  BY <1>5 DEF Fresh, Stored
<1> QED
  BY <1>1, <1>2, <1>3, <1>4, <1>5, StepKinds
  DEF Waning, RotateRole, Replaces, Replace, Opens, SetUserRole, history

\* A step that begins, moves or answers request r and stores no token.
Plain(r) ==
  /\ UNCHANGED <<cookie, parent, missed>>
  /\ \A q \in Requests \ {r} : task'[q] = task[q] /\ call'[q] = call[q]
  /\ task'[r].pc # "none"
  /\ \/ task[r].pc # "none" /\ task'[r].device = task[r].device
     \/ Ready(r, task'[r].device)
  /\ \A t \in Granted(r)' : t \in Granted(r) /\ task'[r].device = task[r].device
  /\ Rotating(r)' =>
       \/ task'[r].pc = "refresh" /\ call'[r].device = task'[r].device
       \/ Rotating(r) /\ call'[r].device = call[r].device /\ task'[r] = task[r]
  /\ task'[r].pc \in {"refresh", "logout"} =>
       \/ call'[r].token = cookie[task'[r].device]
       \/ /\ task[r].pc \in {"refresh", "logout"} /\ call'[r].token = call[r].token
          /\ Calling(r) /\ task'[r].device = task[r].device
  /\ Renewing(r) => Renewing(r)' /\ task'[r].device = task[r].device

\* Nothing changes for a request that is left alone while no token is replaced.
LEMMA OthersStay ==
  ASSUME NEW q \in Requests, task'[q] = task[q], call'[q] = call[q]
  PROVE  /\ Doing(q, "none")' <=> Doing(q, "none")
         /\ Rotating(q)' <=> Rotating(q)
         /\ Renewing(q)' <=> Renewing(q)
         /\ parent' = parent => Granted(q)' = Granted(q)
BY DEF Doing, Rotating, Renewing, Granted, At

LEMMA PlainKeeps ==
  ASSUME IInv, IInv', AccountsInv', CookiesInv, [Next]_vars, AccountsTypeOK,
         NEW r \in Requests, Plain(r)
  PROVE  CookiesInv'
<1>1. CookiesFit'
  <2>0. ASSUME NEW b \in Devices, NEW t \in Keeps(b)'
        PROVE  t \in Keeps(b)
    BY <2>0, OthersStay DEF Keeps, Plain
  <2>1. ASSUME NEW b \in Devices, cookie'[b] # NoToken
        PROVE  WillBelong(cookie'[b], b)
    BY <2>1, OwnersStay, CookieIsAToken DEF Plain, CookiesInv, CookiesFit
  <2>2. ASSUME NEW q \in Requests, NEW t \in Granted(q)'
        PROVE  WillBelong(t, task'[q].device)
    <3>1. t \in Tokens
      BY <2>2 DEF Granted
    <3>2. t \in Granted(q) /\ task'[q].device = task[q].device
      BY <2>2, OthersStay DEF Plain
    <3>3. BelongsTo(t, task[q].device)
      BY <3>2 DEF CookiesInv, CookiesFit
    <3> QED
      BY <3>1, <3>2, <3>3, OwnersStay
  <2>3. ASSUME NEW q \in Requests, Rotating(q)'
        PROVE  task'[q].pc = "refresh" /\ call'[q].device = task'[q].device
    BY <2>3, OthersStay DEF Plain, CookiesInv, CookiesFit, Doing
  <2>4. \A b, c \in Devices : \A t \in Tokens : t \in Keeps(b)' /\ t \in Keeps(c)' => b = c
    BY <2>0 DEF CookiesInv, CookiesFit
  <2> QED
    BY <2>1, <2>2, <2>3, <2>4 DEF CookiesFit, BelongsTo, WillBelong, Stored, Fresh, Doing
<1>2. ASSUME ~Tabs
      PROVE  OneRequestEach'
  <2>1. ASSUME NEW p \in Requests, NEW q \in Requests,
               ~Doing(p, "none")', ~Doing(q, "none")', task'[p].device = task'[q].device
        PROVE  p = q
    BY <1>2, <2>1, OthersStay DEF Plain, CookiesInv, OneRequestEach, Ready, Doing
  <2>2. ASSUME NEW q \in Requests, task'[q].pc \in {"refresh", "logout"}
        PROVE  call'[q].token = cookie'[task'[q].device]
    BY <1>2, <2>2 DEF Plain, CookiesInv, OneRequestEach
  <2> QED
    BY <2>1, <2>2 DEF OneRequestEach
<1>3. \A t : Succeeded(t)' <=> Succeeded(t)
  BY DEF Plain, Succeeded
<1>4. RotatedIsRenewed'
  <2> SUFFICES ASSUME NEW b \in Devices, cookie'[b] # NoToken, Succeeded(cookie[b])',
                      b \notin missed'
               PROVE  \E q \in Requests : Renewing(q)' /\ task'[q].device = b
    BY DEF RotatedIsRenewed, Plain, Succeeded
  <2>1. PICK q \in Requests : Renewing(q) /\ task[q].device = b
    BY <1>3 DEF Plain, CookiesInv, RotatedIsRenewed
  <2> QED
    BY <2>1, OthersStay DEF Plain
<1>5. ASSUME NEW q \in Requests, Calling(q)'
      PROVE  /\ task'[q].device \in Devices /\ call'[q].token \in Tokens
             /\ \/ call'[q].token = cookie[task'[q].device]
                \/ Calling(q) /\ call'[q].token = call[q].token /\ task'[q].device = task[q].device
  <2>1. task'[q].pc \in {"refresh", "logout"} /\ call'[q].token \in Tokens
    BY <1>5 DEF AccountsInv, CallsHaveTasks, Calling, IInv, CallsSound
  <2>2. task'[q].device \in Devices
    BY <2>1 DEF AccountsInv, AccountsTypeOK, Task, Steps
  <2> QED
    BY <1>5, <2>1, <2>2 DEF Plain, Calling
<1>6. GrantsAreNew'
  <2> SUFFICES ASSUME NEW q \in Requests, NEW t \in Granted(q)'
               PROVE  /\ ~Succeeded(t)'
                      /\ \A b \in Devices : cookie'[b] # t
                      /\ \A s \in Requests : Calling(s)' => call'[s].token # t
                      /\ \A s \in Requests \ {q} : t \notin Granted(s)'
    BY DEF GrantsAreNew
  <2>1. \A s \in Requests : t \in Granted(s)' => t \in Granted(s)
    BY OthersStay DEF Plain
  <2>2. /\ ~Succeeded(t) /\ \A b \in Devices : cookie[b] # t
        /\ \A s \in Requests : Calling(s) => call[s].token # t
        /\ \A s \in Requests \ {q} : t \notin Granted(s)
    BY <2>1 DEF CookiesInv, GrantsAreNew
  <2> QED
    BY <1>3, <1>5, <2>1, <2>2 DEF Plain
<1>7. SentIsOwn'
  <2> SUFFICES ASSUME NEW q \in Requests, NEW b \in Devices, Calling(q)',
                      call'[q].token = cookie'[b]
               PROVE  task'[q].device = b
    BY DEF SentIsOwn
  <2> DEFINE t == call'[q].token
             d == task'[q].device
  <2>1. d \in Devices /\ t \in Tokens /\ cookie[b] = t
    BY <1>5 DEF Plain
  <2>2. CASE t = cookie[d]
    <3>1. t \in Keeps(b) /\ t \in Keeps(d)
      BY <2>1, <2>2 DEF Keeps
    <3> QED
      BY <2>1, <3>1 DEF CookiesInv, CookiesFit
  <2>3. CASE Calling(q) /\ t = call[q].token /\ d = task[q].device
    BY <2>1, <2>3 DEF CookiesInv, SentIsOwn
  <2> QED
    BY <1>5, <2>2, <2>3
<1> QED
  BY <1>1, <1>2, <1>4, <1>6, <1>7 DEF CookiesInv, Plain

\* A step in which request r stores token n, the replacement of p if it is a
\* rotation.
Grants(r, n, p) ==
  /\ UNCHANGED <<cookie, missed>>
  /\ \A q \in Requests \ {r} : task'[q] = task[q] /\ call'[q] = call[q]
  /\ task[r].pc # "none" /\ task'[r].pc # "none"
  /\ task'[r].device = task[r].device
  /\ task'[r].pc \in {"refresh", "logout"} =>
       /\ task[r].pc \in {"refresh", "logout"} /\ Calling(r)
       /\ call'[r].token = call[r].token
  /\ Fresh(n)
  /\ WillBelong(n, task[r].device)
  /\ Granted(r)' \subseteq {n}
  /\ parent' = [parent EXCEPT ![n] = p]
  /\ ~Renewing(r) /\ ~Rotating(r)'
  /\ p # NoToken => p = call[r].token /\ Rotating(r) /\ Renewing(r)'

LEMMA GrantKeeps ==
  ASSUME IInv, AccountsInv', CookiesInv, CallsFit, [Next]_vars, AccountsTypeOK,
         NEW r \in Requests, NEW n \in Tokens, NEW p, Grants(r, n, p)
  PROVE  CookiesInv'
<1>0. TypeOK /\ Provenance /\ CallsSound /\ NoSuccessorYet
  BY DEF IInv
<1>1. /\ parent'[n] = p
      /\ \A m \in Tokens \ {n} : parent'[m] = parent[m]
  BY <1>0 DEF Grants, TypeOK
<1>2. /\ parent[n] = NoToken /\ \A m \in Tokens : parent[m] # n
      /\ p # n
  BY <1>0, NoTokenAssumption DEF Grants, Provenance, Minted, Fresh, Rotating, CallsSound
<1>3. ASSUME NEW q \in Requests \ {r}, NEW t \in Granted(q)'
      PROVE  t \in Granted(q)
  <2>1. task'[q] = task[q] /\ call'[q] = call[q] /\ t \in Tokens
    BY <1>3 DEF Grants, Granted
  <2>2. CASE t # n
    BY <1>1, <1>3, <2>1, <2>2 DEF Granted, Doing, At
  <2>3. CASE t = n /\ Doing(q, "refresh") /\ At(q, "ok") /\ parent'[t] = call[q].token
    <3>1. call[q].token = p /\ p # NoToken
      BY <1>0, <1>1, <2>3, NoTokenAssumption DEF At, CallsSound
    <3>2. \E m \in Tokens : parent[m] = call[q].token
      BY <2>3 DEF CallsFit, At, Doing
    <3> QED
      BY <1>0, <3>1, <3>2 DEF Grants, NoSuccessorYet
  <2> QED
    BY <1>3, <2>1, <2>2, <2>3 DEF Granted, Doing, At
<1>4. CookiesFit'
  <2>0. ASSUME NEW b \in Devices, NEW t \in Tokens, t \in Keeps(b)'
        PROVE  \/ t # n /\ t \in Keeps(b)
               \/ t = n /\ b = task[r].device
    <3>1. /\ t = cookie[b] => t # NoToken /\ BelongsTo(t, b)
          /\ \A q \in Requests : t \in Granted(q) => BelongsTo(t, task[q].device)
      BY NoTokenAssumption DEF CookiesInv, CookiesFit
    <3>2. ASSUME t \in Keeps(b)
          PROVE  t # n
      BY <3>1, <3>2 DEF Keeps, BelongsTo, Grants
    <3>3. CASE cookie'[b] = t
      BY <3>2, <3>3 DEF Grants, Keeps
    <3>4. ASSUME NEW q \in Requests, t \in Granted(q)', task'[q].device = b
          PROVE  \/ t # n /\ t \in Keeps(b)
                 \/ t = n /\ b = task[r].device
      <4>1. CASE q = r
        BY <3>4, <4>1 DEF Grants
      <4>2. CASE q # r
        BY <1>3, <3>2, <3>4, <4>2 DEF Grants, Keeps
      <4> QED
        BY <4>1, <4>2
    <3> QED
      BY <2>0, <3>3, <3>4 DEF Keeps
  <2>1. ASSUME NEW b \in Devices, cookie'[b] # NoToken
        PROVE  WillBelong(cookie'[b], b)
    BY <2>1, OwnersStay, CookieIsAToken DEF Grants, CookiesInv, CookiesFit
  <2>2. ASSUME NEW q \in Requests, NEW t \in Granted(q)'
        PROVE  WillBelong(t, task'[q].device)
    <3>1. CASE q = r
      BY <2>2, <3>1 DEF Grants
    <3>2. CASE q # r
      <4>1. t \in Granted(q) /\ t \in Tokens /\ task'[q] = task[q]
        BY <1>3, <2>2, <3>2 DEF Grants, Granted
      <4>2. BelongsTo(t, task[q].device)
        BY <4>1 DEF CookiesInv, CookiesFit
      <4> QED
        BY <4>1, <4>2, OwnersStay
    <3> QED
      BY <3>1, <3>2
  <2>3. ASSUME NEW q \in Requests, Rotating(q)'
        PROVE  task'[q].pc = "refresh" /\ call'[q].device = task'[q].device
    BY <2>3, OthersStay DEF Grants, CookiesInv, CookiesFit, Doing
  <2>4. \A b, c \in Devices : \A t \in Tokens : t \in Keeps(b)' /\ t \in Keeps(c)' => b = c
    BY <2>0 DEF CookiesInv, CookiesFit
  <2> QED
    BY <2>1, <2>2, <2>3, <2>4 DEF CookiesFit, BelongsTo, WillBelong, Stored, Fresh, Doing
<1>5. ASSUME ~Tabs
      PROVE  OneRequestEach'
  <2>1. ASSUME NEW q \in Requests, NEW s \in Requests,
               ~Doing(q, "none")', ~Doing(s, "none")', task'[q].device = task'[s].device
        PROVE  q = s
    BY <1>5, <2>1 DEF Grants, CookiesInv, OneRequestEach, Doing
  <2>2. ASSUME NEW q \in Requests, task'[q].pc \in {"refresh", "logout"}
        PROVE  call'[q].token = cookie'[task'[q].device]
    BY <1>5, <2>2 DEF Grants, CookiesInv, OneRequestEach
  <2> QED
    BY <2>1, <2>2 DEF OneRequestEach
<1>6. ASSUME NEW q \in Requests, Calling(q)'
      PROVE  /\ Calling(q) /\ call'[q].token = call[q].token /\ task'[q].device = task[q].device
             /\ call[q].token \in Tokens /\ call[q].token # n
  <2>1. task'[q].pc \in {"refresh", "logout"}
    BY <1>6 DEF AccountsInv, CallsHaveTasks, Calling
  <2>2. Calling(q) /\ call'[q].token = call[q].token /\ task'[q].device = task[q].device
    BY <1>6, <2>1 DEF Grants, Calling
  <2>3. call[q].token \in Tokens /\ Minted(call[q].token)
    BY <1>0, <2>2 DEF Calling, CallsSound
  <2>4. ~Minted(n)
    BY NoTokenAssumption DEF Grants, Fresh, Minted
  <2> QED
    BY <2>2, <2>3, <2>4
<1>7. ASSUME NEW t \in Tokens, Succeeded(t)'
      PROVE  t # n /\ (Succeeded(t) \/ (t = p /\ p # NoToken))
  BY <1>1, <1>2, <1>7, NoTokenAssumption DEF Succeeded
<1>8. GrantsAreNew'
  <2> SUFFICES ASSUME NEW q \in Requests, NEW t \in Granted(q)'
               PROVE  /\ ~Succeeded(t)'
                      /\ \A b \in Devices : cookie'[b] # t
                      /\ \A s \in Requests : Calling(s)' => call'[s].token # t
                      /\ \A s \in Requests \ {q} : t \notin Granted(s)'
    BY DEF GrantsAreNew
  <2>1. CASE t = n
    <3>1. \A b \in Devices : cookie[b] # n
      BY <2>1, NoTokenAssumption DEF CookiesInv, CookiesFit, BelongsTo, Grants
    <3>2. \A s \in Requests : n \notin Granted(s)
      BY DEF CookiesInv, CookiesFit, BelongsTo, Grants
    <3>3. \A s \in Requests \ {r} : n \notin Granted(s)'
      BY <1>3, <3>2
    <3>4. q = r
      BY <2>1, <3>3
    <3> QED
      BY <1>6, <1>7, <2>1, <3>1, <3>3, <3>4 DEF Grants
  <2>2. CASE t # n
    <3>1. t \in Tokens /\ q # r /\ t \notin Granted(r)'
      BY <2>2 DEF Grants, Granted
    <3>2. \A s \in Requests : t \in Granted(s)' => t \in Granted(s)
      BY <1>3, <3>1
    <3>3. /\ ~Succeeded(t) /\ \A b \in Devices : cookie[b] # t
          /\ \A s \in Requests : Calling(s) => call[s].token # t
          /\ \A s \in Requests \ {q} : t \notin Granted(s)
      BY <3>2 DEF CookiesInv, GrantsAreNew
    <3>4. ~(t = p /\ p # NoToken)
      BY <3>3 DEF Grants, Rotating, Calling
    <3> QED
      BY <1>6, <1>7, <3>1, <3>2, <3>3, <3>4 DEF Grants
  <2> QED
    BY <2>1, <2>2
<1>9. SentIsOwn'
  <2>1. SentIsOwn /\ cookie' = cookie
    BY DEF CookiesInv, Grants
  <2> QED
    BY <1>6, <2>1 DEF SentIsOwn
<1>10. RotatedIsRenewed'
  <2> SUFFICES ASSUME NEW b \in Devices, cookie'[b] # NoToken, Succeeded(cookie[b])',
                      b \notin missed'
               PROVE  \E q \in Requests : Renewing(q)' /\ task'[q].device = b
    BY DEF RotatedIsRenewed
  <2>1. cookie'[b] = cookie[b] /\ cookie[b] \in Tokens
    BY CookieIsAToken DEF Grants
  <2>2. CASE Succeeded(cookie[b])
    <3>1. PICK q \in Requests : Renewing(q) /\ task[q].device = b
      BY <2>1, <2>2 DEF CookiesInv, RotatedIsRenewed, Grants
    <3> QED
      BY <3>1, OthersStay DEF Grants
  <2>3. CASE cookie[b] = p /\ p # NoToken
    <3>1. Calling(r) /\ call[r].token = cookie[b] /\ Renewing(r)' /\ r \in Requests
      BY <2>3 DEF Grants, Rotating, Calling
    <3>2. task[r].device = b
      BY <3>1 DEF CookiesInv, SentIsOwn
    <3>3. task'[r].device = task[r].device
      BY DEF Grants
    <3> QED
      BY <3>1, <3>2, <3>3
  <2>4. PICK m \in Tokens : parent'[m] = cookie[b]
    BY <2>1 DEF Succeeded
  <2> QED
    BY <1>1, <2>1, <2>2, <2>3, <2>4 DEF Succeeded
<1> QED
  BY <1>4, <1>5, <1>8, <1>9, <1>10 DEF CookiesInv, Grants

\* A response arrives, or is lost.
LEMMA DeliverKeepsBrowsers ==
  ASSUME IInv, CookiesInv, AccountsTypeOK, CallsHaveTasks, NEW r \in Requests, Deliver(r)
  PROVE  CookiesInv'
<1> DEFINE b0 == task[r].device
           c0 == task[r].set
<1>0. /\ UNCHANGED <<rows, call, family, parent>>
      /\ task[r].pc = "answer" /\ b0 \in Devices
      /\ task'[r].pc = "none"
      /\ \A q \in Requests \ {r} : task'[q] = task[q]
      /\ \/ Lossy /\ cookie' = cookie /\ missed' = missed \cup Addressee(r)
         \/ c0 = "keep" /\ UNCHANGED <<cookie, missed>>
         \/ /\ c0 # "keep" /\ cookie' = [cookie EXCEPT ![b0] = c0]
            /\ missed' = missed \ {b0}
      /\ Addressee(r) = IF c0 = "keep" THEN {} ELSE {b0}
      /\ cookie \in [Devices -> Tokens \cup {NoToken}]
      /\ c0 \in Tokens \cup {NoToken, "keep"}
  BY DEF Deliver, Addressee, vars, Doing, SetCookie, AccountsTypeOK, Task, Steps
<1>1. \A q \in Requests \ {r} : Granted(q)' = Granted(q)
  BY <1>0 DEF Granted, Doing, At
<1>2. Granted(r)' = {}
  BY <1>0 DEF Granted, Doing
<1>3. ASSUME NEW b \in Devices, cookie'[b] # NoToken
      PROVE  \/ /\ cookie'[b] = cookie[b] /\ (b \in missed => b \in missed')
                /\ b # b0 \/ c0 = "keep" \/ b \in missed'
             \/ b = b0 /\ cookie'[b] = c0 /\ c0 \in Granted(r)
  BY <1>0, <1>3 DEF Granted, Doing
<1>4. CookiesFit'
  <2>0. ASSUME NEW b \in Devices, NEW t \in Tokens, t \in Keeps(b)'
        PROVE  t \in Keeps(b)
    BY <1>0, <1>1, <1>2, <1>3, <2>0, NoTokenAssumption DEF Keeps
  <2>1. ASSUME NEW b \in Devices, cookie'[b] # NoToken
        PROVE  BelongsTo(cookie'[b], b)
    BY <1>3, <2>1 DEF CookiesInv, CookiesFit
  <2>2. ASSUME NEW q \in Requests, NEW t \in Granted(q)'
        PROVE  BelongsTo(t, task'[q].device)
    BY <1>0, <1>1, <1>2, <2>2 DEF CookiesInv, CookiesFit
  <2>3. ASSUME NEW q \in Requests, Rotating(q)'
        PROVE  task'[q].pc = "refresh" /\ call'[q].device = task'[q].device
    <3>1. Rotating(q) /\ call'[q] = call[q]
      BY <1>0, <2>3 DEF Rotating
    <3>2. q # r
      BY <1>0, <3>1 DEF Rotating, CallsHaveTasks
    <3> QED
      BY <1>0, <3>1, <3>2 DEF CookiesInv, CookiesFit, Doing
  <2>4. \A b, c \in Devices : \A t \in Tokens : t \in Keeps(b)' /\ t \in Keeps(c)' => b = c
    BY <2>0 DEF CookiesInv, CookiesFit
  <2> QED
    BY <1>0, <2>1, <2>2, <2>3, <2>4 DEF CookiesFit, BelongsTo, Stored, Fresh, Doing
<1>5. ASSUME ~Tabs
      PROVE  OneRequestEach'
  <2>1. ASSUME NEW q \in Requests, NEW s \in Requests,
               ~Doing(q, "none")', ~Doing(s, "none")', task'[q].device = task'[s].device
        PROVE  q = s
    BY <1>0, <1>5, <2>1 DEF CookiesInv, OneRequestEach, Doing
  <2>2. ASSUME NEW q \in Requests, task'[q].pc \in {"refresh", "logout"}
        PROVE  call'[q].token = cookie'[task'[q].device]
    <3>1. q # r /\ task'[q] = task[q] /\ task[q].device \in Devices
      BY <1>0, <2>2 DEF AccountsTypeOK, Task, Steps
    <3>2. task[q].device # b0
      BY <1>0, <1>5, <2>2, <3>1 DEF CookiesInv, OneRequestEach, Doing
    <3> QED
      BY <1>0, <1>5, <2>2, <3>1, <3>2 DEF CookiesInv, OneRequestEach
  <2> QED
    BY <2>1, <2>2 DEF OneRequestEach
<1>6. ASSUME NEW q \in Requests, Calling(q)'
      PROVE  Calling(q) /\ q # r /\ call'[q] = call[q] /\ task'[q] = task[q]
  BY <1>0, <1>6 DEF Calling, CallsHaveTasks
<1>7. \A t : Succeeded(t)' <=> Succeeded(t)
  BY <1>0 DEF Succeeded
<1>8. GrantsAreNew'
  <2> SUFFICES ASSUME NEW q \in Requests, NEW t \in Granted(q)'
               PROVE  /\ ~Succeeded(t)'
                      /\ \A b \in Devices : cookie'[b] # t
                      /\ \A s \in Requests : Calling(s)' => call'[s].token # t
                      /\ \A s \in Requests \ {q} : t \notin Granted(s)'
    BY DEF GrantsAreNew
  <2>1. q # r /\ t \in Granted(q) /\ t \in Tokens
    BY <1>1, <1>2 DEF Granted
  <2>2. \A b \in Devices : cookie'[b] # t
    BY <1>3, <2>1, NoTokenAssumption DEF CookiesInv, GrantsAreNew
  <2> QED
    BY <1>1, <1>2, <1>6, <1>7, <2>1, <2>2 DEF CookiesInv, GrantsAreNew
<1>9. SentIsOwn'
  <2> SUFFICES ASSUME NEW q \in Requests, NEW b \in Devices, Calling(q)',
                      call'[q].token = cookie'[b]
               PROVE  task'[q].device = b
    BY DEF SentIsOwn
  <2>1. call[q].token \in Tokens
    BY <1>6 DEF IInv, CallsSound, Calling
  <2>2. cookie'[b] = cookie[b]
    BY <1>3, <1>6, <2>1, NoTokenAssumption DEF CookiesInv, GrantsAreNew
  <2> QED
    BY <1>6, <2>2 DEF CookiesInv, SentIsOwn
<1>10. RotatedIsRenewed'
  <2> SUFFICES ASSUME NEW b \in Devices, cookie'[b] # NoToken, Succeeded(cookie'[b]),
                      b \notin missed'
               PROVE  \E q \in Requests : Renewing(q)' /\ task'[q].device = b
    BY <1>7 DEF RotatedIsRenewed
  <2>1. cookie'[b] = cookie[b] /\ b \notin missed /\ (b # b0 \/ c0 = "keep")
    BY <1>3 DEF CookiesInv, GrantsAreNew
  <2>2. PICK q \in Requests : Renewing(q) /\ task[q].device = b
    BY <2>1 DEF CookiesInv, RotatedIsRenewed
  <2>3. q # r
    BY <1>0, <2>1, <2>2 DEF Renewing, Doing
  <2> QED
    BY <1>0, <2>2, <2>3, OthersStay
<1> QED
  BY <1>0, <1>4, <1>5, <1>8, <1>9, <1>10 DEF CookiesInv

-----------------------------------------------------------------------------
(* Which step is of which kind.                                            *)

\* A request that has not called the service, or no longer does.
Away(r) == task[r].pc \notin {"refresh", "logout"}

LEMMA AwayIsQuiet ==
  ASSUME CallsHaveTasks, NEW r \in Requests, Away(r)
  PROVE  ~Rotating(r) /\ call[r].pc = "idle"
BY DEF CallsHaveTasks, Away, Rotating

\* A handler begins, or goes on to another statement of its own.
LEMMA StatementsArePlain ==
  ASSUME AccountsInv, NEW r \in Requests,
         \/ \E b \in Devices, u \in Users : LoginCheck(r, b, u) \/ DemoCheck(r, b, u)
                                           \/ ChangeCheck(r, b, u) \/ DeleteCheck(r, b, u)
         \/ ChangeStore(r) \/ ChangeRevoke(r)
  PROVE  Plain(r)
<1>0. AccountsTypeOK /\ CallsHaveTasks
  BY DEF AccountsInv
<1>1. Away(r) /\ task[r].pc \notin {"answer", "refresh"}
  BY DEF LoginCheck, DemoCheck, ChangeCheck, DeleteCheck, ChangeStore, ChangeRevoke,
         Ready, Doing, Away
<1>2. UNCHANGED <<cookie, parent, call, missed>>
  BY DEF LoginCheck, DemoCheck, ChangeCheck, DeleteCheck, ChangeStore, ChangeRevoke,
         SignOut, RevokeAllForUser, vars, history, log
<1>3. /\ task'[r].pc \in Steps
      /\ \A q \in Requests \ {r} : task'[q] = task[q]
      /\ \/ task[r].pc # "none" /\ task'[r].device = task[r].device
         \/ Ready(r, task'[r].device)
  <2>1. ASSUME NEW b \in Devices, NEW u \in Users,
               \/ LoginCheck(r, b, u) \/ DemoCheck(r, b, u)
               \/ ChangeCheck(r, b, u) \/ DeleteCheck(r, b, u)
        PROVE  /\ task'[r].pc \in Steps
               /\ \A q \in Requests \ {r} : task'[q] = task[q]
               /\ Ready(r, task'[r].device)
    <3>1. Ready(r, b) /\ \E pc \in Steps : Accept(r, b, u, pc)
      BY <2>1 DEF LoginCheck, DemoCheck, ChangeCheck, DeleteCheck, Steps
    <3> QED
      BY <1>0, <3>1, Accepted
  <2>2. CASE ChangeStore(r) \/ ChangeRevoke(r)
    <3>1. task[r].pc \in Steps /\ task[r].pc # "none"
      BY <2>2 DEF ChangeStore, ChangeRevoke, Doing, Steps
    <3>2. task[r].user \in Users /\ task[r].pw \in Nat
      BY <1>0, <3>1, TaskFields
    <3>3. \E pc \in Steps, pw \in Nat : Goto(r, pc, pw)
      BY <1>0, <2>2, <3>2 DEF ChangeStore, ChangeRevoke, Steps, AccountsTypeOK
    <3> QED
      BY <1>0, <3>1, <3>3, Gone
  <2> QED
    BY <2>1, <2>2
<1>4. ~Rotating(r)' /\ Granted(r)' = {} /\ ~Renewing(r)
  BY <1>0, <1>1, <1>2, <1>3, AwayIsQuiet
  DEF Rotating, Granted, Renewing, Doing, Steps
<1> QED
  BY <1>2, <1>3, <1>4 DEF Plain, Steps

\* A handler is done without a token.
LEMMA FailuresArePlain ==
  ASSUME AccountsInv, NEW r \in Requests,
         \/ StoreFails(r) \/ ChangeStoreFails(r) \/ ChangeRevokeFails(r)
         \/ DeleteRun(r) \/ DeleteFails(r)
  PROVE  Plain(r)
<1>0. AccountsTypeOK /\ CallsHaveTasks
  BY DEF AccountsInv
<1>1. Away(r) /\ task[r].pc \notin {"none", "answer", "refresh"}
  BY DEF StoreFails, ChangeStoreFails, ChangeRevokeFails, DeleteRun, DeleteFails, Doing, Away
<1>2. UNCHANGED <<cookie, parent, call, missed>>
  BY DEF StoreFails, ChangeStoreFails, ChangeRevokeFails, DeleteRun, DeleteFails,
         SignOut, RevokeAllForUser, DeleteUser, vars, history, log
<1>3. PICK c \in {NoToken, "keep"} : Answer(r, c)
  BY DEF StoreFails, ChangeStoreFails, ChangeRevokeFails, DeleteRun, DeleteFails
<1>4. /\ task'[r].pc = "answer" /\ task'[r].set = c /\ task'[r].device = task[r].device
      /\ \A q \in Requests \ {r} : task'[q] = task[q]
  BY <1>0, <1>1, <1>3, Answered
<1>5. Granted(r)' = {} /\ ~Renewing(r)
  BY <1>1, <1>4, KeepAssumption, NoTokenAssumption DEF Granted, Renewing, Doing
<1>6. ~Rotating(r)'
  BY <1>0, <1>1, <1>2, AwayIsQuiet DEF Rotating
<1> QED
  BY <1>1, <1>2, <1>4, <1>5, <1>6 DEF Plain

\* The cookie is sent.
LEMMA CallsArePlain ==
  ASSUME AccountsInv, TypeOK, NEW r \in Requests, NEW b \in Devices,
         RefreshCall(r, b) \/ LogoutCall(r, b)
  PROVE  Plain(r)
<1> DEFINE t == cookie[b]
<1>0. /\ t \in Tokens /\ Ready(r, b) /\ task[r].pc = "none"
      /\ UNCHANGED <<cookie, parent, missed>>
      /\ \E pc \in {"refresh", "logout"} : task' = [task EXCEPT ![r] = [pc |-> pc, device |-> b]]
  BY CookieIsAToken
  DEF AccountsInv, RefreshCall, LogoutCall, Send, Ready, Doing, RotateClaim, RotateMiss,
      RotateClaimError, RevokeLookup, history, log
<1>1. /\ task'[r].pc \in {"refresh", "logout"} /\ task'[r].device = b
      /\ \A q \in Requests \ {r} : task'[q] = task[q]
  BY <1>0 DEF AccountsInv, AccountsTypeOK
<1>2. /\ call'[r].token = t
      /\ Rotating(r)' => call'[r].device = b /\ task'[r].pc = "refresh"
      /\ \A q \in Requests \ {r} : call'[q] = call[q]
      /\ call'[r].pc # "ok"
  BY BegunCall, ReturnedCall
  DEF RefreshCall, LogoutCall, RotateClaim, RotateMiss, RotateClaimError, RevokeLookup,
      Rotating, Outcomes, Fingerprint, Send, AccountsInv, AccountsTypeOK
<1>3. Granted(r)' = {} /\ ~Renewing(r)
  BY <1>0, <1>1, <1>2 DEF Granted, Renewing, Doing, At
<1> QED
  BY <1>0, <1>1, <1>2, <1>3 DEF Plain

\* A call moves to a stage where it neither has a new token nor is done.
LEMMA StagesArePlain ==
  ASSUME AccountsInv, NEW r \in Requests,
         UNCHANGED <<cookie, parent, task, missed>>,
         \A q \in Requests \ {r} : call'[q] = call[q],
         task[r].pc \in {"refresh", "logout"},
         call'[r].token = call[r].token,
         Rotating(r)' => Rotating(r) /\ call'[r].device = call[r].device,
         call[r].pc \notin {"idle", "ok", "error"},
         call'[r].pc = "ok" => task[r].pc = "logout"
  PROVE  Plain(r)
<1>1. Granted(r)' = {} /\ ~Renewing(r)
  BY DEF Granted, Renewing, Doing, At
<1> QED
  BY <1>1 DEF Plain, Calling

LEMMA CallStepIsPlain ==
  ASSUME AccountsInv, CallsFit, TypeOK, NEW r \in Requests, CallStep(r)
  PROVE  Plain(r)
<1>0. /\ UNCHANGED <<cookie, parent, task, missed>>
      /\ call[r].pc \in {"lookup", "replay", "claimed", "insert", "revoke"}
  BY DEF CallStep, RotateLookup, RotateReplay, RotateMismatch, RotateRole,
         RotateInsertExpired, ReadError, RevokeByID, history, At
<1>1. task[r].pc \in {"refresh", "logout"}
  BY <1>0 DEF AccountsInv, CallsHaveTasks
<1>2. ASSUME NEW outcome \in Outcomes, Return(r, call[r].token, outcome),
             outcome = "ok" => task[r].pc = "logout"
      PROVE  Plain(r)
  BY <1>0, <1>1, <1>2, ReturnedCall, StagesArePlain DEF Rotating, Outcomes
<1>3. CASE RevokeByID(r)
  <2>1. task[r].pc = "logout"
    BY <1>3 DEF RevokeByID, At, CallsFit
  <2> QED
    BY <1>2, <1>3, <2>1 DEF RevokeByID, Outcomes
<1>4. CASE Hold(r, "replay", rows[call[r].token])
  <2> DEFINE k == [call[r] EXCEPT !.pc = "replay", !.row = rows[call[r].token]]
  <2>1. k.pc = "replay" /\ k.token = call[r].token
    BY DEF TypeOK, Call
  <2>2. call' = [call EXCEPT ![r] = k]
    BY <1>4 DEF Hold
  <2> HIDE DEF k
  <2>3. call'[r] = k /\ \A q \in Requests \ {r} : call'[q] = call[q]
    BY <2>2 DEF TypeOK
  <2> QED
    BY <1>0, <1>1, <2>1, <2>3, StagesArePlain DEF Rotating
<1>5. CASE call[r].pc = "claimed" /\ call' = [call EXCEPT ![r] =
              [@ EXCEPT !.pc = "insert", !.role = role[call[r].row.user]]]
  <2> DEFINE k == [call[r] EXCEPT !.pc = "insert", !.role = role[call[r].row.user]]
  <2>1. k.pc = "insert" /\ k.token = call[r].token /\ k.device = call[r].device
    BY DEF TypeOK, Call
  <2>2. call' = [call EXCEPT ![r] = k]
    BY <1>5
  <2> HIDE DEF k
  <2>3. call'[r] = k /\ \A q \in Requests \ {r} : call'[q] = call[q]
    BY <2>2 DEF TypeOK
  <2> QED
    BY <1>0, <1>1, <1>5, <2>1, <2>3, StagesArePlain DEF Rotating
<1> QED
  BY <1>2, <1>3, <1>4, <1>5
  DEF CallStep, RotateLookup, RotateReplay, RotateMismatch, RotateRole,
      RotateInsertExpired, ReadError, Outcomes, At

\* The response carries the token that replaced the one sent, if there is one.
LEMMA CallReturnsIsPlain ==
  ASSUME AccountsInv, CallsFit, TypeOK, NEW r \in Requests, CallReturns(r)
  PROVE  Plain(r)
<1> DEFINE c == CookieOf(r)
<1>0. /\ UNCHANGED <<cookie, parent, missed>>
      /\ task[r].pc \in {"refresh", "logout"}
      /\ call' = [call EXCEPT ![r] = Idle]
      /\ Answer(r, c)
  BY DEF CallReturns, Reply, history, log
<1>1. \/ c = NoToken
      \/ c \in Granted(r)
  <2>1. CASE Doing(r, "refresh") /\ At(r, "ok")
    <3>1. \E n \in Tokens : parent[n] = call[r].token
      BY <2>1 DEF CallsFit, Doing, At
    <3>2. c = CHOOSE n \in Tokens : parent[n] = call[r].token
      BY <2>1 DEF CookieOf, At
    <3>3. c \in Tokens /\ parent[c] = call[r].token
      BY <3>1, <3>2
    <3> QED
      BY <2>1, <3>3 DEF Granted
  <2>2. CASE ~(Doing(r, "refresh") /\ At(r, "ok"))
    BY <2>2 DEF CookieOf, At
  <2> QED
    BY <2>1, <2>2
<1>2. c \in Tokens \cup {NoToken} /\ c # "keep"
  BY <1>1, KeepAssumption DEF Granted
<1> HIDE DEF c
<1>3. /\ task'[r].pc = "answer" /\ task'[r].set = c /\ task'[r].device = task[r].device
      /\ \A q \in Requests \ {r} : task'[q] = task[q]
  BY <1>0, <1>2, Answered DEF AccountsInv
<1>4. \A t \in Granted(r)' : t \in Granted(r)
  BY <1>1, <1>3, NoTokenAssumption DEF Granted, Doing
<1>5. ~Rotating(r)' /\ \A q \in Requests \ {r} : call'[q] = call[q]
  BY <1>0 DEF TypeOK, Rotating, Idle
<1>6. Renewing(r)'
  BY <1>2, <1>3 DEF Renewing, Doing
<1> QED
  BY <1>0, <1>3, <1>4, <1>5, <1>6 DEF Plain

LEMMA StoreGrants ==
  ASSUME AccountsInv, IInv, NEW r \in Requests, NEW n \in Tokens, NEW by,
         task[r].pc \in Opening, Store(r, n, by)
  PROVE  Grants(r, n, NoToken)
<1>0. AccountsTypeOK /\ CallsHaveTasks /\ TypeOK /\ Provenance
  BY DEF AccountsInv, IInv
<1>1. Away(r) /\ task[r].pc \notin {"none", "answer", "refresh"}
  BY DEF Opening, Away
<1>2. \E e : Insert(n, task[r].user, task[r].device, e, n, NoToken)
  BY DEF Store, CreateDemoToken, CreateRefreshToken, Fingerprint
<1>3. /\ Fresh(n) /\ WillBelong(n, task[r].device)
      /\ parent' = [parent EXCEPT ![n] = NoToken]
  BY <1>0, <1>2, NoTokenAssumption DEF Insert, WillBelong, TypeOK
<1>4. UNCHANGED <<cookie, call, missed>>
  BY DEF Store, Record, CreateDemoToken, CreateRefreshToken
<1>5. PICK c \in {n, "keep"} : Answer(r, c)
  BY DEF Store
<1>6. /\ task'[r].pc = "answer" /\ task'[r].set = c /\ task'[r].device = task[r].device
      /\ \A q \in Requests \ {r} : task'[q] = task[q]
  BY <1>0, <1>1, <1>5, Answered
<1>7. Granted(r)' \subseteq {n} /\ ~Renewing(r)
  BY <1>1, <1>6, KeepAssumption DEF Granted, Renewing, Doing
<1>8. ~Rotating(r)'
  BY <1>0, <1>1, <1>4, AwayIsQuiet DEF Rotating
<1> QED
  BY <1>1, <1>3, <1>4, <1>6, <1>7, <1>8 DEF Grants

LEMMA CallStoreGrants ==
  ASSUME AccountsInv, IInv, CookiesFit, NEW r \in Requests, CallStore(r)
  PROVE  Plain(r) \/ \E n \in Tokens : Grants(r, n, call[r].token)
<1> DEFINE t == call[r].token
<1>0. /\ TypeOK /\ CallsHaveTasks /\ CallsSound /\ Provenance /\ NoSuccessorYet
      /\ UNCHANGED <<cookie, task, missed>>
      /\ call[r].pc = "insert" /\ Rotating(r)
  BY DEF CallStore, Record, RotateInsert, RotateInsertError, At, Rotating, AccountsInv, IInv
<1>1. /\ task[r].pc \in {"refresh", "logout"}
      /\ t \in Tokens /\ t # NoToken
      /\ task[r].pc = "refresh" /\ call[r].device = task[r].device
  BY <1>0, NoTokenAssumption DEF CallsHaveTasks, CallsSound, CookiesFit, Doing
<1>2. PICK outcome \in {"ok", "error"} :
        /\ Return(r, t, outcome)
        /\ \/ outcome = "error" /\ UNCHANGED parent
           \/ \E n \in Tokens : Replace(r, n)
  BY DEF CallStore, RotateInsert, RotateInsertError
<1>3. /\ call'[r].pc = outcome /\ call'[r].token = t
      /\ \A q \in Requests \ {r} : call'[q] = call[q]
  BY <1>0, <1>2, ReturnedCall DEF Outcomes
<1>4. CASE outcome = "error" /\ UNCHANGED parent
  BY <1>0, <1>1, <1>3, <1>4, StagesArePlain DEF Rotating
<1>5. ASSUME NEW n \in Tokens, Replace(r, n)
      PROVE  Grants(r, n, t)
  <2>1. /\ Fresh(n) /\ role[call[r].row.user] # "gone"
        /\ WillBelong(n, call[r].device)
        /\ parent' = [parent EXCEPT ![n] = t]
    <3>1. family[t] \in Tokens /\ family[t] # NoToken
      BY <1>0, <1>1, NoTokenAssumption DEF CallsSound, Minted
    <3>2. [user |-> call[r].row.user, device |-> call[r].device,
           expiresAt |-> ReplacementExpiry(r), revoked |-> FALSE].device = call[r].device
      OBVIOUS
    <3> QED
      BY <1>0, <1>5, <3>1, <3>2 DEF Replace, Insert, WillBelong, TypeOK
  <2>2. Granted(r)' \subseteq {n}
    <3>1. \A m \in Tokens : parent'[m] = t => m = n
      BY <1>0, <2>1 DEF NoSuccessorYet, TypeOK
    <3> QED
      BY <1>0, <1>1, <1>3, <3>1 DEF Granted, Doing
  <2>3. ~Rotating(r)' /\ ~Renewing(r)
    BY <1>0, <1>1, <1>3 DEF Rotating, Renewing, Doing
  <2>4. Renewing(r)'
    BY <1>0, <1>1, <1>3 DEF Renewing, Doing
  <2> QED
    BY <1>0, <1>1, <1>3, <2>1, <2>2, <2>3, <2>4 DEF Grants, Calling
<1> QED
  BY <1>2, <1>4, <1>5

-----------------------------------------------------------------------------
(* The browsers' invariant.                                                *)

LEMMA BrowsersStartSound ==
  ASSUME AccountsInit
  PROVE  BrowsersInv
<1>1. /\ \A b \in Devices : cookie[b] = NoToken
      /\ \A r \in Requests : call[r].pc = "idle" /\ task[r].pc = "none"
  BY DEF AccountsInit, Init, Idle
<1>2. \A r \in Requests : Granted(r) = {} /\ ~Rotating(r) /\ ~Renewing(r) /\ Doing(r, "none")
  BY <1>1 DEF Granted, Rotating, Renewing, Doing
<1>3. \A t \in Tokens : \A b \in Devices : t \notin Keeps(b)
  BY <1>1, <1>2, NoTokenAssumption DEF Keeps
<1>4. CookiesInv
  BY <1>1, <1>2, <1>3
  DEF CookiesInv, CookiesFit, GrantsAreNew, SentIsOwn, RotatedIsRenewed, OneRequestEach,
      Calling, AccountsInit
<1>5. LastIsAlone
  BY <1>2 DEF LastIsAlone, AccountsInit, Init, Live, Stored
<1>6. LogoutsRevoked
  BY <1>2 DEF LogoutsRevoked, Doing
<1> QED
  BY <1>4, <1>5, <1>6 DEF BrowsersInv

LEMMA CookiesKeep ==
  ASSUME AccountsInv, CallsFit, IInv, CookiesInv, [AccountsNext]_accountsVars
  PROVE  CookiesInv'
<1>0. /\ AccountsTypeOK /\ TypeOK /\ CallsHaveTasks /\ CookiesFit /\ [Next]_vars
      /\ AccountsInv' /\ IInv'
  BY ServiceStep, StepKeeps DEF AccountsInv, IInv, CookiesInv
<1>1. ASSUME NEW r \in Requests, Plain(r)
      PROVE  CookiesInv'
  BY <1>0, <1>1, PlainKeeps
<1>2. ASSUME NEW r \in Requests, NEW b \in Devices, Receive(r, b)
      PROVE  CookiesInv'
  BY <1>0, <1>1, <1>2, StatementsArePlain, CallsArePlain DEF Receive
<1>3. ASSUME NEW r \in Requests, Proceed(r)
      PROVE  CookiesInv'
  <2>1. ASSUME NEW n \in Tokens, LoginStore(r, n) \/ DemoStore(r, n) \/ ChangeFresh(r, n)
        PROVE  CookiesInv'
    <3>1. task[r].pc \in Opening /\ \E by : Store(r, n, by)
      BY <2>1 DEF LoginStore, DemoStore, ChangeFresh, Doing, Opening
    <3> QED
      BY <1>0, <3>1, StoreGrants, GrantKeeps
  <2>2. CASE CallStore(r)
    BY <1>0, <1>1, <2>2, CallStoreGrants, GrantKeeps
  <2> QED
    BY <1>0, <1>1, <1>3, <2>1, <2>2, StatementsArePlain, FailuresArePlain,
       CallStepIsPlain, CallReturnsIsPlain, DeliverKeepsBrowsers
    DEF Proceed
<1>4. CASE ClockTick \/ UNCHANGED accountsVars
  <2>1. UNCHANGED <<rows, call, family, parent, cookie, task, missed>>
    BY <1>4 DEF ClockTick, Tick, history, accountsVars, vars, log
  <2>2. /\ \A r \in Requests : /\ Granted(r)' = Granted(r)
                               /\ Rotating(r)' <=> Rotating(r)
                               /\ Renewing(r)' <=> Renewing(r)
        /\ \A t, b : BelongsTo(t, b)' <=> BelongsTo(t, b)
        /\ \A t : Succeeded(t)' <=> Succeeded(t)
    BY <2>1 DEF Granted, Rotating, Renewing, Doing, At, BelongsTo, Stored, Fresh, Succeeded
  <2>3. CookiesFit'
    <3>1. \A b : Keeps(b)' = Keeps(b)
      BY <2>1, <2>2 DEF Keeps
    <3> QED
      BY <1>0, <2>1, <2>2, <3>1 DEF CookiesFit, Doing
  <2>4. OneRequestEach => OneRequestEach'
    BY <2>1 DEF OneRequestEach, Doing
  <2>5. GrantsAreNew' /\ SentIsOwn' /\ RotatedIsRenewed'
    BY <2>1, <2>2 DEF CookiesInv, GrantsAreNew, SentIsOwn, RotatedIsRenewed, Calling
  <2> QED
    BY <2>1, <2>3, <2>4, <2>5 DEF CookiesInv
<1> QED
  BY <1>2, <1>3, <1>4 DEF AccountsNext

LEMMA RevokedTokenIsDead ==
  ASSUME TypeOK, NEW t \in Tokens, rows' = IF Stored(t) THEN Revoked(t) ELSE rows
  PROVE  ~Live(t)'
<1>1. CASE Stored(t)
  <2>1. rows'[t] = [rows[t] EXCEPT !.revoked = TRUE] /\ rows[t] \in Row
    BY <1>1 DEF TypeOK, Revoked, Stored
  <2> QED
    BY <2>1 DEF Live, Row
<1>2. CASE ~Stored(t)
  BY <1>2 DEF Live, Stored
<1> QED
  BY <1>1, <1>2

\* A logout that went well has revoked its token, and for good.
LEMMA LogoutsKeep ==
  ASSUME AccountsInv, CallsFit, IInv, CookiesFit, LogoutsRevoked,
         [AccountsNext]_accountsVars
  PROVE  LogoutsRevoked'
<1>0. AccountsTypeOK /\ TypeOK /\ CallsHaveTasks /\ CallsSound /\ [Next]_vars
  BY ServiceStep DEF AccountsInv, IInv
<1> SUFFICES ASSUME NEW q \in Requests, task'[q].pc = "logout", call'[q].pc = "ok",
                    Live(call[q].token)'
             PROVE  FALSE
  BY DEF LogoutsRevoked, Doing, At
<1>1. ASSUME task'[q] = task[q], call'[q] = call[q]
      PROVE  FALSE
  <2>1. call[q].token \in Tokens /\ Minted(call[q].token)
    BY <1>0, <1>1 DEF CallsSound
  <2>2. Live(call[q].token)
    BY <1>0, <1>1, <2>1, DeadTokensStay DEF Live, Stored
  <2> QED
    BY <1>1, <2>2 DEF LogoutsRevoked, Doing, At
<1>2. ASSUME NEW r \in Requests, Away(r), call' = call,
             \A s \in Requests \ {r} : task'[s] = task[s]
      PROVE  FALSE
  BY <1>0, <1>1, <1>2, AwayIsQuiet
<1>3. ASSUME NEW r \in Requests, Plain(r), call'[r].pc # "ok" \/ task'[r].pc # "logout"
      PROVE  FALSE
  BY <1>1, <1>3 DEF Plain
<1>4. ASSUME NEW r \in Requests, NEW n, NEW p, Grants(r, n, p),
             call'[r].pc # "ok" \/ task'[r].pc # "logout"
      PROVE  FALSE
  BY <1>1, <1>4 DEF Grants
<1>5. ASSUME NEW r \in Requests, NEW b \in Devices, Receive(r, b)
      PROVE  FALSE
  <2>1. CASE RefreshCall(r, b) \/ LogoutCall(r, b)
    <3>1. call'[r].pc # "ok"
      BY <1>0, <2>1, BegunCall, ReturnedCall
      DEF RefreshCall, LogoutCall, RotateClaim, RotateMiss, RotateClaimError, RevokeLookup,
          Outcomes
    <3> QED
      BY <1>0, <1>3, <2>1, <3>1, CallsArePlain
  <2>2. CASE \E u \in Users : LoginCheck(r, b, u) \/ DemoCheck(r, b, u)
                              \/ ChangeCheck(r, b, u) \/ DeleteCheck(r, b, u)
    <3>1. Away(r) /\ call' = call
      BY <2>2 DEF LoginCheck, DemoCheck, ChangeCheck, DeleteCheck, Ready, Doing, Away, vars
    <3> QED
      BY <1>2, <2>2, <3>1, StatementsArePlain DEF Plain
  <2> QED
    BY <1>5, <2>1, <2>2 DEF Receive
<1>6. ASSUME NEW r \in Requests, CallStep(r), q = r
      PROVE  FALSE
  <2>1. task' = task /\ task[r].pc = "logout"
    BY <1>6 DEF CallStep
  <2>2. CASE RevokeByID(r)
    <3> DEFINE t == call[r].token
    <3>1. t \in Tokens /\ call'[r].token = t
          /\ rows' = IF Stored(t) THEN Revoked(t) ELSE rows
      BY <1>0, <1>6, <2>2, ReturnedCall DEF RevokeByID, At, CallsSound, Outcomes
    <3>2. ~Live(t)'
      BY <1>0, <3>1, RevokedTokenIsDead
    <3> QED
      BY <1>6, <3>1, <3>2 DEF Live, Stored
  <2>3. CASE Hold(r, "replay", rows[call[r].token])
    BY <1>0, <1>6, <2>3 DEF Hold, TypeOK, Call
  <2>4. CASE call' = [call EXCEPT ![r] =
                [@ EXCEPT !.pc = "insert", !.role = role[call[r].row.user]]]
    BY <1>0, <1>6, <2>4 DEF TypeOK, Call
  <2>5. ASSUME NEW outcome \in Outcomes \ {"ok"}, Return(r, call[r].token, outcome)
        PROVE  FALSE
    BY <1>0, <1>6, <2>5, ReturnedCall
  <2> QED
    BY <1>6, <2>2, <2>3, <2>4, <2>5
    DEF CallStep, RotateLookup, RotateReplay, RotateMismatch, RotateRole,
        RotateInsertExpired, ReadError, Outcomes
<1>7. ASSUME NEW r \in Requests, Proceed(r)
      PROVE  FALSE
  <2>1. ASSUME NEW n \in Tokens, LoginStore(r, n) \/ DemoStore(r, n) \/ ChangeFresh(r, n)
        PROVE  FALSE
    <3>1. task[r].pc \in Opening /\ \E by : Store(r, n, by)
      BY <2>1 DEF LoginStore, DemoStore, ChangeFresh, Doing, Opening
    <3>2. Away(r) /\ call' = call
      BY <3>1 DEF Opening, Away, Store, CreateDemoToken, CreateRefreshToken
    <3> QED
      BY <1>2, <3>1, <3>2, StoreGrants DEF Grants
  <2>2. CASE StoreFails(r) \/ ChangeStoreFails(r) \/ ChangeRevokeFails(r)
             \/ DeleteRun(r) \/ DeleteFails(r)
    <3>1. Away(r) /\ call' = call
      BY <2>2 DEF StoreFails, ChangeStoreFails, ChangeRevokeFails, DeleteRun, DeleteFails,
                  SignOut, RevokeAllForUser, DeleteUser, Doing, Away, vars
    <3> QED
      BY <1>2, <2>2, <3>1, FailuresArePlain DEF Plain
  <2>3. CASE ChangeStore(r) \/ ChangeRevoke(r)
    <3>1. Away(r) /\ call' = call
      BY <2>3 DEF ChangeStore, ChangeRevoke, SignOut, RevokeAllForUser, Doing, Away, vars
    <3> QED
      BY <1>2, <2>3, <3>1, StatementsArePlain DEF Plain
  <2>4. CASE CallStep(r)
    BY <1>0, <1>1, <1>6, <2>4, CallStepIsPlain DEF Plain
  <2>5. CASE CallStore(r)
    <3>1. task'[r].pc # "logout"
      BY <2>5 DEF CallStore, RotateInsert, RotateInsertError, At, Rotating, CookiesFit, Doing
    <3> QED
      BY <1>3, <1>4, <2>5, <3>1, CallStoreGrants
  <2>6. CASE CallReturns(r)
    <3>1. call'[r].pc # "ok"
      BY <1>0, <2>6 DEF CallReturns, Reply, Idle, TypeOK
    <3> QED
      BY <1>0, <1>3, <2>6, <3>1, CallReturnsIsPlain
  <2>7. CASE Deliver(r)
    BY <1>0, <1>2, <2>7 DEF Deliver, Doing, Away, vars, AccountsTypeOK
  <2> QED
    BY <1>7, <2>1, <2>2, <2>3, <2>4, <2>5, <2>6, <2>7 DEF Proceed
<1>8. CASE ClockTick \/ UNCHANGED accountsVars
  BY <1>1, <1>8 DEF ClockTick, Tick, accountsVars, vars
<1> QED
  BY <1>5, <1>7, <1>8 DEF AccountsNext

LEMMA BrowsersKeep ==
  ASSUME AccountsInv, CallsFit, IInv, BrowsersInv, [AccountsNext]_accountsVars
  PROVE  BrowsersInv'
<1>1. AccountsTypeOK /\ [Next]_vars /\ CookiesFit
  BY ServiceStep DEF AccountsInv, BrowsersInv, CookiesInv
<1>2. CookiesInv'
  BY CookiesKeep DEF BrowsersInv
<1>3. LastIsAlone'
  BY <1>1, LastKeeps DEF BrowsersInv
<1>4. LogoutsRevoked'
  BY <1>1, LogoutsKeep DEF BrowsersInv
<1> QED
  BY <1>2, <1>3, <1>4 DEF BrowsersInv

\* What a browser has, is sent or waits for is its own and new to everybody, and
\* a rotated token is gone from its cookie with the answer, unless that is lost.
THEOREM BrowsersInvariance == AccountsSpec => []BrowsersInv
<1>1. AccountsInit => BrowsersInv
  BY BrowsersStartSound
<1>2. AccountsInv /\ CallsFit /\ IInv /\ BrowsersInv /\ [AccountsNext]_accountsVars
        => BrowsersInv'
  BY BrowsersKeep
<1> QED
  BY <1>1, <1>2, AccountsInvariance, PTL DEF AccountsSpec

\* service.go:141: a tab or a retry is taken for a thief because of what its own
\* browser did only while the new cookie is on its way there, or after it was lost.
THEOREM RotatedIsAlwaysRenewed == AccountsSpec => []RotatedIsRenewed
<1>1. BrowsersInv => RotatedIsRenewed
  BY DEF BrowsersInv, CookiesInv
<1> QED
  BY <1>1, BrowsersInvariance, PTL

\* service.go:140: a browser that sends one request at a time and receives
\* every response is never taken for a thief because of its own rotation.
THEOREM HonestReplaysAreFalseAlarms == AccountsSpec => []HonestReplayIsFalseAlarm
<1>1. ASSUME AccountsInv, IInv, BrowsersInv
      PROVE  HonestReplayIsFalseAlarm
  <2> SUFFICES ASSUME ~Tabs, ~Lossy, NEW r \in Requests, At(r, "replay"),
                      NEW n \in Tokens, parent[n] = call[r].token
               PROVE  FALSE
    BY DEF HonestReplayIsFalseAlarm
  <2> DEFINE b == task[r].device
  <2>1. task[r].pc \in {"refresh", "logout"} /\ b \in Devices
    BY <1>1 DEF At, AccountsInv, CallsHaveTasks, AccountsTypeOK, Task, Steps
  <2>2. /\ call[r].token \in Tokens /\ call[r].token # NoToken
        /\ call[r].token = cookie[b]
    BY <1>1, <2>1, NoTokenAssumption
    DEF At, IInv, CallsSound, BrowsersInv, CookiesInv, OneRequestEach
  <2>3. Succeeded(cookie[b])
    BY <2>2 DEF Succeeded
  <2>4. PICK q \in Requests : Renewing(q) /\ task[q].device = b
    BY <1>1, <2>1, <2>2, <2>3 DEF BrowsersInv, CookiesInv, RotatedIsRenewed
  <2>5. q = r
    BY <1>1, <2>1, <2>4 DEF BrowsersInv, CookiesInv, OneRequestEach, Renewing, Doing
  <2> QED
    BY <2>1, <2>4, <2>5 DEF Renewing, Doing, At
<1> QED
  BY <1>1, AccountsInvariance, BrowsersInvariance, PTL

\* auth.go:256: a logout that has revoked its token ended the session, unless
\* another tab or a lost response has rotated that token or is about to.
THEOREM LogoutsEndSessions == AccountsSpec => []LogoutEndsSession
<1>1. ASSUME AccountsInv, IInv, BrowsersInv
      PROVE  LogoutEndsSession
  <2>0. /\ AccountsTypeOK /\ CallsSound /\ LastIsAlone /\ LogoutsRevoked /\ CookiesFit
        /\ ~Tabs => OneRequestEach
        /\ RotatedIsRenewed /\ (~Lossy => missed = {})
    BY <1>1 DEF AccountsInv, IInv, BrowsersInv, CookiesInv
  <2> SUFFICES ASSUME NEW r \in Requests, Doing(r, "logout"), At(r, "ok"),
                      Held(family[call[r].token]) \/ Exchanged(family[call[r].token])
               PROVE  LET t == call[r].token IN
                      /\ Tabs \/ Lossy
                      /\ Succeeded(t) \/ \E q \in Requests : Rotating(q) /\ call[q].token = t
    BY DEF LogoutEndsSession
  <2> DEFINE t == call[r].token
  <2>1. t \in Tokens /\ t # NoToken /\ Minted(t) /\ ~Live(t)
    BY <2>0, NoTokenAssumption DEF CallsSound, At, LogoutsRevoked
  <2>2. Succeeded(t) \/ \E q \in Requests : Rotating(q) /\ call[q].token = t
    BY <2>0, <2>1 DEF LastIsAlone, Held, Exchanged
  <2>3. ASSUME ~Tabs, ~Lossy
        PROVE  FALSE
    <3> DEFINE b == task[r].device
    <3>1. b \in Devices /\ t = cookie[b] /\ ~Doing(r, "none") /\ ~Doing(r, "refresh")
      BY <2>0, <2>3 DEF OneRequestEach, AccountsTypeOK, Task, Steps, Doing
    <3>2. ASSUME NEW q \in Requests, ~Doing(q, "none"), task[q].device = b
          PROVE  q = r
      BY <2>0, <2>3, <3>1, <3>2 DEF OneRequestEach
    <3>3. ASSUME Succeeded(t)
          PROVE  FALSE
      <4>1. PICK q \in Requests : Renewing(q) /\ task[q].device = b
        BY <2>0, <2>1, <2>3, <3>1, <3>3 DEF RotatedIsRenewed
      <4>2. q = r
        BY <3>2, <4>1 DEF Renewing, Doing
      <4> QED
        BY <4>1, <4>2 DEF Renewing, Doing
    <3>4. ASSUME NEW q \in Requests, Rotating(q), call[q].token = t
          PROVE  FALSE
      <4>1. Doing(q, "refresh") /\ task[q].device \in Devices
        BY <2>0, <3>4 DEF CookiesFit, AccountsTypeOK, Task, Steps, Doing
      <4>2. t = cookie[task[q].device]
        BY <2>0, <2>3, <3>4, <4>1 DEF OneRequestEach, Doing
      <4>3. task[q].device = b
        <5>1. t \in Keeps(b) /\ t \in Keeps(task[q].device)
          BY <2>1, <3>1, <4>2 DEF Keeps
        <5> QED
          BY <2>0, <2>1, <3>1, <4>1, <5>1 DEF CookiesFit
      <4> QED
        BY <3>1, <3>2, <4>1, <4>3 DEF Doing
    <3> QED
      BY <2>2, <3>3, <3>4
  <2> QED
    BY <2>2, <2>3, NetworkAssumption
<1> QED
  BY <1>1, AccountsInvariance, BrowsersInvariance, PTL
=============================================================================
