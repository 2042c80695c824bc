\* Browsers that send one request at a time and get every
\* response, and a server whose statements fail in every way.
CONSTANTS
  Users = {u1}
  Devices = {d1, d2}
  Tokens = {t1, t2, t3}
  Requests = {r1, r2}
  RefreshTTL = 1
  DemoTTL = 1
  MaxTime = 1
  Faults = {"lost", "applied"}
  NoRow = NoRow
  NoToken = NoToken
  Tabs = FALSE
  Lossy = FALSE
  MaxChanges = 1
SPECIFICATION AccountsSpec
SYMMETRY Symmetry
INVARIANTS ChangeEndsSessions HonestReplayIsFalseAlarm LogoutEndsSession
\* Every account may be deleted, every token used up.
CHECK_DEADLOCK FALSE
