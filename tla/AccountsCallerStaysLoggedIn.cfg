\* An old session's refresh after a change of password.
CONSTANTS
  Users = {u1}
  Devices = {d1, d2}
  Tokens = {t1, t2, t3}
  Requests = {r1, r2}
  RefreshTTL = 1
  DemoTTL = 1
  MaxTime = 0
  Faults = {}
  NoRow = NoRow
  NoToken = NoToken
  Tabs = FALSE
  Lossy = FALSE
  MaxChanges = 1
SPECIFICATION AccountsSpec
INVARIANTS CallerStaysLoggedIn
\* Every account may be deleted, every token used up.
CHECK_DEADLOCK FALSE
