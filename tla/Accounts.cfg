\* One account, two browsers with several tabs, lost responses, two changes of
\* the password: all interleavings of two handlers.
CONSTANTS
  Users = {u1}
  Devices = {d1, d2}
  Tokens = {t1, t2, t3}
  Requests = {r1, r2}
  RefreshTTL = 1
  DemoTTL = 1
  MaxTime = 0
  Faults = {}
  NoRow = NoRow
  NoToken = NoToken
  Tabs = TRUE
  Lossy = TRUE
  MaxChanges = 2
SPECIFICATION AccountsSpec
SYMMETRY Symmetry
INVARIANTS OldSessionsEnd RotatedIsRenewed LogoutEndsSession
\* Every account may be deleted, every token used up.
CHECK_DEADLOCK FALSE
