CONSTANTS
  Users = {u1}
  Devices = {d1}
  Tokens = {t1, t2, t3}
  Requests = {r1, r2}
  RefreshTTL = 2
  DemoTTL = 1
  MaxTime = 1
  Faults = {}
  NoRow = NoRow
  NoToken = NoToken
SPECIFICATION Spec
INVARIANTS ReplayRevokesFamily
