\* One account, two browsers, every failure: all interleavings of two calls
\* over a session of up to three tokens.
CONSTANTS
  Users = {u1}
  Devices = {d1, d2}
  Tokens = {t1, t2, t3}
  Requests = {r1, r2}
  RefreshTTL = 2
  DemoTTL = 1
  MaxTime = 1
  Faults = {"lost", "applied"}
  NoRow = NoRow
  NoToken = NoToken
SPECIFICATION Spec
SYMMETRY Symmetry
INVARIANTS TypeOK SingleUse LinearFamily DeviceBound DemoDeadline
