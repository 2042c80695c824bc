\* Statements that do not fail: the life of a session, and what a noticed replay
\* leads to.
CONSTANTS
  Users = {u1}
  Devices = {d1, d2}
  Tokens = {t1, t2}
  Requests = {r1, r2}
  RefreshTTL = 2
  DemoTTL = 1
  MaxTime = 1
  Faults = {}
  NoRow = NoRow
  NoToken = NoToken
SPECIFICATION FairSpec
PROPERTIES ImplementsSessions NoticedMeansRevoked
