\* Two servers on one database, two accounts of which one may have the demo's
\* address, one request at a time among the statements of the starts.  AccessTTL +
\* 2 MaxStall is the clock's bound, so that an account settles within it.
CONSTANTS
  Ids = {u1, u2}
  Emails = {demo, other}
  DemoEmail = demo
  Servers = {s1, s2}
  Requests = {r1}
  AccessTTL = 1
  RefreshTTL = 2
  DemoTTL = 1
  MaxStall = 1
  None = None
  MaxTime = 3
  MaxHeld = 1
SPECIFICATION FairSpec
INVARIANTS TypeOK UpMeansDemoReady DemoSessionsEnd
PROPERTIES DemoAccountSettles ServersComeUp
\* At the last instant nothing begins any more.
CHECK_DEADLOCK FALSE
