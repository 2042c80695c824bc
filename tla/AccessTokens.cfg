\* Two accounts, two tokens, two requests, a database clock one tick ahead:
\* long enough for the tokens to expire on both clocks and be swept.
CONSTANTS
  Users = {u1, u2}
  Jtis = {j1, j2}
  Requests = {r1, r2}
  AccessTTL = 2
  Ahead = 1
  MaxTime = 4
  None = None
SPECIFICATION FairSpec
INVARIANTS TypeOK LogoutHolds
PROPERTIES BlacklistEmpties
\* The bounded clock stops, the accounts may all be deleted and the tokens used up.
CHECK_DEADLOCK FALSE
