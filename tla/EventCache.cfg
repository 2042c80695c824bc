\* One event, two requests: long enough for an item to be stored late, to
\* expire and to be stored again.
CONSTANTS
  Events = {e1}
  Requests = {r1, r2}
  TTL = 1
  MaxStall = 1
  MaxTime = 3
  None = None
SPECIFICATION Spec
SYMMETRY Symmetry
INVARIANTS FreshEnough OutagePasses ClearHolds CompleteAnswer
