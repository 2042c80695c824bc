\* Two clients, two requests: long enough for an entry to go stale, be swept
\* and come back, short enough that buckets run empty.
CONSTANTS
  IPs = {ip1, ip2}
  Limiters = {l1, l2, l3}
  Requests = {r1, r2}
  Cost = 2
  Cap = 3
  Idle = 4
  MaxStall = 1
  MaxTime = 6
  NoVisitor = NoVisitor
SPECIFICATION Spec
SYMMETRY Symmetry
INVARIANTS TypeOK WindowBound HeldLimiterIsCurrent
PROPERTIES ImplementsTokenBucket RefusedForCause
