--------------------------- MODULE RateLimitProofs ---------------------------
(***************************************************************************)
(* Proofs about RateLimit, for any number of clients, limiters and         *)
(* requests and any rate, burst and idle time that StallAssumption allows: *)
(* the middleware implements TokenBucket.                                  *)
(***************************************************************************)
EXTENDS RateLimit, TLAPS

LEMMA RefilledFacts ==
  ASSUME NEW c \in Nat
  PROVE  /\ Refilled(c) \in 0..Cap
         /\ Refilled(c) <= c
         /\ Refilled(c + 1) <= Refilled(c) + 1
         /\ Refilled(Refilled(c) + 1) = Refilled(c + 1)
         /\ c >= Cap => Refilled(c) = Cap
         /\ c \in 0..Cap => Refilled(c) = c
BY CreditAssumption DEF Refilled

\* The types of what a known client and an asking request refer to.
LEMMA Shapes ==
  ASSUME TypeOK
  PROVE  /\ \A ip \in IPs : Known(ip) =>
              /\ visitors[ip] \in Visitor
              /\ visitors[ip].limiter \in Limiters
              /\ visitors[ip].lastSeen \in Nat
         /\ \A l \in Limiters : lim[l] \in Limiter /\ lim[l].tokens \in Nat
                                /\ lim[l].tokens <= Cap /\ lim[l].last \in Nat
         /\ \A r \in Requests : Asking(r) =>
              req[r].ip \in IPs /\ req[r].limiter \in Limiters /\ req[r].since \in Nat
<1>1. \A ip \in IPs : Known(ip) => visitors[ip] \in Visitor
  BY DEF TypeOK, Known
<1>2. \A l \in Limiters : lim[l] \in Limiter
  BY DEF TypeOK
<1>3. \A l \in Limiters : lim[l].tokens \in Nat /\ lim[l].tokens <= Cap /\ lim[l].last \in Nat
  BY <1>2, CreditAssumption DEF Limiter
<1>4. \A r \in Requests : Asking(r) =>
        req[r] \in [pc : {"allow"}, ip : IPs, limiter : Limiters, since : Nat]
  BY DEF TypeOK, Request, Asking
<1> QED
  BY <1>1, <1>2, <1>3, <1>4 DEF Visitor

\* The credit of a client is a number a bucket can hold.
LEMMA LevelRange ==
  ASSUME TypeOK, Charged
  PROVE  \A ip \in IPs : Level(ip) \in 0..Cap
<1> TAKE ip \in IPs
<1>1. CASE ~Known(ip)
  BY <1>1, CreditAssumption DEF Level
<1>2. CASE Known(ip)
  <2> DEFINE l == visitors[ip].limiter
  <2>1. lim[l].tokens + (now - lim[l].last) \in Nat
    BY <1>2, Shapes DEF Charged, TypeOK
  <2> QED
    BY <1>2, <2>1, RefilledFacts DEF Level, Credit
<1> QED
  BY <1>1, <1>2

-----------------------------------------------------------------------------
(* One lemma per action: it keeps the invariant and does to the levels     *)
(* what TokenBucket says.                                                  *)

LEMMA AcquireStep ==
  ASSUME IInv, NEW r \in Requests, NEW ip \in IPs, NEW l \in Limiters, Acquire(r, ip, l)
  PROVE  IInv' /\ \A i \in IPs : Level(i)' = Level(i)
<1> USE DEF IInv
<1>1. /\ visitors'[ip] = [limiter |-> l, lastSeen |-> now]
      /\ \A i \in IPs : i # ip => visitors'[i] = visitors[i]
      /\ visitors' \in [IPs -> Visitor \cup {NoVisitor}]
      /\ Known(ip)'
      /\ \A i \in IPs : i # ip => (Known(i)' <=> Known(i))
  <2>1. visitors'[ip] = [limiter |-> l, lastSeen |-> now]
    BY DEF Acquire, NewBucket, TypeOK
  <2>2. visitors'[ip] \in Visitor
    BY <2>1 DEF Visitor, TypeOK
  <2> QED
    BY <2>1, <2>2, NoVisitorAssumption DEF Acquire, NewBucket, TypeOK, Known
<1>2. /\ req'[r] = [pc |-> "allow", ip |-> ip, limiter |-> l, since |-> now]
      /\ \A q \in Requests : q # r => req'[q] = req[q]
      /\ req' \in [Requests -> Request]
  BY DEF Acquire, NewBucket, TypeOK, Request
<1>3. \A q \in Requests : Asking(q)' <=> Asking(q) \/ q = r
  BY <1>2 DEF Asking
<1>4. UNCHANGED <<now, window, spent>>
  BY DEF Acquire, NewBucket
<1>5. CASE Known(ip)
  <2>1. l = visitors[ip].limiter /\ lim' = lim
    BY <1>5 DEF Acquire, NewBucket
  <2>2. TypeOK'
    BY <1>1, <1>2, <1>4, <2>1 DEF TypeOK
  <2>3. HeldLimiterIsCurrent'
    BY <1>1, <1>2, <1>3, <2>1, Shapes DEF HeldLimiterIsCurrent
  <2>4. OneLimiterEach'
    BY <1>1, <1>5, <2>1 DEF OneLimiterEach
  <2>5. NotStalled'
    BY <1>1, <1>2, <1>3, <1>4, <1>5, Shapes, ClockAssumption
       DEF NotStalled, Charged, TypeOK
  <2>6. Charged'
    <3>1. lim[l].last <= now + MaxStall
      BY <1>5, <2>1, Shapes, ClockAssumption DEF Charged, TypeOK
    <3> QED
      BY <1>1, <1>4, <1>5, <2>1, <3>1 DEF Charged, TypeOK
  <2>7. \A i \in IPs : Level(i)' = Level(i)
    BY <1>1, <1>4, <1>5, <2>1 DEF Level, Credit, Refilled
  <2>8. Accounted'
    BY <1>4, <2>7 DEF Accounted
  <2> QED
    BY <2>2, <2>3, <2>4, <2>5, <2>6, <2>7, <2>8
<1>6. CASE ~Known(ip)
  <2>1. /\ Free(l)
        /\ lim'[l] = [tokens |-> Cap, last |-> now]
        /\ \A k \in Limiters : k # l => lim'[k] = lim[k]
        /\ lim' \in [Limiters -> Limiter]
    BY <1>6, CreditAssumption DEF Acquire, NewBucket, TypeOK, Limiter
  <2>2. \A i \in IPs : i # ip /\ Known(i) => visitors[i].limiter # l
                                             /\ visitors[i].limiter \in Limiters
    BY <2>1, Shapes DEF Free
  <2>3. TypeOK'
    BY <1>1, <1>2, <1>4, <2>1 DEF TypeOK
  <2>4. HeldLimiterIsCurrent'
    BY <1>1, <1>2, <1>3, <1>6, Shapes DEF HeldLimiterIsCurrent
  <2>5. OneLimiterEach'
    BY <1>1, <2>2 DEF OneLimiterEach
  <2>6. NotStalled'
    BY <1>1, <1>2, <1>3, <1>4, <1>6, Shapes, ClockAssumption
       DEF NotStalled, HeldLimiterIsCurrent, TypeOK
  <2>7. Charged'
    <3>1. lim'[l].last = now /\ visitors'[ip].lastSeen = now /\ visitors'[ip].limiter = l
      BY <1>1, <2>1
    <3>2. now <= now + MaxStall
      BY ClockAssumption DEF TypeOK
    <3> QED
      BY <1>1, <1>4, <2>1, <2>2, <3>1, <3>2 DEF Charged, TypeOK
  <2>8. \A i \in IPs : Level(i)' = Level(i)
    <3>1. Level(ip)' = Cap /\ Level(ip) = Cap
      <4>1. Level(ip)' = Refilled(Cap + (now - now))
        BY <1>1, <1>4, <2>1 DEF Level, Credit, Refilled
      <4> QED
        BY <1>6, <4>1, CreditAssumption DEF Level, Refilled, TypeOK
    <3>2. \A i \in IPs : i # ip => Level(i)' = Level(i)
      BY <1>1, <1>4, <2>1, <2>2 DEF Level, Credit, Refilled
    <3> QED
      BY <3>1, <3>2
  <2>9. Accounted'
    BY <1>4, <2>8 DEF Accounted
  <2> QED
    BY <2>3, <2>4, <2>5, <2>6, <2>7, <2>8, <2>9
<1> QED
  BY <1>5, <1>6

LEMMA PassStep ==
  ASSUME IInv, NEW r \in Requests, Pass(r)
  PROVE  IInv' /\ req[r].ip \in IPs /\ Bucket!Admit(req[r].ip)
<1> USE DEF IInv
<1>0. PICK ip \in IPs, l \in Limiters :
        /\ ip = req[r].ip /\ l = req[r].limiter
        /\ Known(ip) /\ visitors[ip].limiter = l
        /\ req[r].since \in Nat /\ req[r].since <= visitors[ip].lastSeen
        /\ now - req[r].since <= MaxStall
  BY Shapes DEF Pass, HeldLimiterIsCurrent, NotStalled
<1>1. /\ Level(ip) = Credit(l) /\ Level(ip) \in 0..Cap /\ Level(ip) >= Cost
      /\ \A i \in IPs : Level(i) \in 0..Cap
  BY <1>0, LevelRange DEF Level, Pass, Admits
<1>2. /\ lim'[l] = [tokens |-> Level(ip) - Cost, last |-> now]
      /\ \A k \in Limiters : k # l => lim'[k] = lim[k]
      /\ lim' \in [Limiters -> Limiter]
  <2>1. lim' = [lim EXCEPT ![l] = [tokens |-> Level(ip) - Cost, last |-> now]]
    BY <1>0, <1>1 DEF Pass
  <2>2. [tokens |-> Level(ip) - Cost, last |-> now] \in Limiter
    <3>1. Level(ip) - Cost \in 0..Cap
      BY <1>1, CreditAssumption
    <3> QED
      BY <3>1 DEF Limiter, TypeOK
  <2> QED
    BY <2>1, <2>2 DEF TypeOK
<1>3. /\ req' \in [Requests -> Request]
      /\ \A q \in Requests : Asking(q)' <=> Asking(q) /\ q # r
      /\ \A q \in Requests : q # r => req'[q] = req[q]
  BY DEF Pass, TypeOK, Request, Asking
<1>4. /\ spent' = [spent EXCEPT ![ip] = @ + Cost]
      /\ spent' \in [IPs -> Nat]
      /\ UNCHANGED <<now, visitors, window>>
  BY <1>0, CreditAssumption DEF Pass, TypeOK
<1>5. \A i \in IPs : Known(i) /\ i # ip => visitors[i].limiter # l
                                         /\ visitors[i].limiter \in Limiters
  BY <1>0, Shapes DEF OneLimiterEach
<1>6. Level(ip)' = Level(ip) - Cost
  <2>1. Level(ip)' = Refilled((Level(ip) - Cost) + (now - now))
    BY <1>0, <1>2, <1>4 DEF Level, Credit, Refilled, Known
  <2> QED
    BY <1>1, <2>1, CreditAssumption DEF Refilled, TypeOK
<1>7. \A i \in IPs : i # ip => Level(i)' = Level(i)
  BY <1>2, <1>4, <1>5 DEF Level, Credit, Refilled, Known
<1>8. TypeOK'
  BY <1>2, <1>3, <1>4 DEF TypeOK
<1>9. HeldLimiterIsCurrent' /\ OneLimiterEach' /\ NotStalled'
  BY <1>3, <1>4 DEF HeldLimiterIsCurrent, OneLimiterEach, NotStalled, Known
<1>10. Charged'
  <2>1. now <= visitors[ip].lastSeen + MaxStall /\ visitors[ip].lastSeen <= now
    BY <1>0, Shapes, ClockAssumption DEF Charged, TypeOK
  <2> QED
    BY <1>0, <1>2, <1>4, <1>5, <2>1 DEF Charged, Known, TypeOK
<1>11. Accounted'
  <2>1. spent'[ip] = spent[ip] + Cost /\ \A i \in IPs : i # ip => spent'[i] = spent[i]
    BY <1>4 DEF TypeOK
  <2>2. spent'[ip] + Level(ip)' = spent[ip] + Level(ip)
    BY <1>1, <1>6, <2>1, CreditAssumption DEF TypeOK
  <2> QED
    BY <1>4, <1>7, <2>1, <2>2 DEF Accounted
<1>12. Bucket!Admit(ip)
  BY <1>1, <1>4, <1>6, <1>7 DEF Bucket!Admit
<1> QED
  BY <1>0, <1>8, <1>9, <1>10, <1>11, <1>12

LEMMA RejectStep ==
  ASSUME IInv, NEW r \in Requests, Reject(r)
  PROVE  IInv' /\ Level(req[r].ip) < Cost
<1> USE DEF IInv
<1>1. /\ req' \in [Requests -> Request]
      /\ \A q \in Requests : Asking(q)' <=> Asking(q) /\ q # r
      /\ \A q \in Requests : q # r => req'[q] = req[q]
      /\ UNCHANGED <<now, visitors, lim, window, spent>>
  BY DEF Reject, TypeOK, Request, Asking
<1>2. IInv'
  BY <1>1 DEF TypeOK, HeldLimiterIsCurrent, OneLimiterEach, NotStalled, Charged,
              Accounted, Level, Credit, Refilled, Known
<1>3. Level(req[r].ip) = Credit(req[r].limiter)
  BY DEF Reject, HeldLimiterIsCurrent, Level
<1>4. Level(req[r].ip) \in 0..Cap
  BY LevelRange, Shapes DEF Reject
<1>5. Level(req[r].ip) < Cost
  BY <1>3, <1>4, CreditAssumption DEF Reject, Admits
<1> QED
  BY <1>2, <1>5

\* What the sweep forgets was full.
LEMMA SweepStep ==
  ASSUME IInv, Sweep
  PROVE  IInv' /\ \A i \in IPs : Level(i)' = Level(i)
<1> USE DEF IInv
<1>1. UNCHANGED <<now, lim, req, window, spent>>
  BY DEF Sweep
<1>2. /\ \A i \in IPs : Stale(i) => visitors'[i] = NoVisitor /\ ~Known(i)'
      /\ \A i \in IPs : ~Stale(i) => visitors'[i] = visitors[i] /\ (Known(i)' <=> Known(i))
      /\ visitors' \in [IPs -> Visitor \cup {NoVisitor}]
  BY DEF Sweep, TypeOK, Known
<1>3. \A r \in Requests : Asking(r) => ~Stale(req[r].ip)
  BY Shapes, ClockAssumption, StallAssumption, CreditAssumption
     DEF NotStalled, HeldLimiterIsCurrent, Stale, TypeOK
<1>4. \A i \in IPs : Stale(i) => Level(i) = Cap
  <2> TAKE i \in IPs
  <2> HAVE Stale(i)
  <2> DEFINE l == visitors[i].limiter
  <2>1. Known(i) /\ now - visitors[i].lastSeen > Idle
    BY DEF Stale
  <2>2. /\ visitors[i].lastSeen \in Nat /\ lim[l].tokens \in Nat /\ lim[l].last \in Nat
        /\ lim[l].last <= visitors[i].lastSeen + MaxStall
    BY <2>1, Shapes DEF Charged
  <2>3. /\ lim[l].tokens + (now - lim[l].last) \in Nat
        /\ lim[l].tokens + (now - lim[l].last) >= Cap
    BY <2>1, <2>2, ClockAssumption, StallAssumption, CreditAssumption DEF TypeOK
  <2> QED
    BY <2>1, <2>3, RefilledFacts DEF Level, Credit
<1>5. \A i \in IPs : Level(i)' = Level(i)
  BY <1>1, <1>2, <1>4 DEF Level, Credit, Refilled
<1>6. TypeOK'
  BY <1>1, <1>2 DEF TypeOK
<1>7. HeldLimiterIsCurrent' /\ NotStalled'
  BY <1>1, <1>2, <1>3, Shapes DEF HeldLimiterIsCurrent, NotStalled, Asking
<1>8. OneLimiterEach' /\ Charged'
  BY <1>1, <1>2 DEF OneLimiterEach, Charged
<1>9. Accounted'
  BY <1>1, <1>5 DEF Accounted
<1> QED
  BY <1>5, <1>6, <1>7, <1>8, <1>9

LEMMA TickStep ==
  ASSUME IInv, Tick
  PROVE  IInv' /\ Bucket!Tick
<1> USE DEF IInv
<1>1. now' = now + 1 /\ now \in Nat /\ UNCHANGED <<visitors, lim, req, window, spent>>
  BY DEF Tick, TypeOK
<1>2. \A i \in IPs : Level(i)' = Refilled(Level(i) + 1)
  <2> TAKE i \in IPs
  <2>1. CASE Known(i)
    <3> DEFINE l == visitors[i].limiter
               c == lim[l].tokens + (now - lim[l].last)
    <3>1. /\ c \in Nat /\ lim[l].tokens \in Nat /\ lim[l].last \in Nat
      BY <1>1, <2>1, Shapes DEF Charged
    <3>2. lim[l].tokens + ((now + 1) - lim[l].last) = c + 1
      BY <1>1, <3>1
    <3>3. Level(i)' = Refilled(c + 1) /\ Level(i) = Refilled(c)
      BY <1>1, <2>1, <3>2 DEF Level, Credit, Known, Refilled
    <3> QED
      BY <3>1, <3>3, RefilledFacts
  <2>2. CASE ~Known(i)
    BY <1>1, <2>2, CreditAssumption DEF Level, Known, Refilled
  <2> QED
    BY <2>1, <2>2
<1>3. TypeOK'
  BY <1>1 DEF TypeOK
<1>4. HeldLimiterIsCurrent' /\ OneLimiterEach'
  BY <1>1 DEF HeldLimiterIsCurrent, OneLimiterEach, Asking, Known
<1>5. NotStalled'
  BY <1>1, Shapes, ClockAssumption DEF NotStalled, Tick, Asking
<1>6. Charged'
  BY <1>1, Shapes DEF Charged, Known
<1>7. Accounted'
  <2>1. \A i \in IPs : Level(i)' <= Level(i) + 1 /\ Level(i) \in 0..Cap /\ Level(i)' \in 0..Cap
    BY <1>2, LevelRange, RefilledFacts, CreditAssumption
  <2> QED
    BY <1>1, <2>1, CreditAssumption DEF Accounted, TypeOK
<1>8. Bucket!Tick
  BY <1>1, <1>2 DEF Bucket!Tick, Bucket!Refilled, Refilled
<1> QED
  BY <1>3, <1>4, <1>5, <1>6, <1>7, <1>8

LEMMA OpenWindowStep ==
  ASSUME IInv, OpenWindow
  PROVE  IInv' /\ Bucket!OpenWindow
<1> USE DEF IInv, OpenWindow
<1>1. \A i \in IPs : Level(i)' = Level(i)
  BY DEF Level, Credit, Known, Refilled
<1>2. TypeOK' /\ HeldLimiterIsCurrent' /\ OneLimiterEach' /\ NotStalled' /\ Charged'
  BY DEF TypeOK, HeldLimiterIsCurrent, OneLimiterEach, NotStalled, Charged, Known, Asking
<1>3. Accounted'
  BY <1>1, LevelRange, CreditAssumption DEF Accounted, TypeOK
<1>4. Bucket!OpenWindow
  BY <1>1 DEF Bucket!OpenWindow
<1> QED
  BY <1>2, <1>3, <1>4

LEMMA StutterStep ==
  ASSUME IInv, UNCHANGED vars
  PROVE  IInv' /\ \A i \in IPs : Level(i)' = Level(i)
BY DEF IInv, vars, TypeOK, HeldLimiterIsCurrent, OneLimiterEach, NotStalled, Charged,
       Accounted, Level, Credit, Refilled, Known, Asking

-----------------------------------------------------------------------------
LEMMA InitIInv == Init => IInv /\ Bucket!Init
<1> SUFFICES ASSUME Init PROVE IInv /\ Bucket!Init
  OBVIOUS
<1> USE DEF Init
<1>1. TypeOK
  BY CreditAssumption DEF TypeOK, Limiter, Request
<1>2. \A ip \in IPs : ~Known(ip) /\ Level(ip) = Cap
  BY DEF Known, Level
<1>3. \A r \in Requests : ~Asking(r)
  BY DEF Asking
<1>4. Accounted
  <2> SUFFICES ASSUME NEW ip \in IPs
               PROVE  spent[ip] + Level(ip) <= Cap + (now - window)
    BY DEF Accounted
  <2>1. spent[ip] = 0 /\ Level(ip) = Cap /\ now = 0 /\ window = 0
    BY <1>2
  <2> QED
    BY <2>1, CreditAssumption
<1> QED
  BY <1>1, <1>2, <1>3, <1>4
     DEF IInv, HeldLimiterIsCurrent, OneLimiterEach, NotStalled, Charged, Bucket!Init

LEMMA NextStep ==
  ASSUME IInv, [Next]_vars
  PROVE  /\ IInv'
         /\ [Bucket!Next]_(Bucket!vars)
<1>1. CASE UNCHANGED vars
  BY <1>1, StutterStep DEF Bucket!vars, vars
<1>2. ASSUME NEW r \in Requests, NEW ip \in IPs, NEW l \in Limiters, Acquire(r, ip, l)
      PROVE  IInv' /\ UNCHANGED Bucket!vars
  BY <1>2, AcquireStep DEF Bucket!vars, Acquire
<1>3. ASSUME NEW r \in Requests, Pass(r)
      PROVE  IInv' /\ Bucket!Next
  BY <1>3, PassStep DEF Bucket!Next
<1>4. ASSUME NEW r \in Requests, Reject(r)
      PROVE  IInv' /\ UNCHANGED Bucket!vars
  <2>1. UNCHANGED <<now, visitors, lim, window, spent>>
    BY <1>4 DEF Reject
  <2> QED
    BY <1>4, <2>1, RejectStep DEF Bucket!vars, Level, Credit, Refilled, Known
<1>5. CASE Sweep
  BY <1>5, SweepStep DEF Bucket!vars, Sweep
<1>6. CASE Tick
  BY <1>6, TickStep DEF Bucket!Next
<1>7. CASE OpenWindow
  BY <1>7, OpenWindowStep DEF Bucket!Next
<1> QED
  BY <1>1, <1>2, <1>3, <1>4, <1>5, <1>6, <1>7 DEF Next

\* The inductive invariant of the middleware.
THEOREM Invariance == Spec => []IInv
<1>1. Init => IInv
  BY InitIInv
<1>2. IInv /\ [Next]_vars => IInv'
  BY NextStep
<1> QED
  BY <1>1, <1>2, PTL DEF Spec

\* No limiter holds more than the burst, or a date or credit below zero.
THEOREM TypeCorrect == Spec => []TypeOK
<1>1. IInv => TypeOK
  BY DEF IInv
<1> QED
  BY <1>1, Invariance, PTL

\* ratelimit.go:32: per client, the map of limiters is one token bucket that
\* was there from the start.
THEOREM Refinement == Spec => ImplementsTokenBucket
<1>1. Init => Bucket!Init
  BY InitIInv
<1>2. IInv /\ [Next]_vars => [Bucket!Next]_(Bucket!vars)
  BY NextStep
<1> QED
  BY <1>1, <1>2, Invariance, PTL DEF Spec, ImplementsTokenBucket, Bucket!Spec

\* Burst and rate bound what a client gets in every window.
THEOREM NoClientGetsMore == Spec => []WindowBound
<1>1. ASSUME IInv PROVE WindowBound
  <2>1. \A ip \in IPs : Level(ip) \in 0..Cap
    BY <1>1, LevelRange DEF IInv
  <2> SUFFICES ASSUME NEW ip \in IPs
               PROVE  spent[ip] <= Cap + (now - window)
    BY DEF WindowBound
  <2>2. spent[ip] \in Nat /\ now \in Nat /\ window \in Nat
    BY <1>1 DEF IInv, TypeOK
  <2>3. spent[ip] + Level(ip) <= Cap + (now - window)
    BY <1>1 DEF IInv, Accounted
  <2> QED
    BY <2>1, <2>2, <2>3, CreditAssumption
<1> QED
  BY <1>1, Invariance, PTL

\* A request asks the limiter the map still holds.
THEOREM LimitersStayCurrent == Spec => []HeldLimiterIsCurrent
<1>1. IInv => HeldLimiterIsCurrent
  BY DEF IInv
<1> QED
  BY <1>1, Invariance, PTL

\* Nobody is refused while its own bucket has a request's worth of credit.
THEOREM RefusalsAreDue == Spec => RefusedForCause
<1>1. ASSUME IInv, [Next]_vars
      PROVE  [\A r \in Requests : Asking(r) /\ req'[r].pc = "rejected"
                => Level(req[r].ip) < Cost]_vars
  <2> SUFFICES ASSUME NEW r \in Requests, Asking(r), req'[r].pc = "rejected"
               PROVE  Level(req[r].ip) < Cost
    OBVIOUS
  <2>1. req'[r] # req[r]
    BY DEF Asking
  <2>2. req \in [Requests -> Request]
    BY <1>1 DEF IInv, TypeOK
  <2>3. \A q \in Requests, ip \in IPs, l \in Limiters : ~Acquire(q, ip, l)
    BY <2>1, <2>2 DEF Acquire, NewBucket
  <2>4. \A q \in Requests : ~Pass(q)
    BY <2>1, <2>2 DEF Pass
  <2>5. \A q \in Requests : Reject(q) => q = r
    BY <2>1, <2>2 DEF Reject
  <2>6. Reject(r)
    BY <1>1, <2>1, <2>3, <2>4, <2>5 DEF Next, Sweep, Tick, OpenWindow, vars
  <2> QED
    BY <1>1, <2>6, RejectStep
<1> QED
  BY <1>1, Invariance, PTL DEF Spec, RefusedForCause
=============================================================================
