----------------------------- MODULE RateLimit -----------------------------
(***************************************************************************)
(* middleware.RateLimit: a map from client key to a limiter, guarded by a  *)
(* mutex; a request takes its limiter out of the map under the mutex and   *)
(* asks it after unlocking, while a goroutine drops the entries not seen   *)
(* for Idle.  The unit of credit is what a bucket earns in one tick.       *)
(***************************************************************************)
EXTENDS Naturals

CONSTANTS IPs,         \* client keys (clientKey)
          Limiters,    \* limiters that can be allocated
          Requests,    \* concurrent requests
          Cost,        \* ticks in which a bucket earns one request
          Cap,         \* burst, in credit: burst * Cost
          Idle,        \* 5 * time.Minute
          MaxStall,    \* bound: a request that holds a limiter asks it by then
          MaxTime,     \* bound: last instant of the clock
          NoVisitor    \* no entry

ASSUME CreditAssumption == Cost \in Nat \ {0} /\ Cap \in Nat
ASSUME ClockAssumption == Idle \in Nat /\ MaxStall \in Nat /\ MaxTime \in Nat
\* A stalled request and the refill of an empty bucket together take less than
\* an entry's idle time: 2.5 or 2 seconds of refill against 5 minutes.
ASSUME StallAssumption == MaxStall + Cap <= Idle

VARIABLES now,        \* the clock
          visitors,   \* the map
          lim,        \* the state of each limiter
          req,        \* the requests in the middleware
          window,     \* history: since when spent counts
          spent       \* history: credit spent per client since window

vars == <<now, visitors, lim, req, window, spent>>

Visitor == [limiter : Limiters, lastSeen : Nat]
Limiter == [tokens : 0..Cap, last : Nat]
Request == [pc : {"allow"}, ip : IPs, limiter : Limiters, since : Nat] \cup
           [pc : {"idle", "passed", "rejected"}]

ASSUME NoVisitorAssumption == NoVisitor \notin Visitor

TypeOK ==
  /\ now \in Nat /\ window \in Nat /\ window <= now
  /\ visitors \in [IPs -> Visitor \cup {NoVisitor}]
  /\ lim \in [Limiters -> Limiter]
  /\ req \in [Requests -> Request]
  /\ spent \in [IPs -> Nat]

-----------------------------------------------------------------------------
Known(ip) == visitors[ip] # NoVisitor
Asking(r) == req[r].pc = "allow"

\* golang.org/x/time/rate: the credit of a limiter now.
Refilled(credit) == IF credit > Cap THEN Cap ELSE credit
Credit(l) == Refilled(lim[l].tokens + (now - lim[l].last))

Admits(l) == Credit(l) >= Cost

\* Mutant of NewBucket: a burst of one more.
NewBucketOverfull == [tokens |-> Cap + Cost, last |-> now]

\* rate.NewLimiter(rate.Limit(rps), burst)
NewBucket == [tokens |-> Cap, last |-> now]

\* A limiter nothing refers to: one that NewLimiter may return.
Free(l) == /\ \A ip \in IPs : Known(ip) => visitors[ip].limiter # l
           /\ \A r \in Requests : Asking(r) => req[r].limiter # l

\* Mutant of Acquire: only a new entry is stamped.
AcquireUnstamped(r, ip, l) ==
  /\ ~Asking(r)
  /\ IF Known(ip)
     THEN l = visitors[ip].limiter /\ UNCHANGED <<lim, visitors>>
     ELSE /\ Free(l)
          /\ lim' = [lim EXCEPT ![l] = NewBucket]
          /\ visitors' = [visitors EXCEPT ![ip] = [limiter |-> l, lastSeen |-> now]]
  /\ req' = [req EXCEPT ![r] = [pc |-> "allow", ip |-> ip, limiter |-> l,
                                since |-> now]]
  /\ UNCHANGED <<now, window, spent>>

\* The locked section: look the client up, add it if it is new, and stamp it.
Acquire(r, ip, l) ==
  /\ ~Asking(r)
  /\ IF Known(ip)
     THEN l = visitors[ip].limiter /\ UNCHANGED lim
     ELSE Free(l) /\ lim' = [lim EXCEPT ![l] = NewBucket]
  /\ visitors' = [visitors EXCEPT ![ip] = [limiter |-> l, lastSeen |-> now]]
  /\ req' = [req EXCEPT ![r] = [pc |-> "allow", ip |-> ip, limiter |-> l,
                                since |-> now]]
  /\ UNCHANGED <<now, window, spent>>

\* v.limiter.Allow(), after the unlock.
Pass(r) ==
  LET l  == req[r].limiter
      ip == req[r].ip
  IN
  /\ Asking(r)
  /\ Admits(l)
  /\ lim' = [lim EXCEPT ![l] = [tokens |-> Credit(l) - Cost, last |-> now]]
  /\ spent' = [spent EXCEPT ![ip] = @ + Cost]
  /\ req' = [req EXCEPT ![r] = [pc |-> "passed"]]
  /\ UNCHANGED <<now, visitors, window>>

Reject(r) ==
  /\ Asking(r)
  /\ ~Admits(req[r].limiter)
  /\ req' = [req EXCEPT ![r] = [pc |-> "rejected"]]
  /\ UNCHANGED <<now, visitors, lim, window, spent>>

\* Mutant of Stale: the comparison is turned round.
StaleEarly(ip) == Known(ip) /\ now - visitors[ip].lastSeen < Idle

Stale(ip) == Known(ip) /\ now - visitors[ip].lastSeen > Idle

\* The cleanup goroutine, under the mutex.
Sweep ==
  /\ \E ip \in IPs : Stale(ip)
  /\ visitors' = [ip \in IPs |-> IF Stale(ip) THEN NoVisitor ELSE visitors[ip]]
  /\ UNCHANGED <<now, lim, req, window, spent>>

Tick ==
  /\ now < MaxTime
  /\ \A r \in Requests : Asking(r) => now - req[r].since < MaxStall
  /\ now' = now + 1
  /\ UNCHANGED <<visitors, lim, req, window, spent>>

OpenWindow ==
  /\ window' = now
  /\ spent' = [ip \in IPs |-> 0]
  /\ UNCHANGED <<now, visitors, lim, req>>

Init ==
  /\ now = 0 /\ window = 0
  /\ visitors = [ip \in IPs |-> NoVisitor]
  /\ lim = [l \in Limiters |-> [tokens |-> Cap, last |-> 0]]
  /\ req = [r \in Requests |-> [pc |-> "idle"]]
  /\ spent = [ip \in IPs |-> 0]

Next ==
  \/ \E r \in Requests, ip \in IPs, l \in Limiters : Acquire(r, ip, l)
  \/ \E r \in Requests : Pass(r) \/ Reject(r)
  \/ Sweep
  \/ Tick
  \/ OpenWindow

Spec == Init /\ [][Next]_vars

-----------------------------------------------------------------------------
(* What the middleware promises.                                           *)

\* The credit a client has: a client that was dropped starts with a full
\* bucket when it returns.
Level(ip) == IF Known(ip) THEN Credit(visitors[ip].limiter) ELSE Cap

Bucket == INSTANCE TokenBucket
            WITH Clients <- IPs, level <- [ip \in IPs |-> Level(ip)]

\* ratelimit.go:32 "enforces a per-IP token-bucket rate limit": forgetting a
\* client and meeting it again never gains it credit, however requests, the
\* sweep and the clock interleave.
ImplementsTokenBucket == Bucket!Spec

\* In any window a client gets burst requests and the steady rate at most.
WindowBound == \A ip \in IPs : spent[ip] <= Cap + (now - window)

\* A request asks the very limiter the next request of its client will ask,
\* although it no longer holds the mutex.
HeldLimiterIsCurrent ==
  \A r \in Requests : Asking(r) =>
     Known(req[r].ip) /\ visitors[req[r].ip].limiter = req[r].limiter

\* A client is refused only for want of credit of its own: nobody else's
\* requests, nor an eviction, use it up.
RefusedForCause ==
  [][\A r \in Requests : Asking(r) /\ req'[r].pc = "rejected"
        => Level(req[r].ip) < Cost]_vars

\* The inductive invariant.
OneLimiterEach ==
  \A i, j \in IPs : Known(i) /\ Known(j)
     /\ visitors[i].limiter = visitors[j].limiter => i = j

\* A request is younger than the last sighting of its client, and not stalled.
NotStalled ==
  \A r \in Requests : Asking(r) =>
     /\ req[r].since <= visitors[req[r].ip].lastSeen
     /\ now - req[r].since <= MaxStall

\* A limiter was last charged by a request its entry has seen.
Charged ==
  \A ip \in IPs : Known(ip) =>
     LET v == visitors[ip] IN
     /\ v.lastSeen <= now
     /\ lim[v.limiter].last <= now
     /\ lim[v.limiter].last <= v.lastSeen + MaxStall

Accounted == \A ip \in IPs : spent[ip] + Level(ip) <= Cap + (now - window)

IInv ==
  /\ TypeOK
  /\ HeldLimiterIsCurrent
  /\ OneLimiterEach
  /\ NotStalled
  /\ Charged
  /\ Accounted
=============================================================================
