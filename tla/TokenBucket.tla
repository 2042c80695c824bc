---------------------------- MODULE TokenBucket ----------------------------
(***************************************************************************)
(* What "a per-IP token-bucket rate limit" means (middleware/ratelimit.go): *)
(* every client has one bucket, which is full when the server starts and   *)
(* forever after gains a unit of credit per tick and loses Cost with every *)
(* request let through.  No table, no eviction, no concurrency.            *)
(***************************************************************************)
EXTENDS Naturals

CONSTANTS Clients,   \* client keys
          Cost,      \* credit one request needs
          Cap        \* credit of a full bucket

VARIABLES now,       \* the clock
          level,     \* the credit of each client
          window,    \* an observer: since when it counts
          spent      \* an observer: credit each client spent since window

vars == <<now, level, window, spent>>

TypeOK ==
  /\ now \in Nat /\ window \in Nat /\ window <= now
  /\ level \in [Clients -> 0..Cap]
  /\ spent \in [Clients -> Nat]

Refilled(credit) == IF credit > Cap THEN Cap ELSE credit

Init ==
  /\ now = 0 /\ window = 0
  /\ level = [c \in Clients |-> Cap]
  /\ spent = [c \in Clients |-> 0]

Tick ==
  /\ now' = now + 1
  /\ level' = [c \in Clients |-> Refilled(level[c] + 1)]
  /\ UNCHANGED <<window, spent>>

Admit(c) ==
  /\ level[c] >= Cost
  /\ level' = [level EXCEPT ![c] = @ - Cost]
  /\ spent' = [spent EXCEPT ![c] = @ + Cost]
  /\ UNCHANGED <<now, window>>

\* The observer starts counting afresh, at any time.
OpenWindow ==
  /\ window' = now
  /\ spent' = [c \in Clients |-> 0]
  /\ UNCHANGED <<now, level>>

Next == Tick \/ OpenWindow \/ \E c \in Clients : Admit(c)

Spec == Init /\ [][Next]_vars

\* However the window lies, a client spends a full bucket and the credit of
\* the window's length at most.
WindowBound == \A c \in Clients : spent[c] <= Cap + (now - window)
=============================================================================
