--------------------------- MODULE SessionFamily ---------------------------
(***************************************************************************)
(* What rotating refresh tokens promises a user: a session is opened once, *)
(* is then in the hands of the browser or of the one request that is       *)
(* exchanging its token, and when it is closed it stays closed.  There are *)
(* no tokens, rows, devices or requests here: RefreshTokens implements it. *)
(***************************************************************************)
CONSTANT Families   \* the sessions there can be

VARIABLE state      \* where each session is

TypeOK == state \in [Families -> {"unopened", "held", "exchanged", "closed"}]

Init == state = [f \in Families |-> "unopened"]

Move(f, from, to) ==
  /\ state[f] = from
  /\ state' = [state EXCEPT ![f] = to]

\* A login; the browser holds the token.
Open(f) == Move(f, "unopened", "held")

\* A request claims the session's token, and only one can.
Take(f) == Move(f, "held", "exchanged")

\* It hands out the successor.
Give(f) == Move(f, "exchanged", "held")

\* Logout, a revocation of everything, an exchange that failed, a deleted
\* account: sessions end, several at once.
Close(S) ==
  /\ \A f \in S : state[f] \in {"held", "exchanged"}
  /\ state' = [f \in Families |-> IF f \in S THEN "closed" ELSE state[f]]

Next ==
  \/ \E f \in Families : Open(f) \/ Take(f) \/ Give(f)
  \/ \E S \in SUBSET Families : Close(S)

Spec == Init /\ [][Next]_state

\* A session that ended never works again.
ClosedForGood ==
  [][\A f \in Families : state[f] = "closed" => state'[f] = "closed"]_state
=============================================================================
