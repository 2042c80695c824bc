------------------------- MODULE RefreshTokensProofs -------------------------
(***************************************************************************)
(* Proofs about RefreshTokens, for every set of accounts, devices, tokens  *)
(* and requests, every lifetime and every kind of failure.                 *)
(*                                                                         *)
(* Most steps do one of two harmless things: they revoke rows, and they    *)
(* move calls to stages that no longer rotate.  Waning says so, and one    *)
(* lemma shows that such a step keeps the inductive invariant.             *)
(***************************************************************************)
EXTENDS RefreshTokens, TLAPS

\* Rows keep everything but their revoked flag, which is only ever raised.
OnlyRevokes ==
  \A n \in Tokens :
    /\ rows'[n] = NoRow <=> rows[n] = NoRow
    /\ rows[n] # NoRow => /\ rows'[n] \in Row
                          /\ rows'[n].user = rows[n].user
                          /\ rows'[n].device = rows[n].device
                          /\ rows'[n].expiresAt = rows[n].expiresAt
                          /\ rows[n].revoked => rows'[n].revoked

\* A call is where it was, or at a stage that does not rotate.
NoNewRotation ==
  \A r \in Requests :
    \/ call'[r] = call[r]
    \/ /\ call'[r] \in Call
       /\ call'[r].pc \notin {"claimed", "insert"}
       /\ call'[r].pc # "idle" => /\ call'[r].token \in Tokens
                                  /\ Minted(call'[r].token)
       /\ call'[r].pc \in {"replay", "revoke"} => call'[r].row # NoRow

Waning ==
  /\ now' \in Nat
  /\ role' = role
  /\ history' = history
  /\ rows' \in [Tokens -> Row \cup {NoRow}]
  /\ call' \in [Requests -> Call]
  /\ OnlyRevokes
  /\ NoNewRotation

\* A step that only revokes rows and ends rotations keeps the invariant.
LEMMA WaningKeepsIInv ==
  ASSUME IInv, Waning
  PROVE  IInv'
<1> USE DEF IInv, Waning, history
<1> TypeOK /\ TypeOK'
  BY DEF TypeOK
<1>1. \A n \in Tokens : (Live(n)' => Live(n)) /\ (Stored(n)' <=> Stored(n))
  BY DEF Live, Stored, OnlyRevokes, TypeOK, Row
<1>2. \A r \in Requests : Rotating(r)' => Rotating(r) /\ call'[r] = call[r]
  BY DEF Rotating, NoNewRotation
<1>3. SingleUse'
  BY DEF SingleUse
<1>4. LinearFamily'
  BY <1>1, <1>2 DEF LinearFamily
<1>5. DeviceBound'
  BY <1>1 DEF DeviceBound, OnlyRevokes, Stored, Provenance, Minted
<1>6. DemoDeadline'
  BY <1>1, NoTokenAssumption
     DEF DemoDeadline, OnlyRevokes, Stored, Provenance, Minted, DeviceBound
<1>7. Provenance'
  BY <1>1 DEF Provenance, Minted
<1>8. NoSuccessorYet'
  BY <1>1, <1>2 DEF NoSuccessorYet
<1>9. CallsSound'
  BY DEF CallsSound, NoNewRotation, Minted, SameDevice
<1>10. ClaimsAgree'
  BY <1>1, <1>2 DEF ClaimsAgree, OnlyRevokes, Stored, Rotating, CallsSound
<1>11. OwnersExist'
  BY <1>1 DEF OwnersExist, OnlyRevokes, Stored
<1>12. DemoKnown'
  BY <1>2 DEF DemoKnown
<1> QED
  BY <1>3, <1>4, <1>5, <1>6, <1>7, <1>8, <1>9, <1>10, <1>11, <1>12

-----------------------------------------------------------------------------
(* The steps that do more.                                                 *)

\* Claiming a token: it was the family's only working token.
LEMMA ClaimKeepsIInv ==
  ASSUME IInv, NEW r \in Requests, NEW t \in Tokens, NEW d \in Devices,
         RotateClaim(r, t, d)
  PROVE  IInv'
<1> USE DEF IInv, history
<1>0. /\ call[r].pc = "idle" /\ t \in issued /\ Minted(t)
      /\ rows[t] \in Row /\ Live(t) /\ rows[t].revoked = FALSE
      /\ UNCHANGED <<now, role, family, parent, capped, issued>>
  BY DEF RotateClaim, Presents, At, Claimable, Live, Stored, Provenance, TypeOK, Row
<1>1. /\ rows' = [rows EXCEPT ![t].revoked = TRUE]
      /\ rows'[t] = [user |-> rows[t].user, device |-> rows[t].device,
                     expiresAt |-> rows[t].expiresAt, revoked |-> TRUE]
      /\ rows'[t] \in Row /\ rows'[t] # NoRow /\ rows'[t].revoked
      /\ \A n \in Tokens : n # t => rows'[n] = rows[n]
  <2>1. rows' = [rows EXCEPT ![t].revoked = TRUE]
    BY DEF RotateClaim, Revoked
  <2>2. rows'[t] = [rows[t] EXCEPT !.revoked = TRUE]
    BY <2>1 DEF TypeOK
  <2> QED
    BY <1>0, <2>1, <2>2, NoRowAssumption DEF TypeOK, Row
<1>2. /\ call'[r] = [pc |-> "claimed", token |-> t, device |-> d,
                     row |-> rows'[t], role |-> "none"]
      /\ \A q \in Requests : q # r => call'[q] = call[q]
      /\ call' \in [Requests -> Call]
  BY <1>1 DEF RotateClaim, Begin, TypeOK, Call, Stages
<1>3. TypeOK'
  BY <1>0, <1>1, <1>2 DEF TypeOK
<1>4. /\ \A n \in Tokens : Stored(n)' <=> Stored(n)
      /\ \A n \in Tokens : Live(n)' <=> Live(n) /\ n # t
      /\ \A q \in Requests : Rotating(q)' <=> Rotating(q) \/ q = r
  <2>1. \A n \in Tokens : Stored(n)' <=> Stored(n)
    BY <1>0, <1>1 DEF Stored, Live
  <2>2. \A n \in Tokens : Live(n)' <=> Live(n) /\ n # t
    BY <1>1 DEF Stored, Live
  <2>3. \A q \in Requests : Rotating(q)' <=> Rotating(q) \/ q = r
    BY <1>0, <1>2 DEF Rotating
  <2> QED
    BY <2>1, <2>2, <2>3
<1>5. SingleUse'
  BY <1>0 DEF SingleUse
<1>6. LinearFamily'
  BY <1>0, <1>1, <1>2, <1>4 DEF LinearFamily
<1>7. DeviceBound'
  BY <1>0, <1>1, <1>4 DEF DeviceBound, Provenance, Minted
<1>8. DemoDeadline'
  BY <1>0, <1>1, <1>4 DEF DemoDeadline, Provenance, Minted
<1>9. Provenance'
  BY <1>0, <1>4 DEF Provenance, Minted
<1>10. NoSuccessorYet'
  BY <1>0, <1>2, <1>4 DEF NoSuccessorYet
<1>11. CallsSound'
  BY <1>0, <1>1, <1>2, NoRowAssumption DEF CallsSound, Minted, SameDevice
<1>12. ClaimsAgree'
  BY <1>0, <1>1, <1>2, <1>4 DEF ClaimsAgree, Stored
<1>13. OwnersExist'
  BY <1>0, <1>1, <1>4 DEF OwnersExist
<1>14. DemoKnown'
  <2>1. family[t] \in capped => role[rows[t].user] = "demo"
    BY <1>0 DEF OwnersExist, Live
  <2> QED
    BY <1>0, <1>1, <1>2, <1>4, <2>1 DEF DemoKnown
<1> QED
  BY <1>3, <1>5, <1>6, <1>7, <1>8, <1>9, <1>10, <1>11, <1>12, <1>13, <1>14

\* Looking up the role, when there is one.
LEMMA RoleKeepsIInv ==
  ASSUME IInv, NEW r \in Requests, RotateRole(r), KnownRole(role[call[r].row.user])
  PROVE  IInv'
<1> USE DEF IInv, history
<1>0. /\ call[r] \in Call /\ call[r].pc = "claimed" /\ SameDevice(r)
      /\ UNCHANGED <<now, role, rows, family, parent, capped, issued>>
      /\ role[call[r].row.user] \in Roles
  BY DEF RotateRole, At, KnownRole, TypeOK
<1>1. call' = [call EXCEPT ![r] = [@ EXCEPT !.pc = "insert",
                                          !.role = role[call[r].row.user]]]
  BY <1>0 DEF RotateRole
<1>2. /\ call'[r] = [pc |-> "insert", token |-> call[r].token,
                     device |-> call[r].device, row |-> call[r].row,
                     role |-> role[call[r].row.user]]
      /\ \A q \in Requests : q # r => call'[q] = call[q]
      /\ call' \in [Requests -> Call]
  <2>1. call'[r] = [call[r] EXCEPT !.pc = "insert",
                                   !.role = role[call[r].row.user]]
    BY <1>1 DEF TypeOK
  <2>2. call'[r] = [pc |-> "insert", token |-> call[r].token,
                    device |-> call[r].device, row |-> call[r].row,
                    role |-> role[call[r].row.user]]
    BY <1>0, <2>1 DEF Call
  <2>3. call'[r] \in Call
    BY <1>0, <2>2 DEF Call, Stages
  <2> QED
    BY <1>1, <2>2, <2>3 DEF TypeOK
<1>3. \A q \in Requests : Rotating(q)' <=> Rotating(q)
  BY <1>0, <1>1, <1>2 DEF Rotating
<1>4. TypeOK'
  BY <1>0, <1>2 DEF TypeOK
<1>5. SingleUse' /\ DeviceBound' /\ DemoDeadline' /\ Provenance' /\ OwnersExist'
  BY <1>0 DEF SingleUse, DeviceBound, DemoDeadline, Provenance, OwnersExist,
              Stored, Minted
<1>6. LinearFamily'
  BY <1>0, <1>1, <1>2, <1>3 DEF LinearFamily, Live, Stored
<1>7. NoSuccessorYet'
  BY <1>0, <1>1, <1>2, <1>3 DEF NoSuccessorYet, Live, Stored
<1>8. CallsSound'
  BY <1>0, <1>1, <1>2 DEF CallsSound, SameDevice, Minted
<1>9. ClaimsAgree'
  BY <1>0, <1>1, <1>2, <1>3 DEF ClaimsAgree, Stored
<1>10. DemoKnown'
  <2>1. family[call[r].token] \in capped => role[call[r].row.user] = "demo"
    BY <1>0 DEF DemoKnown, Rotating, Roles
  <2> QED
    BY <1>0, <1>2, <1>3, <2>1 DEF DemoKnown
<1> QED
  BY <1>4, <1>5, <1>6, <1>7, <1>8, <1>9, <1>10

Replaces(r, n, outcome) ==
  /\ call[r].pc = "insert"
  /\ Replace(r, n)
  /\ issued' \in {issued, issued \cup {n}}
  /\ Return(r, call[r].token, outcome)
  /\ UNCHANGED <<now, role, capped>>

\* Storing a replacement, whoever hears of it: the rotation is over and its
\* family works again.
LEMMA ReplaceKeepsIInv ==
  ASSUME IInv, NEW r \in Requests, NEW n \in Tokens, NEW outcome \in Outcomes,
         Replaces(r, n, outcome)
  PROVE  IInv'
<1> DEFINE t == call[r].token
           u == call[r].row.user
           exp == ReplacementExpiry(r)
<1> USE DEF IInv, Replaces
<1>0. /\ call[r] \in Call /\ call[r].row \in Row /\ t \in Tokens /\ Minted(t)
      /\ call[r].device \in Devices /\ call[r].device = call[r].row.device
      /\ Rotating(r) /\ u \in Users /\ exp \in Nat
      /\ Fresh(n) /\ ~Minted(n) /\ role[u] # "gone"
      /\ UNCHANGED <<now, role, capped>>
  <2>1. call[r] \in Call /\ call[r].row # NoRow /\ SameDevice(r) /\ t \in Tokens /\ Minted(t)
    BY DEF TypeOK, CallsSound
  <2>2. call[r].row \in Row
    BY <2>1 DEF Call
  <2>3. exp \in Nat
    BY <2>2, TTLAssumption DEF ReplacementExpiry, TypeOK, Row
  <2> QED
    BY <2>1, <2>2, <2>3, NoTokenAssumption
       DEF SameDevice, Row, Rotating, Replace, Insert, Fresh, Minted
<1>1. /\ rows' = [rows EXCEPT ![n] = [user |-> u, device |-> call[r].device,
                                      expiresAt |-> exp, revoked |-> FALSE]]
      /\ family' = [family EXCEPT ![n] = family[t]]
      /\ parent' = [parent EXCEPT ![n] = t]
  BY DEF Replace, Insert
<1>2. /\ rows'[n].user = u /\ rows'[n].device = call[r].device
      /\ rows'[n].expiresAt = exp /\ rows'[n].revoked = FALSE
      /\ rows'[n] \in Row /\ rows'[n] # NoRow
      /\ \A m \in Tokens : m # n => rows'[m] = rows[m]
      /\ rows' \in [Tokens -> Row \cup {NoRow}]
  <2>1. rows'[n] = [user |-> u, device |-> call[r].device,
                    expiresAt |-> exp, revoked |-> FALSE]
    BY <1>1 DEF TypeOK
  <2>2. rows'[n] \in Row
    BY <1>0, <2>1 DEF Row
  <2> QED
    BY <1>1, <2>1, <2>2, NoRowAssumption DEF TypeOK
<1>3. /\ family'[n] = family[t] /\ parent'[n] = t
      /\ \A m \in Tokens : m # n => family'[m] = family[m] /\ parent'[m] = parent[m]
      /\ family' \in [Tokens -> Tokens \cup {NoToken}]
      /\ parent' \in [Tokens -> Tokens \cup {NoToken}]
  BY <1>0, <1>1 DEF TypeOK
<1>4. /\ call'[r] \in Call /\ call'[r].pc \in Outcomes /\ call'[r].token = t
      /\ \A q \in Requests : q # r => call'[q] = call[q]
      /\ call' \in [Requests -> Call]
  <2>1. call'[r] = [pc |-> outcome, token |-> t, device |-> "none",
                    row |-> NoRow, role |-> "none"]
    BY DEF Return, Idle, TypeOK
  <2>2. call'[r] \in Call
    BY <1>0, <2>1 DEF Call, Stages
  <2> QED
    BY <2>1, <2>2 DEF Return, TypeOK
<1>5. TypeOK'
  BY <1>0, <1>2, <1>3, <1>4 DEF TypeOK
<1>6. t # n /\ parent[n] = NoToken /\ ~Stored(n) /\ n \notin issued /\ n \notin capped
  BY <1>0 DEF Provenance, TypeOK
<1>7. \A m \in Tokens : Minted(m) => m # n /\ family[m] # n /\ Minted(m)' /\ Minted(family[m])
  BY <1>0, <1>3, NoTokenAssumption DEF Provenance, Minted
<1>8. /\ Stored(n)' /\ Live(n)'
      /\ \A m \in Tokens : m # n => (Stored(m)' <=> Stored(m)) /\ (Live(m)' <=> Live(m))
  BY <1>2 DEF Stored, Live
<1>9. /\ ~Rotating(r)'
      /\ \A q \in Requests : q # r => (Rotating(q)' <=> Rotating(q))
  BY <1>4 DEF Rotating, Outcomes
<1>10. SingleUse'
  BY <1>0, <1>3, <1>6, NoTokenAssumption DEF SingleUse, NoSuccessorYet
<1>11. LinearFamily'
  <2>1. \A m \in Tokens : Live(m) => family[m] # family[t]
    BY <1>0 DEF LinearFamily
  <2>2. \A q \in Requests : Rotating(q) /\ q # r =>
           /\ call[q].token \in Tokens /\ call[q].token # n
           /\ family[call[q].token] # family[t]
    BY <1>0, <1>7 DEF LinearFamily, CallsSound, Rotating
  <2> QED
    BY <1>0, <1>3, <1>4, <1>7, <1>8, <1>9, <2>1, <2>2 DEF LinearFamily
<1>12. /\ family[t] \in Tokens /\ family[t] # n
       /\ Stored(t) /\ Stored(family[t])
       /\ rows[family[t]].user = u /\ rows[t].user = u
       /\ rows[family[t]].device = call[r].device
  BY <1>0, <1>7 DEF ClaimsAgree, DeviceBound, Minted
<1>13. DeviceBound'
  BY <1>2, <1>3, <1>7, <1>8, <1>12 DEF DeviceBound, Provenance, Minted
<1>14. DemoDeadline'
  <2>1. family[t] \in capped => exp = rows[family[t]].expiresAt
    BY <1>0 DEF DemoKnown, ReplacementExpiry, ClaimsAgree, DemoDeadline
  <2> QED
    BY <1>0, <1>2, <1>3, <1>7, <1>8, <1>12, <2>1 DEF DemoDeadline, Provenance, Minted
<1>15. Provenance'
  BY <1>0, <1>3, <1>6, <1>7, <1>8, <1>12, NoTokenAssumption DEF Provenance, Minted
<1>16. NoSuccessorYet'
  <2>1. \A q \in Requests : Rotating(q) /\ q # r => call[q].token # t
    BY <1>0 DEF LinearFamily
  <2>2. \A m \in Tokens : parent[m] # n
    BY <1>0, NoTokenAssumption DEF Provenance, TypeOK
  <2>3. ~Live(t)
    BY <1>0 DEF LinearFamily
  <2> QED
    BY <1>0, <1>3, <1>4, <1>6, <1>8, <1>9, <2>1, <2>2, <2>3 DEF NoSuccessorYet
<1>17. CallsSound'
  BY <1>0, <1>4, <1>7 DEF CallsSound, SameDevice, Outcomes
<1>18. ClaimsAgree'
  BY <1>0, <1>2, <1>4, <1>6, <1>8, <1>9 DEF ClaimsAgree, CallsSound, Rotating
<1>19. OwnersExist'
  <2>1. family[t] \in capped => role[u] = "demo"
    BY <1>0, <1>12 DEF OwnersExist
  <2> QED
    BY <1>0, <1>2, <1>3, <1>8, <2>1 DEF OwnersExist
<1>20. DemoKnown'
  BY <1>0, <1>4, <1>7, <1>9, <1>3 DEF DemoKnown, CallsSound, Rotating
<1> QED
  BY <1>5, <1>10, <1>11, <1>13, <1>14, <1>15, <1>16, <1>17, <1>18, <1>19, <1>20

Opens(n, u, d, exp) ==
  /\ Insert(n, u, d, exp, n, NoToken)
  /\ issued' \in {issued, issued \cup {n}}
  /\ \/ capped' = capped
     \/ role[u] = "demo" /\ capped' = capped \cup {n}
  /\ UNCHANGED <<now, role, call>>

\* Opening a session: a new family of one token.
LEMMA OpenKeepsIInv ==
  ASSUME IInv, NEW n \in Tokens, NEW u \in Users, NEW d \in Devices,
         NEW exp \in Nat, Opens(n, u, d, exp)
  PROVE  IInv'
<1> USE DEF IInv, Opens
<1>0. /\ Fresh(n) /\ ~Minted(n) /\ role[u] # "gone"
      /\ ~Stored(n) /\ n \notin issued /\ n \notin capped /\ parent[n] = NoToken
  BY NoTokenAssumption DEF Insert, Fresh, Minted, Provenance, TypeOK
<1>1. /\ rows'[n].user = u /\ rows'[n].device = d
      /\ rows'[n].expiresAt = exp /\ rows'[n].revoked = FALSE
      /\ rows'[n] # NoRow
      /\ \A m \in Tokens : m # n => rows'[m] = rows[m]
      /\ rows' \in [Tokens -> Row \cup {NoRow}]
  <2>1. rows' = [rows EXCEPT ![n] = [user |-> u, device |-> d,
                                     expiresAt |-> exp, revoked |-> FALSE]]
    BY DEF Insert
  <2>2. rows'[n] = [user |-> u, device |-> d, expiresAt |-> exp, revoked |-> FALSE]
    BY <2>1 DEF TypeOK
  <2>3. rows'[n] \in Row
    BY <2>2 DEF Row
  <2> QED
    BY <2>1, <2>2, <2>3, NoRowAssumption DEF TypeOK
<1>2. /\ family'[n] = n /\ parent' = parent
      /\ \A m \in Tokens : m # n => family'[m] = family[m]
      /\ family' \in [Tokens -> Tokens \cup {NoToken}]
  BY <1>0 DEF Insert, TypeOK
<1>3. TypeOK'
  BY <1>1, <1>2 DEF TypeOK
<1>4. \A m \in Tokens : Minted(m) => m # n /\ family[m] # n /\ Minted(m)' /\ Minted(family[m])
  BY <1>0, <1>2, NoTokenAssumption DEF Provenance, Minted
<1>5. /\ Stored(n)' /\ Live(n)'
      /\ \A m \in Tokens : m # n => (Stored(m)' <=> Stored(m)) /\ (Live(m)' <=> Live(m))
  BY <1>1 DEF Stored, Live
<1>6. \A q \in Requests : Rotating(q) => call[q].token \in Tokens /\ Minted(call[q].token)
  BY DEF CallsSound, Rotating
<1>7. \A q \in Requests : Rotating(q)' <=> Rotating(q)
  BY DEF Rotating
<1>8. \A m \in Tokens : m # n /\ Stored(m) => Minted(m)
  BY DEF Provenance
<1>9. SingleUse'
  BY <1>2 DEF SingleUse
<1>10. LinearFamily'
  <2>1. \A m \in Tokens : Live(m) => m # n /\ family'[m] = family[m] /\ family[m] # n
    BY <1>0, <1>2, <1>4 DEF Live, Provenance
  <2>2. \A q \in Requests : Rotating(q) =>
           family'[call[q].token] = family[call[q].token] /\ family[call[q].token] # n
    BY <1>2, <1>4, <1>6
  <2> QED
    BY <1>2, <1>5, <1>7, <2>1, <2>2 DEF LinearFamily
<1>11. DeviceBound'
  BY <1>1, <1>2, <1>4, <1>5, <1>8 DEF DeviceBound, Minted
<1>12. DemoDeadline'
  BY <1>0, <1>1, <1>2, <1>4, <1>5, <1>8 DEF DemoDeadline, Minted
<1>13. Provenance'
  <2>1. \A m \in Tokens : Stored(m)' \/ m \in issued' \/ m \in capped' => Minted(m)'
    <3>1. Minted(n)'
      BY <1>2 DEF Minted
    <3>2. \A m \in Tokens : m # n =>
             (Stored(m)' \/ m \in issued' \/ m \in capped' => Minted(m))
      BY <1>5 DEF Provenance
    <3> QED
      BY <1>4, <3>1, <3>2
  <2>2. \A m \in Tokens : Minted(m)' => family'[family'[m]] = family'[m]
    <3>1. \A m \in Tokens : m # n /\ Minted(m)' => Minted(m)
      BY <1>2 DEF Minted
    <3>2. \A m \in Tokens : Minted(m) =>
             family'[m] = family[m] /\ family'[family[m]] = family[m]
      BY <1>2, <1>4 DEF Provenance, Minted
    <3> QED
      BY <1>2, <3>1, <3>2
  <2>3. (\A m \in Tokens : parent[m] # NoToken => Minted(parent[m]) /\ Minted(m))'
    <3>1. \A m \in Tokens : parent[m] # NoToken =>
             parent[m] \in Tokens /\ Minted(parent[m])' /\ Minted(m)'
      BY <1>2, <1>4 DEF Provenance, TypeOK
    <3> QED
      BY <1>2, <3>1 DEF Minted
  <2> QED
    BY <2>1, <2>2, <2>3 DEF Provenance
<1>14. NoSuccessorYet'
  BY <1>0, <1>2, <1>5, <1>7, NoTokenAssumption DEF NoSuccessorYet, Provenance, TypeOK
<1>15. CallsSound'
  BY <1>4 DEF CallsSound, SameDevice
<1>16. ClaimsAgree'
  <2>1. \A q \in Requests : Rotating(q) => call[q].token # n
    BY <1>4, <1>6
  <2> QED
    BY <1>1, <1>5, <1>6, <1>7, <2>1 DEF ClaimsAgree
<1>17. OwnersExist'
  BY <1>0, <1>1, <1>2, <1>4, <1>5, <1>8 DEF OwnersExist
<1>18. DemoKnown'
  BY <1>2, <1>4, <1>6, <1>7 DEF DemoKnown
<1> QED
  BY <1>3, <1>9, <1>10, <1>11, <1>12, <1>13, <1>14, <1>15, <1>16, <1>17, <1>18

\* An account becomes the demo account: sessions it has keep sliding.
LEMMA SetUserRoleKeepsIInv ==
  ASSUME IInv, NEW u \in Users, SetUserRole(u)
  PROVE  IInv'
<1> USE DEF IInv, history, SetUserRole
<1>1. role' \in [Users -> Roles \cup {"gone"}]
  BY DEF TypeOK, Roles
<1>2. \A v \in Users : \/ role'[v] = role[v]
                       \/ role[v] = "user" /\ role'[v] = "demo"
  BY DEF TypeOK
<1>3. TypeOK'
  BY <1>1 DEF TypeOK
<1>4. /\ SingleUse' /\ LinearFamily' /\ DeviceBound' /\ DemoDeadline'
      /\ Provenance' /\ NoSuccessorYet' /\ CallsSound'
  BY DEF SingleUse, LinearFamily, DeviceBound, DemoDeadline, Provenance,
         NoSuccessorYet, CallsSound, Live, Stored, Rotating, Minted, SameDevice
<1>5. \A r \in Requests : Rotating(r) => call[r].row \in Row /\ call[r].row.user \in Users
  BY DEF Rotating, CallsSound, TypeOK, Call, Row
<1>6. \A n \in Tokens : Stored(n) => rows[n].user \in Users
  BY DEF Stored, TypeOK, Row
<1>7. ClaimsAgree'
  BY <1>2, <1>5 DEF ClaimsAgree, Stored, Rotating
<1>8. OwnersExist'
  BY <1>2, <1>6 DEF OwnersExist, Stored
<1>9. DemoKnown'
  BY <1>2, <1>5 DEF DemoKnown, Rotating
<1> QED
  BY <1>3, <1>4, <1>7, <1>8, <1>9

\* An account goes, and its rows with it.
LEMMA DeleteUserKeepsIInv ==
  ASSUME IInv, NEW u \in Users, DeleteUser(u)
  PROVE  IInv'
<1> USE DEF IInv, history
<1>0. /\ role' = [role EXCEPT ![u] = "gone"]
      /\ rows' = [n \in Tokens |-> IF Stored(n) /\ rows[n].user = u
                                   THEN NoRow ELSE rows[n]]
      /\ UNCHANGED <<now, call, family, parent, capped, issued>>
  BY DEF DeleteUser
<1>1. \A n \in Tokens : /\ Stored(n)' <=> Stored(n) /\ rows[n].user # u
                        /\ Live(n)' => Live(n)
                        /\ Stored(n)' => rows'[n] = rows[n]
  BY <1>0 DEF Stored, Live
<1>2. TypeOK'
  BY <1>0 DEF TypeOK
<1>3. role'[u] = "gone" /\ \A v \in Users : v # u => role'[v] = role[v]
  BY <1>0 DEF TypeOK
<1>4. \A r \in Requests : Rotating(r) => call[r].row.user \in Users
  BY DEF Rotating, CallsSound, TypeOK, Call, Row
<1>5. \A n \in Tokens : Stored(n) => rows[n].user \in Users
  BY DEF Stored, TypeOK, Row
<1>6. SingleUse' /\ CallsSound'
  BY <1>0 DEF SingleUse, CallsSound, SameDevice, Minted
<1>7. LinearFamily' /\ NoSuccessorYet'
  BY <1>0, <1>1 DEF LinearFamily, NoSuccessorYet, Rotating
<1>8. DeviceBound' /\ DemoDeadline'
  BY <1>0, <1>1, <1>5 DEF DeviceBound, DemoDeadline, Provenance, Minted
<1>9. Provenance'
  BY <1>0, <1>1 DEF Provenance, Minted
<1>10. ClaimsAgree'
  BY <1>0, <1>1, <1>3, <1>4 DEF ClaimsAgree, CallsSound, Rotating
<1>11. OwnersExist'
  BY <1>0, <1>1, <1>3, <1>5 DEF OwnersExist
<1>12. DemoKnown'
  BY <1>0, <1>3, <1>4 DEF DemoKnown, Rotating
<1> QED
  BY <1>2, <1>6, <1>7, <1>8, <1>9, <1>10, <1>11, <1>12

-----------------------------------------------------------------------------
(* The inductive invariant.                                                *)

LEMMA InitIInv == Init => IInv
<1> SUFFICES ASSUME Init PROVE IInv
  OBVIOUS
<1> USE DEF Init
<1>1. Idle \in Call
  BY DEF Idle, Call, Stages
<1>2. TypeOK
  BY <1>1 DEF TypeOK
<1>3. \A r \in Requests : call[r].pc = "idle"
  BY DEF Idle
<1>4. \A n \in Tokens : ~Stored(n) /\ ~Live(n) /\ ~Minted(n)
  BY NoTokenAssumption DEF Stored, Live, Minted
<1>5. \A r \in Requests : ~Rotating(r)
  BY <1>3 DEF Rotating
<1>6. SingleUse /\ LinearFamily /\ DeviceBound /\ DemoDeadline
  BY <1>4, <1>5 DEF SingleUse, LinearFamily, DeviceBound, DemoDeadline
<1>7. Provenance /\ NoSuccessorYet /\ CallsSound
  BY <1>3, <1>4, <1>5 DEF Provenance, NoSuccessorYet, CallsSound
<1>8. ClaimsAgree /\ OwnersExist /\ DemoKnown
  BY <1>4, <1>5 DEF ClaimsAgree, OwnersExist, DemoKnown
<1> QED
  BY <1>2, <1>6, <1>7, <1>8 DEF IInv

\* A call that returns no longer rotates.
LEMMA ReturnWanes ==
  ASSUME IInv, NEW r \in Requests, NEW t \in Tokens, Minted(t),
         NEW outcome \in Outcomes, Return(r, t, outcome)
  PROVE  /\ call' \in [Requests -> Call]
         /\ NoNewRotation
         /\ call'[r].pc = outcome /\ call'[r].token = t
<1>1. call'[r] = [pc |-> outcome, token |-> t, device |-> "none",
                  row |-> NoRow, role |-> "none"]
  BY DEF Return, Idle, IInv, TypeOK
<1>2. call'[r] \in Call
  BY <1>1 DEF Call, Stages
<1>3. \A q \in Requests : q # r => call'[q] = call[q]
  BY DEF Return, IInv, TypeOK
<1>4. call' \in [Requests -> Call]
  BY <1>2, <1>3 DEF Return, IInv, TypeOK
<1>5. call'[r].pc \notin {"claimed", "insert", "replay", "revoke"}
  BY <1>1 DEF Outcomes
<1> QED
  BY <1>1, <1>2, <1>3, <1>4, <1>5 DEF NoNewRotation

\* Every statement that revokes rows only revokes rows.
LEMMA RevokingOnlyRevokes ==
  ASSUME TypeOK
  PROVE  /\ rows' = rows => OnlyRevokes
         /\ \A u : rows' = RevokedAll(u) => OnlyRevokes
         /\ \A t \in Tokens : Stored(t) /\ rows' = Revoked(t) => OnlyRevokes
<1> USE DEF TypeOK, OnlyRevokes
<1>1. \A n \in Tokens : rows[n] # NoRow => rows[n] \in Row
  OBVIOUS
<1>2. \A n \in Tokens : rows[n] # NoRow =>
         /\ [rows[n] EXCEPT !.revoked = TRUE] \in Row
         /\ [rows[n] EXCEPT !.revoked = TRUE] # NoRow
         /\ [rows[n] EXCEPT !.revoked = TRUE].user = rows[n].user
         /\ [rows[n] EXCEPT !.revoked = TRUE].device = rows[n].device
         /\ [rows[n] EXCEPT !.revoked = TRUE].expiresAt = rows[n].expiresAt
         /\ [rows[n] EXCEPT !.revoked = TRUE].revoked
  BY <1>1, NoRowAssumption DEF Row
<1>3. rows' = rows => OnlyRevokes
  BY <1>1
<1>4. ASSUME NEW u, rows' = RevokedAll(u) PROVE OnlyRevokes
  BY <1>1, <1>2, <1>4 DEF RevokedAll, Stored
<1>5. ASSUME NEW t \in Tokens, Stored(t), rows' = Revoked(t) PROVE OnlyRevokes
  <2>1. rows'[t] = [rows[t] EXCEPT !.revoked = TRUE]
    BY <1>5 DEF Revoked
  <2>2. \A n \in Tokens : n # t => rows'[n] = rows[n]
    BY <1>5 DEF Revoked
  <2>3. rows[t] # NoRow
    BY <1>5 DEF Stored
  <2> QED
    BY <1>1, <1>2, <2>1, <2>2, <2>3
<1> QED
  BY <1>3, <1>4, <1>5

\* A step of one of these kinds is waning.
LEMMA WaningStep ==
  ASSUME IInv, NoNewRotation, call' \in [Requests -> Call],
         now' \in Nat, role' = role, history' = history,
         \/ rows' = rows
         \/ \E u : rows' = RevokedAll(u)
         \/ \E t \in Tokens : Stored(t) /\ rows' = Revoked(t)
  PROVE  Waning
<1>1. OnlyRevokes
  BY RevokingOnlyRevokes DEF IInv
<1>2. rows' \in [Tokens -> Row \cup {NoRow}]
  <2>1. \A n \in Tokens : rows'[n] \in Row \cup {NoRow}
    BY <1>1 DEF OnlyRevokes
  <2>2. rows' = [n \in Tokens |-> rows'[n]]
    BY DEF RevokedAll, Revoked, IInv, TypeOK
  <2> QED
    BY <2>1, <2>2
<1> QED
  BY <1>1, <1>2 DEF Waning

LEMMA CallsStand ==
  ASSUME IInv, call' = call
  PROVE  call' \in [Requests -> Call] /\ NoNewRotation
BY DEF IInv, TypeOK, NoNewRotation

LEMMA ErrorsRevoke ==
  ASSUME NEW new, rows' \in AfterError(new)
  PROVE  rows' = rows \/ rows' = new
BY DEF AfterError

\* Every step is a waning one or one of six others.
LEMMA StepKinds ==
  ASSUME IInv, [Next]_vars
  PROVE  \/ Waning
         \/ \E r \in Requests, t \in Tokens, d \in Devices : RotateClaim(r, t, d)
         \/ \E r \in Requests : RotateRole(r) /\ KnownRole(role[call[r].row.user])
         \/ \E r \in Requests, n \in Tokens, outcome \in Outcomes :
               Replaces(r, n, outcome)
         \/ \E n \in Tokens, u \in Users, d \in Devices, exp \in Nat : Opens(n, u, d, exp)
         \/ \E u \in Users : SetUserRole(u) \/ DeleteUser(u)
<1> USE DEF history
<1>1. IInv => TypeOK /\ Provenance /\ CallsSound
  BY DEF IInv
<1>2. \A r \in Requests : call[r].pc # "idle" => call[r].token \in Tokens /\ Minted(call[r].token)
  BY <1>1 DEF CallsSound
<1>3. now \in Nat
  BY <1>1 DEF TypeOK
<1>5. ASSUME NEW r \in Requests, NEW t \in Tokens, NEW d \in Devices,
             NEW pc \in {"lookup", "revoke"}, NEW row \in Row \cup {NoRow},
             pc = "revoke" => row # NoRow,
             Begin(r, t, d, pc, row), Presents(r, t),
             UNCHANGED <<now, role, rows, history>>
      PROVE  Waning
  <2>1. call'[r] = [pc |-> pc, token |-> t, device |-> d, row |-> row, role |-> "none"]
    BY <1>1, <1>5 DEF Begin, TypeOK
  <2>2. call'[r] \in Call /\ Minted(t)
    BY <1>1, <1>5, <2>1 DEF Call, Stages, Presents, Provenance
  <2>3. call' \in [Requests -> Call] /\ NoNewRotation
    BY <1>1, <1>5, <2>1, <2>2 DEF Begin, TypeOK, NoNewRotation
  <2> QED
    BY <1>3, <1>5, <2>3, WaningStep
<1>6. ASSUME NEW r \in Requests, NEW t \in Tokens, Minted(t), NEW outcome \in Outcomes,
             Return(r, t, outcome),
             \/ rows' = rows
             \/ \E u : rows' = RevokedAll(u)
             \/ \E n \in Tokens : Stored(n) /\ rows' = Revoked(n),
             UNCHANGED <<now, role, history>>
      PROVE  Waning
  BY <1>3, <1>6, ReturnWanes, WaningStep
<1>7. ASSUME NEW r \in Requests, NEW t \in Tokens, NEW d \in Devices,
             RotateMiss(r, t, d)
      PROVE  Waning
  BY <1>5, <1>7 DEF RotateMiss
<1>8. ASSUME NEW r \in Requests, NEW t \in Tokens, NEW d \in Devices,
             RotateClaimError(r, t, d)
      PROVE  Waning
  <2>1. Minted(t)
    BY <1>1, <1>8 DEF RotateClaimError, Presents, Provenance
  <2>2. rows' = rows \/ (Stored(t) /\ rows' = Revoked(t))
    BY <1>8, ErrorsRevoke DEF RotateClaimError, Claimable, Live
  <2> QED
    BY <1>6, <1>8, <2>1, <2>2 DEF RotateClaimError, Outcomes
<1>9. ASSUME NEW r \in Requests, NEW t \in Tokens, NEW d \in Devices,
             RevokeLookup(r, t, d)
      PROVE  Waning
  <2>1. Minted(t) /\ rows[t] \in Row \cup {NoRow}
    BY <1>1, <1>9 DEF RevokeLookup, Presents, Provenance, TypeOK
  <2>2. CASE Stored(t) /\ Begin(r, t, d, "revoke", rows[t])
    BY <1>5, <1>9, <2>1, <2>2 DEF RevokeLookup, Stored
  <2>3. CASE Return(r, t, "notFound") \/ Return(r, t, "error")
    BY <1>6, <1>9, <2>1, <2>3 DEF RevokeLookup, Outcomes
  <2> QED
    BY <1>9, <2>2, <2>3 DEF RevokeLookup
<1>10. ASSUME NEW r \in Requests, RotateLookup(r)
       PROVE  Waning
  <2> DEFINE t == call[r].token
  <2>1. t \in Tokens /\ Minted(t)
    BY <1>2, <1>10 DEF RotateLookup, At
  <2>2. CASE Return(r, t, "notFound") \/ Return(r, t, "expired")
    BY <1>6, <1>10, <2>1, <2>2 DEF RotateLookup, Outcomes
  <2>3. CASE Stored(t) /\ Hold(r, "replay", rows[t])
    <3>1. call[r] \in Call /\ rows[t] \in Row
      BY <1>1, <2>1, <2>3 DEF TypeOK, Stored
    <3>2. call'[r] = [call[r] EXCEPT !.pc = "replay", !.row = rows[t]]
      BY <1>1, <2>3 DEF Hold, TypeOK
    <3>3. call'[r] = [pc |-> "replay", token |-> t, device |-> call[r].device,
                      row |-> rows[t], role |-> call[r].role]
      BY <3>1, <3>2 DEF Call
    <3>4. call'[r] \in Call
      BY <3>1, <3>3 DEF Call, Stages
    <3>5. \A q \in Requests : q # r => call'[q] = call[q]
      BY <1>1, <2>3 DEF Hold, TypeOK
    <3>6. call' \in [Requests -> Call]
      BY <1>1, <2>3, <3>4, <3>5 DEF Hold, TypeOK
    <3>7. NoNewRotation
      BY <2>1, <2>3, <3>3, <3>4, <3>5 DEF NoNewRotation, Stored
    <3> QED
      BY <1>3, <1>10, <3>6, <3>7, WaningStep DEF RotateLookup
  <2> QED
    BY <1>10, <2>2, <2>3 DEF RotateLookup
<1>11. ASSUME NEW r \in Requests, RotateReplay(r) \/ RotateMismatch(r)
       PROVE  Waning
  <2>1. call[r].token \in Tokens /\ Minted(call[r].token)
    BY <1>2, <1>11 DEF RotateReplay, RotateMismatch, At
  <2>2. rows' = rows \/ \E u : rows' = RevokedAll(u)
    BY <1>11, ErrorsRevoke DEF RotateReplay, RotateMismatch
  <2>3. /\ \/ Return(r, call[r].token, "revoked")
           \/ Return(r, call[r].token, "mismatch")
        /\ UNCHANGED <<now, role, history>>
    BY <1>11 DEF RotateReplay, RotateMismatch
  <2> QED
    BY <1>6, <2>1, <2>2, <2>3 DEF Outcomes
<1>12. ASSUME NEW r \in Requests, RotateRole(r), ~KnownRole(role[call[r].row.user])
       PROVE  Waning
  BY <1>2, <1>6, <1>12 DEF RotateRole, At, Outcomes
<1>13. ASSUME NEW r \in Requests, NEW n \in Tokens, RotateInsert(r, n)
       PROVE  Replaces(r, n, "ok")
  BY <1>13 DEF RotateInsert, At, Replaces
<1>14. ASSUME NEW r \in Requests,
              RotateInsertExpired(r) \/ ReadError(r)
       PROVE  Waning
  BY <1>2, <1>6, <1>14 DEF RotateInsertExpired, ReadError, At, Outcomes
<1>15. ASSUME NEW r \in Requests, RotateInsertError(r)
       PROVE  Waning \/ \E n \in Tokens : Replaces(r, n, "error")
  <2>1. CASE \E n \in Tokens : Replace(r, n)
    BY <1>15, <2>1 DEF RotateInsertError, At, Replaces
  <2>2. CASE UNCHANGED <<rows, family, parent>>
    BY <1>2, <1>6, <1>15, <2>2 DEF RotateInsertError, At, Outcomes
  <2> QED
    BY <1>15, <2>1, <2>2 DEF RotateInsertError
<1>16. ASSUME NEW r \in Requests, RevokeByID(r)
       PROVE  Waning
  <2> DEFINE t == call[r].token
  <2>1. t \in Tokens /\ Minted(t)
    BY <1>2, <1>16 DEF RevokeByID, At
  <2>2. rows' = rows \/ (Stored(t) /\ rows' = Revoked(t))
    BY <1>16, ErrorsRevoke DEF RevokeByID
  <2>3. /\ Return(r, t, "ok") \/ Return(r, t, "error")
        /\ UNCHANGED <<now, role, history>>
    BY <1>16 DEF RevokeByID
  <2> QED
    BY <1>6, <2>1, <2>2, <2>3 DEF Outcomes
<1>17. ASSUME NEW r \in Requests, Reply(r)
       PROVE  Waning
  <2>1. call'[r] = Idle /\ Idle \in Call
    BY <1>1, <1>17 DEF Reply, TypeOK, Idle, Call, Stages
  <2>2. call' \in [Requests -> Call] /\ NoNewRotation
    BY <1>1, <1>17, <2>1 DEF Reply, TypeOK, NoNewRotation, Idle
  <2> QED
    BY <1>3, <1>17, <2>2, WaningStep DEF Reply
<1>18. ASSUME NEW u \in Users, NEW d \in Devices, NEW n \in Tokens,
              CreateRefreshToken(u, d, n) \/ CreateDemoToken(u, d, n)
       PROVE  Opens(n, u, d, now + RefreshTTL) \/ Opens(n, u, d, now + DemoTTL)
  BY <1>18 DEF CreateRefreshToken, CreateDemoToken, Hand, Opens
<1>22. now + RefreshTTL \in Nat /\ now + DemoTTL \in Nat
  BY <1>3, TTLAssumption
<1>19. ASSUME NEW u \in Users, RevokeAllForUser(u)
       PROVE  Waning
  BY <1>3, <1>19, CallsStand, WaningStep DEF RevokeAllForUser
<1>20. ASSUME Tick
       PROVE  Waning
  <2>1. now' \in Nat
    BY <1>3, <1>20 DEF Tick
  <2> QED
    BY <1>20, <2>1, CallsStand, WaningStep DEF Tick
<1>21. ASSUME UNCHANGED vars
       PROVE  Waning
  BY <1>3, <1>21, CallsStand, WaningStep DEF vars
<1> QED
  BY <1>7, <1>8, <1>9, <1>10, <1>11, <1>12, <1>13, <1>14, <1>15, <1>16,
     <1>17, <1>18, <1>19, <1>20, <1>21, <1>22
     DEF Next, Arrive, Advance, Environment, Outcomes

LEMMA NextKeepsIInv ==
  ASSUME IInv, [Next]_vars
  PROVE  IInv'
BY StepKinds, WaningKeepsIInv, ClaimKeepsIInv, RoleKeepsIInv, ReplaceKeepsIInv,
   OpenKeepsIInv, SetUserRoleKeepsIInv, DeleteUserKeepsIInv

-----------------------------------------------------------------------------
(* The results.                                                            *)

\* Everything RefreshTokens calls the inductive invariant holds always.
THEOREM Invariance == Spec => []IInv
<1>1. Init => IInv
  BY InitIInv
<1>2. IInv /\ [Next]_vars => IInv'
  BY NextKeepsIInv
<1> QED
  BY <1>1, <1>2, PTL DEF Spec

\* models.go: every row and every call keeps the shape its struct has.
THEOREM TypeCorrect == Spec => []TypeOK
<1>1. IInv => TypeOK
  BY DEF IInv
<1> QED
  BY <1>1, Invariance, PTL

\* service.go:118: of any number of concurrent rotations of one token at most
\* one stores a replacement.
THEOREM TokensAreSingleUse == Spec => []SingleUse
<1>1. IInv => SingleUse
  BY DEF IInv
<1> QED
  BY <1>1, Invariance, PTL

\* A session never forks, whatever fails or runs at the same time.
THEOREM SessionsNeverFork == Spec => []LinearFamily
<1>1. IInv => LinearFamily
  BY DEF IInv
<1> QED
  BY <1>1, Invariance, PTL

\* service.go:152: a session stays on its device and its account.
THEOREM SessionsStayOnTheirDevice == Spec => []DeviceBound
<1>1. IInv => DeviceBound
  BY DEF IInv
<1> QED
  BY <1>1, Invariance, PTL

\* config.go:22: no rotation extends a demo login.
THEOREM DemoLoginsAreCapped == Spec => []DemoDeadline
<1>1. IInv => DemoDeadline
  BY DEF IInv
<1> QED
  BY <1>1, Invariance, PTL

-----------------------------------------------------------------------------
(* RefreshTokens implements SessionFamily: every step opens a session,     *)
(* hands one over, closes some, or leaves all of them as they were.        *)

SessionStep == Sessions!Next \/ UNCHANGED [f \in Tokens |-> SessionState(f)]

\* A claimed and a working token of one session exclude each other.
LEMMA HeldExcludesExchanged ==
  ASSUME IInv, NEW f \in Tokens
  PROVE  ~(Held(f) /\ Exchanged(f))
BY DEF IInv, LinearFamily, Held, Exchanged

\* Where no session gains a working token or a request, some of them close.
LEMMA FadingCloses ==
  ASSUME IInv, family' = family,
         \A f \in Tokens : /\ Held(f)' => Held(f)
                           /\ Exchanged(f)' => Exchanged(f)
  PROVE  SessionStep
<1> DEFINE S == {f \in Tokens : SessionState(f)' # SessionState(f)}
<1>1. \A f \in Tokens : SessionState(f) \in {"held", "exchanged"} \/ f \notin S
  BY DEF SessionState
<1>2. \A f \in S : SessionState(f)' = "closed"
  BY HeldExcludesExchanged DEF SessionState
<1>3. Sessions!Close(S)
  BY <1>1, <1>2 DEF Sessions!Close
<1> QED
  BY <1>3 DEF SessionStep, Sessions!Next

\* A move of one session is a step of SessionFamily.
LEMMA MoveIsAStep ==
  ASSUME NEW f \in Tokens, NEW from, NEW to,
         SessionState(f) = from, SessionState(f)' = to,
         \A g \in Tokens : g # f => SessionState(g)' = SessionState(g)
  PROVE  Sessions!Move(f, from, to)
BY DEF Sessions!Move

\* Claiming a token takes its session out of the browser's hands.
LEMMA ClaimTakes ==
  ASSUME IInv, NEW r \in Requests, NEW t \in Tokens, NEW d \in Devices,
         RotateClaim(r, t, d)
  PROVE  SessionStep
<1> DEFINE f == family[t]
<1>1. /\ call[r].pc = "idle" /\ Live(t) /\ family' = family
      /\ f \in Tokens /\ family[f] = f
  BY DEF RotateClaim, Presents, At, Claimable, IInv, Provenance, Minted, history
<1>2. /\ call'[r].pc = "claimed" /\ call'[r].token = t
      /\ \A q \in Requests : q # r => call'[q] = call[q]
  BY DEF RotateClaim, Begin, IInv, TypeOK
<1>3. /\ rows'[t] = [rows[t] EXCEPT !.revoked = TRUE]
      /\ \A n \in Tokens : n # t => rows'[n] = rows[n]
      /\ rows[t] \in Row
  BY <1>1 DEF RotateClaim, Revoked, IInv, TypeOK, Live, Stored
<1>4. \A n \in Tokens : Live(n)' <=> Live(n) /\ n # t
  BY <1>3 DEF Live, Stored, Row
<1>5. \A q \in Requests : Rotating(q)' <=> Rotating(q) \/ q = r
  BY <1>2 DEF Rotating
<1>6. Held(f) /\ ~Held(f)' /\ Exchanged(f)'
  BY <1>1, <1>2, <1>4, <1>5 DEF Held, Exchanged, IInv, LinearFamily
<1>7. \A g \in Tokens : g # f => /\ Held(g)' <=> Held(g)
                                 /\ Exchanged(g)' <=> Exchanged(g)
  <2>1. \A g \in Tokens : g # f => (Held(g)' <=> Held(g))
    BY <1>1, <1>4 DEF Held
  <2>2. \A g \in Tokens : g # f => (Exchanged(g)' <=> Exchanged(g))
    BY <1>1, <1>2, <1>5 DEF Exchanged, Rotating
  <2> QED
    BY <2>1, <2>2
<1>8. /\ SessionState(f) = "held" /\ SessionState(f)' = "exchanged"
      /\ \A g \in Tokens : g # f => SessionState(g)' = SessionState(g)
  BY <1>1, <1>6, <1>7 DEF SessionState
<1>9. Sessions!Take(f)
  BY <1>1, <1>8, MoveIsAStep DEF Sessions!Take
<1> QED
  BY <1>1, <1>9 DEF SessionStep, Sessions!Next

\* Storing the replacement gives the session back.
LEMMA ReplaceGives ==
  ASSUME IInv, NEW r \in Requests, NEW n \in Tokens, NEW outcome \in Outcomes,
         Replaces(r, n, outcome)
  PROVE  SessionStep
<1> USE DEF Replaces
<1>0. PICK t \in Tokens, f \in Tokens : t = call[r].token /\ f = family[t]
  BY DEF IInv, CallsSound, Minted
<1>1. /\ family[f] = f /\ Rotating(r)
      /\ ~Stored(n) /\ family[n] = NoToken /\ n # f /\ n # t
  BY <1>0, NoTokenAssumption DEF IInv, CallsSound, Provenance, Minted, Rotating,
                                 Replace, Insert, Fresh
<1>2. /\ call'[r].pc \notin {"claimed", "insert"}
      /\ \A q \in Requests : q # r => call'[q] = call[q]
  BY DEF Return, Idle, IInv, TypeOK, Outcomes
<1>3. /\ family'[n] = f
      /\ \A m \in Tokens : m # n => family'[m] = family[m]
      /\ \A m \in Tokens : m # n => rows'[m] = rows[m]
  BY <1>0 DEF Replace, Insert, IInv, TypeOK
<1>4. Live(n)'
  <2>1. rows'[n] = [user |-> call[r].row.user, device |-> call[r].device,
                    expiresAt |-> ReplacementExpiry(r), revoked |-> FALSE]
    BY DEF Replace, Insert, IInv, TypeOK
  <2>3. rows'[n].revoked = FALSE
    BY <2>1
  <2>2. rows'[n] \in Row
    <3>1. call[r].row \in Row
      BY DEF IInv, CallsSound, TypeOK, Call
    <3>3. call[r].device \in Devices
      BY <3>1 DEF IInv, CallsSound, SameDevice, Row
    <3> QED
      BY <2>1, <3>1, <3>3, TTLAssumption DEF ReplacementExpiry, Row, IInv, TypeOK
  <2> QED
    BY <2>2, <2>3, NoRowAssumption DEF Live, Stored
<1>5. \A m \in Tokens : m # n => (Live(m)' <=> Live(m))
  BY <1>3 DEF Live, Stored
<1>6. \A q \in Requests : Rotating(q)' <=> Rotating(q) /\ q # r
  BY <1>2 DEF Rotating
<1>7. \A q \in Requests : Rotating(q) => call[q].token \in Tokens /\ call[q].token # n
  BY <1>1, NoTokenAssumption DEF IInv, CallsSound, Rotating, Minted
<1>8. /\ Exchanged(f) /\ ~Held(f) /\ Held(f)' /\ ~Exchanged(f)'
  <2>1. Exchanged(f) /\ ~Held(f)
    BY <1>0, <1>1, HeldExcludesExchanged DEF Exchanged
  <2>2. Held(f)'
    BY <1>3, <1>4 DEF Held
  <2>3. ~Exchanged(f)'
    BY <1>0, <1>1, <1>2, <1>3, <1>6, <1>7 DEF Exchanged, IInv, LinearFamily
  <2> QED
    BY <2>1, <2>2, <2>3
<1>9. \A g \in Tokens : g # f => /\ Held(g)' <=> Held(g)
                                 /\ Exchanged(g)' <=> Exchanged(g)
  <2>1. \A g \in Tokens : g # f => (Held(g)' <=> Held(g))
    BY <1>1, <1>3, <1>5 DEF Held, Live
  <2>2. \A g \in Tokens : g # f => (Exchanged(g)' <=> Exchanged(g))
    BY <1>0, <1>1, <1>2, <1>3, <1>6, <1>7 DEF Exchanged
  <2> QED
    BY <2>1, <2>2
<1>10. /\ SessionState(f) = "exchanged" /\ SessionState(f)' = "held"
       /\ \A g \in Tokens : g # f => SessionState(g)' = SessionState(g)
  <2>1. SessionState(n) = "unopened" /\ SessionState(n)' = "unopened"
    BY <1>1, <1>3, NoTokenAssumption DEF SessionState
  <2> QED
    BY <1>1, <1>3, <1>8, <1>9, <2>1 DEF SessionState
<1>11. Sessions!Give(f)
  BY <1>1, <1>10, MoveIsAStep DEF Sessions!Give
<1> QED
  BY <1>1, <1>11 DEF SessionStep, Sessions!Next

\* A new token without a predecessor opens a session.
LEMMA InsertOpens ==
  ASSUME IInv, NEW n \in Tokens, NEW u \in Users, NEW d \in Devices, NEW exp \in Nat,
         Opens(n, u, d, exp)
  PROVE  SessionStep
<1> USE DEF Opens
<1>1. /\ ~Stored(n) /\ family[n] = NoToken
      /\ \A m \in Tokens : family[m] # n
  BY NoTokenAssumption DEF IInv, TypeOK, Provenance, Minted, Insert, Fresh
<1>2. /\ family'[n] = n
      /\ \A m \in Tokens : m # n => family'[m] = family[m]
      /\ \A m \in Tokens : m # n => rows'[m] = rows[m]
  BY DEF Insert, IInv, TypeOK
<1>3. Live(n)'
  <2>1. rows'[n] = [user |-> u, device |-> d, expiresAt |-> exp, revoked |-> FALSE]
    BY DEF Insert, IInv, TypeOK
  <2>3. rows'[n].revoked = FALSE
    BY <2>1
  <2>2. rows'[n] \in Row
    BY <2>1 DEF Row
  <2> QED
    BY <2>2, <2>3, NoRowAssumption DEF Live, Stored
<1>4. \A m \in Tokens : m # n => (Live(m)' <=> Live(m))
  BY <1>2 DEF Live, Stored
<1>5. \A q \in Requests : /\ Rotating(q)' <=> Rotating(q)
                          /\ Rotating(q) => /\ call[q].token \in Tokens
                                            /\ call[q].token # n
  BY <1>1, NoTokenAssumption DEF IInv, CallsSound, Rotating, Minted
<1>6. Held(n)'
  BY <1>2, <1>3 DEF Held
<1>7. \A g \in Tokens : g # n => /\ Held(g)' <=> Held(g)
                                 /\ Exchanged(g)' <=> Exchanged(g)
  <2>1. \A g \in Tokens : g # n => (Held(g)' <=> Held(g))
    BY <1>1, <1>2, <1>4 DEF Held, Live
  <2>2. \A g \in Tokens : g # n => (Exchanged(g)' <=> Exchanged(g))
    BY <1>2, <1>5 DEF Exchanged
  <2> QED
    BY <2>1, <2>2
<1>8. /\ SessionState(n) = "unopened" /\ SessionState(n)' = "held"
      /\ \A g \in Tokens : g # n => SessionState(g)' = SessionState(g)
  BY <1>1, <1>2, <1>6, <1>7, NoTokenAssumption DEF SessionState
<1>9. Sessions!Open(n)
  BY <1>8, MoveIsAStep DEF Sessions!Open
<1> QED
  BY <1>9 DEF SessionStep, Sessions!Next

\* Waning, at the level of sessions.
LEMMA WaningFades ==
  ASSUME IInv, Waning
  PROVE  SessionStep
<1>1. \A n \in Tokens : Live(n)' => Live(n)
  BY DEF Waning, OnlyRevokes, Live, Stored
<1>2. \A q \in Requests : Rotating(q)' => Rotating(q) /\ call'[q] = call[q]
  BY DEF Waning, NoNewRotation, Rotating
<1>3. family' = family
  BY DEF Waning, history
<1>4. \A f \in Tokens : (Held(f)' => Held(f)) /\ (Exchanged(f)' => Exchanged(f))
  BY <1>1, <1>2, <1>3 DEF Held, Exchanged
<1> QED
  BY <1>3, <1>4, FadingCloses

\* Changing a role or deleting an account ends sessions at most.
LEMMA AccountsFade ==
  ASSUME IInv, NEW u \in Users, SetUserRole(u) \/ DeleteUser(u)
  PROVE  SessionStep
<1>1. /\ family' = family /\ call' = call
      /\ \A n \in Tokens : rows'[n] = rows[n] \/ rows'[n] = NoRow
  BY DEF SetUserRole, DeleteUser, history
<1>2. \A n \in Tokens : Live(n)' => Live(n)
  BY <1>1 DEF Live, Stored
<1>3. \A f \in Tokens : (Held(f)' => Held(f)) /\ (Exchanged(f)' => Exchanged(f))
  BY <1>1, <1>2 DEF Held, Exchanged, Rotating
<1> QED
  BY <1>1, <1>3, FadingCloses

\* Reading the role moves a rotation on, within its session.
LEMMA RoleStands ==
  ASSUME IInv, NEW r \in Requests, RotateRole(r), KnownRole(role[call[r].row.user])
  PROVE  SessionStep
<1>1. /\ call[r] \in Call /\ family' = family /\ rows' = rows
      /\ call' = [call EXCEPT ![r] = [@ EXCEPT !.pc = "insert",
                                              !.role = role[call[r].row.user]]]
  BY DEF RotateRole, history, IInv, TypeOK
<1>2. call'[r] = [call[r] EXCEPT !.pc = "insert", !.role = role[call[r].row.user]]
  BY <1>1 DEF IInv, TypeOK
<1>3. /\ call'[r].token = call[r].token
      /\ \A q \in Requests : q # r => call'[q] = call[q]
  BY <1>1, <1>2 DEF Call, IInv, TypeOK
<1>4. \A q \in Requests : Rotating(q)' => Rotating(q)
  BY <1>3 DEF Rotating, RotateRole, At
<1>5. \A f \in Tokens : (Held(f)' => Held(f)) /\ (Exchanged(f)' => Exchanged(f))
  BY <1>1, <1>3, <1>4 DEF Held, Exchanged, Live, Stored
<1> QED
  BY <1>1, <1>5, FadingCloses

LEMMA StepIsSessionStep ==
  ASSUME IInv, [Next]_vars
  PROVE  SessionStep
BY StepKinds, WaningFades, ClaimTakes, RoleStands, ReplaceGives, InsertOpens, AccountsFade

LEMMA InitIsSessionInit == Init => Sessions!Init
<1> SUFFICES ASSUME Init PROVE \A f \in Tokens : SessionState(f) = "unopened"
  BY DEF Sessions!Init
<1> QED
  BY NoTokenAssumption DEF Init, SessionState

-----------------------------------------------------------------------------
(* The results.                                                            *)

\* service.go implements SessionFamily: sessions open once, one request at a
\* time exchanges a token, and what was closed stays closed.
THEOREM Refinement == Spec => ImplementsSessions
<1>1. Init => Sessions!Init
  BY InitIsSessionInit
<1>2. IInv /\ [Next]_vars => [Sessions!Next]_([f \in Tokens |-> SessionState(f)])
  BY StepIsSessionStep DEF SessionStep
<1> QED
  BY <1>1, <1>2, Invariance, PTL DEF Spec, ImplementsSessions, Sessions!Spec

\* A step of SessionFamily reopens nothing.
LEMMA SessionStepKeepsClosed ==
  ASSUME SessionStep, NEW f \in Tokens, SessionState(f) = "closed"
  PROVE  SessionState(f)' = "closed"
<1> DEFINE st == [g \in Tokens |-> SessionState(g)]
<1>1. CASE UNCHANGED st
  BY <1>1
<1>2. CASE \E g \in Tokens, from \in {"unopened", "held", "exchanged"},
              to \in {"held", "exchanged"} : Sessions!Move(g, from, to)
  BY <1>2 DEF Sessions!Move
<1>3. CASE \E S \in SUBSET Tokens : Sessions!Close(S)
  BY <1>3 DEF Sessions!Close
<1> QED
  BY <1>1, <1>2, <1>3 DEF SessionStep, Sessions!Next, Sessions!Open, Sessions!Take,
                          Sessions!Give

\* A session that was logged out, revoked, lost or deleted never works again,
\* whatever a call that began earlier still does.
THEOREM EndedSessionsStayEnded == Spec => DeadStaysDead
<1>1. ASSUME IInv, [Next]_vars
      PROVE  [\A f \in Tokens : family[f] = f /\ ~Held(f) /\ ~Exchanged(f)
                => ~Held(f)' /\ ~Exchanged(f)']_vars
  <2> SUFFICES ASSUME NEW f \in Tokens, family[f] = f, ~Held(f), ~Exchanged(f)
               PROVE  ~Held(f)' /\ ~Exchanged(f)'
    OBVIOUS
  <2>1. SessionState(f) = "closed"
    BY DEF SessionState
  <2>2. SessionState(f)' = "closed"
    BY <1>1, <2>1, StepIsSessionStep, SessionStepKeepsClosed
  <2> QED
    BY <2>2 DEF SessionState
<1> QED
  BY <1>1, Invariance, PTL DEF Spec, DeadStaysDead
=============================================================================
