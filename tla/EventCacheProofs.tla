-------------------------- MODULE EventCacheProofs --------------------------
(***************************************************************************)
(* The invariant of EventCache is inductive: an item never expires later   *)
(* than TTL after a request in time stored it, and a request in time holds *)
(* nothing older than MaxStall.                                            *)
(***************************************************************************)
EXTENDS EventCache, TLAPS

LEMMA PageFields ==
  ASSUME TypeOK, NEW r \in Requests, ~At(r, "idle")
  PROVE  /\ req[r] \in Page
         /\ req[r].fetched \in Nat /\ req[r].full \in BOOLEAN
         /\ req[r].out \in [Events -> Answer \cup {None}]
         /\ req[r].event \in Events \cup {None}
         /\ req[r].left \subseteq Events
BY DEF TypeOK, Request, Page, At

-----------------------------------------------------------------------------
(* The parts of the invariant.                                             *)

PagePart == FreshEnough /\ OutagePasses /\ CompleteAnswer /\ PagesSound
ItemPart == ClearHolds /\ ItemsSound /\ TouchedSound /\ HistorySound

\* A page that is as it should be, at an instant when no query fails.
PageSound(p) ==
  /\ p.fetched <= now /\ now <= p.fetched + MaxStall
  /\ ~p.full => p.fetched <= lastFailure'
  /\ p.pc \in {"delete", "transform"} => p.event # None
  /\ \A e \in Events : p.out[e] # None =>
       /\ p.out[e].at <= p.out[e].fetched + MaxStall + TTL
       /\ ~p.out[e].full => p.out[e].at <= lastFailure' + MaxStall + TTL
  /\ \A e \in Events : p.out[e] = None =>
       e \in p.left \cup p.bare \/ e \notin p.listed

\* One request goes on.
LEMMA PageKeeps ==
  ASSUME IInv, NEW r \in Requests, NEW p \in Request,
         req' = [req EXCEPT ![r] = p], now' = now,
         lastFailure' = lastFailure \/ lastFailure' = now,
         p.pc = "idle" \/ PageSound(p)
  PROVE  PagePart' /\ req' \in [Requests -> Request] /\ lastFailure' \in Nat
<1>0. req \in [Requests -> Request] /\ lastFailure \in Nat /\ now \in Nat
  BY DEF IInv, TypeOK
<1>1. req'[r] = p /\ \A q \in Requests \ {r} : req'[q] = req[q]
  BY <1>0
<1>2. lastFailure' \in Nat /\ lastFailure <= lastFailure'
  BY <1>0 DEF IInv, HistorySound
<1>3. \A q \in Requests \ {r}, e \in Events :
         ~At(q, "idle") => /\ req[q].fetched \in Nat
                           /\ req[q].out[e] # None => req[q].out[e] \in Answer
  BY PageFields DEF IInv
<1>4. FreshEnough'
  BY <1>1 DEF IInv, FreshEnough, Answered, At, PageSound
<1>5. OutagePasses'
  <2> SUFFICES ASSUME NEW q \in Requests, NEW e \in Events,
                      Answered(q, e)', ~req'[q].out[e].full
               PROVE  req'[q].out[e].at <= lastFailure' + MaxStall + TTL
    BY DEF OutagePasses
  <2>1. CASE q = r
    BY <1>1, <2>1 DEF Answered, At, PageSound
  <2>2. CASE q # r
    <3>1. /\ req[q].out[e].at <= lastFailure + MaxStall + TTL
          /\ req[q].out[e] \in Answer
      BY <1>1, <1>3, <2>2 DEF IInv, OutagePasses, Answered, At
    <3> QED
      BY <1>0, <1>1, <1>2, <2>2, <3>1, BoundsAssumption DEF Answer
  <2> QED
    BY <2>1, <2>2
<1>6. CompleteAnswer'
  BY <1>1 DEF IInv, CompleteAnswer, At, PageSound
<1>7. PagesSound'
  BY <1>0, <1>1, <1>2, <1>3 DEF IInv, PagesSound, At, PageSound
<1> QED
  BY <1>0, <1>1, <1>2, <1>4, <1>5, <1>6, <1>7 DEF PagePart

-----------------------------------------------------------------------------
(* The steps of a request.                                                 *)

LEMMA OldPageSound ==
  ASSUME IInv, NEW r \in Requests, ~At(r, "idle"),
         lastFailure' = lastFailure \/ lastFailure' = now
  PROVE  /\ \A e \in Events : req[r].out[e] # None =>
              /\ req[r].out[e].at <= req[r].out[e].fetched + MaxStall + TTL
              /\ ~req[r].out[e].full => req[r].out[e].at <= lastFailure' + MaxStall + TTL
         /\ \A e \in Events : req[r].out[e] = None =>
              e \in req[r].left \cup req[r].bare \/ e \notin req[r].listed
         /\ req[r].fetched <= now /\ now <= req[r].fetched + MaxStall
         /\ ~req[r].full => req[r].fetched <= lastFailure'
<1>1. \A e \in Events : req[r].out[e] # None => req[r].out[e] \in Answer
  BY PageFields DEF IInv
<1>2. lastFailure \in Nat /\ lastFailure' \in Nat /\ lastFailure <= lastFailure'
      /\ req[r].fetched \in Nat
  BY PageFields DEF IInv, TypeOK, HistorySound
<1>3. ASSUME NEW e \in Events, req[r].out[e] # None, ~req[r].out[e].full
      PROVE  req[r].out[e].at <= lastFailure' + MaxStall + TTL
  <2>1. req[r].out[e].at <= lastFailure + MaxStall + TTL
    BY <1>3 DEF IInv, OutagePasses, Answered
  <2> QED
    BY <1>1, <1>2, <1>3, <2>1, BoundsAssumption DEF Answer
<1>4. /\ req[r].fetched <= now /\ now <= req[r].fetched + MaxStall
      /\ ~req[r].full => req[r].fetched <= lastFailure
  BY DEF IInv, PagesSound
<1>5. ~req[r].full => req[r].fetched <= lastFailure'
  BY <1>2, <1>4
<1> QED
  BY <1>3, <1>4, <1>5 DEF IInv, FreshEnough, CompleteAnswer, Answered

\* The items stay, and with them what is said of them.
LEMMA ItemsKeep ==
  ASSUME IInv, UNCHANGED <<now, items, clearing, touched, clearedAt>>,
         lastFailure' = lastFailure \/ lastFailure' = now
  PROVE  ItemPart' /\ items' \in [Events -> Item \cup {None}]
<1>1. items \in [Events -> Item \cup {None}] /\ lastFailure \in Nat /\ now \in Nat
  BY DEF IInv, TypeOK
<1>2. lastFailure <= lastFailure' /\ lastFailure' <= now /\ lastFailure' \in Nat
  BY <1>1 DEF IInv, HistorySound
<1>3. ItemsSound'
  <2>1. \A e \in Events : Cached(e) => items[e] \in Item
    BY <1>1 DEF Cached
  <2> QED
    BY <1>1, <1>2, <2>1 DEF IInv, ItemsSound, Cached, Item
<1> QED
  BY <1>1, <1>2, <1>3
  DEF ItemPart, IInv, ClearHolds, TouchedSound, HistorySound, Cached

\* Another step of the page comes next.
LEMMA GotoKeeps ==
  ASSUME IInv, NEW r \in Requests, ~At(r, "idle"),
         NEW pc \in {"leagues", "teams", "events", "delete", "transform"},
         NEW e \in Events \cup {None}, Goto(r, pc, e),
         pc \in {"delete", "transform"} => e # None,
         now' = now, lastFailure' = lastFailure
  PROVE  PagePart' /\ req' \in [Requests -> Request] /\ lastFailure' \in Nat
<1> DEFINE p == [req[r] EXCEPT !.pc = pc, !.event = e]
<1>1. req[r] \in Page
  BY PageFields DEF IInv
<1>2. /\ p \in Page /\ p.pc = pc /\ p.event = e
      /\ p.out = req[r].out /\ p.fetched = req[r].fetched
      /\ p.full = req[r].full /\ p.left = req[r].left /\ p.bare = req[r].bare
      /\ p.listed = req[r].listed
  BY <1>1 DEF Page
<1>3. req' = [req EXCEPT ![r] = p]
  BY DEF Goto
<1> HIDE DEF p
<1>4. PageSound(p)
  BY <1>2, OldPageSound DEF PageSound
<1> QED
  BY <1>2, <1>3, <1>4, PageKeeps DEF Request

\* Event e is dealt with.
LEMMA DoneKeeps ==
  ASSUME IInv, NEW r \in Requests, ~At(r, "idle"), NEW e \in Events,
         NEW a \in Answer \cup {None}, Done(r, e, a),
         IF a = None THEN e \in req[r].bare
         ELSE /\ a.at <= a.fetched + MaxStall + TTL
              /\ ~a.full => a.at <= lastFailure + MaxStall + TTL,
         now' = now, lastFailure' = lastFailure
  PROVE  PagePart' /\ req' \in [Requests -> Request] /\ lastFailure' \in Nat
<1> DEFINE p == [req[r] EXCEPT !.pc = "events", !.event = None,
                               !.left = req[r].left \ {e}, !.out[e] = a]
<1>1. /\ req[r] \in Page
      /\ req[r].out \in [Events -> Answer \cup {None}]
  BY PageFields DEF IInv
<1>2. /\ p \in Page /\ p.pc = "events"
      /\ p.fetched = req[r].fetched /\ p.full = req[r].full
      /\ p.bare = req[r].bare /\ p.listed = req[r].listed
      /\ p.left = req[r].left \ {e}
      /\ p.out = [req[r].out EXCEPT ![e] = a]
  BY <1>1 DEF Page
<1>3. req' = [req EXCEPT ![r] = p]
  BY DEF Done
<1> HIDE DEF p
<1>4. p.out[e] = a /\ \A d \in Events \ {e} : p.out[d] = req[r].out[d]
  BY <1>1, <1>2
<1>5. PageSound(p)
  BY <1>2, <1>4, OldPageSound DEF PageSound
<1> QED
  BY <1>2, <1>3, <1>5, PageKeeps DEF Request

LEMMA IdleKeeps ==
  ASSUME IInv, NEW r \in Requests, req' = [req EXCEPT ![r] = Idle],
         now' = now, lastFailure' = lastFailure
  PROVE  PagePart' /\ req' \in [Requests -> Request] /\ lastFailure' \in Nat
BY PageKeeps DEF Idle, Request

LEMMA FetchKeeps ==
  ASSUME IInv, NEW r \in Requests, NEW listed \in SUBSET Events, NEW bare \in SUBSET Events,
         Fetch(r, listed, bare)
  PROVE  IInv'
<1> DEFINE p == [pc |-> "leagues", fetched |-> now, full |-> TRUE,
                 listed |-> listed, bare |-> bare, left |-> listed, event |-> None,
                 out |-> [e \in Events |-> None]]
<1>1. now \in Nat
  BY DEF IInv, TypeOK
<1>2. p \in Page
  BY <1>1 DEF Page
<1>3. PageSound(p)
  BY <1>1, BoundsAssumption DEF PageSound
<1>4. req' = [req EXCEPT ![r] = p]
      /\ UNCHANGED <<now, items, clearing, touched, clearedAt, lastFailure>>
  BY DEF Fetch
<1> HIDE DEF p
<1>5. PagePart' /\ req' \in [Requests -> Request] /\ lastFailure' \in Nat
  BY <1>2, <1>3, <1>4, PageKeeps DEF Request
<1>6. ItemPart'
  BY <1>4, ItemsKeep
<1> QED
  BY <1>4, <1>5, <1>6 DEF IInv, PagePart, ItemPart, TypeOK

LEMMA QueryKeeps ==
  ASSUME IInv, NEW r \in Requests, QueryAllLeagues(r) \/ QueryTeamsResolved(r)
  PROVE  IInv'
<1>1. PICK next \in {"teams", "events"} :
         /\ req[r].pc \in {"leagues", "teams"}
         /\ \/ Goto(r, next, None) /\ UNCHANGED lastFailure
            \/ /\ req' = [req EXCEPT ![r] = [@ EXCEPT !.pc = next, !.full = FALSE]]
               /\ lastFailure' = now
         /\ UNCHANGED <<now, items, clearing, touched, clearedAt>>
  BY DEF QueryAllLeagues, QueryTeamsResolved, Query, At
<1>2. ~At(r, "idle")
  BY <1>1 DEF At
<1>3. ItemPart'
  BY <1>1, ItemsKeep
<1>4. PagePart' /\ req' \in [Requests -> Request] /\ lastFailure' \in Nat
  <2>1. CASE Goto(r, next, None) /\ UNCHANGED lastFailure
    BY <1>1, <1>2, <2>1, GotoKeeps
  <2>2. CASE /\ req' = [req EXCEPT ![r] = [@ EXCEPT !.pc = next, !.full = FALSE]]
             /\ lastFailure' = now
    <3> DEFINE p == [req[r] EXCEPT !.pc = next, !.full = FALSE]
    <3>1. req[r] \in Page
      BY <1>2, PageFields DEF IInv
    <3>2. /\ p \in Page /\ p.pc = next /\ p.out = req[r].out /\ p.fetched = req[r].fetched
          /\ p.left = req[r].left /\ p.bare = req[r].bare /\ p.listed = req[r].listed
      BY <3>1 DEF Page
    <3>3. req' = [req EXCEPT ![r] = p]
      BY <2>2
    <3> HIDE DEF p
    <3>4. PageSound(p)
      BY <1>1, <1>2, <2>2, <3>2, OldPageSound DEF PageSound
    <3> QED
      BY <1>1, <2>2, <3>2, <3>3, <3>4, PageKeeps DEF Request
  <2> QED
    BY <1>1, <2>1, <2>2
<1> QED
  BY <1>1, <1>3, <1>4 DEF IInv, PagePart, ItemPart, TypeOK

LEMMA LoadKeeps ==
  ASSUME IInv, NEW r \in Requests, NEW e \in Events, Load(r, e)
  PROVE  IInv'
<1>1. /\ ~At(r, "idle")
      /\ UNCHANGED <<now, items, clearing, touched, clearedAt, lastFailure>>
  BY DEF Load, At
<1>2. e # None
  BY NoneAssumption
<1>3. ItemPart'
  BY <1>1, ItemsKeep
<1>4. PagePart' /\ req' \in [Requests -> Request] /\ lastFailure' \in Nat
  <2> DEFINE a == [fetched |-> items[e].fetched, full |-> items[e].full, at |-> now]
  <2>1. CASE Cached(e) /\ Current(e) /\ Done(r, e, a)
    <3>1. items[e] \in Item /\ now \in Nat /\ lastFailure \in Nat
      BY <2>1 DEF IInv, TypeOK, Cached
    <3>2. a \in Answer
      BY <3>1 DEF Answer, Item
    <3>3. a # None
      BY <3>2, NoneAssumption
    <3>4. /\ a.at <= a.fetched + MaxStall + TTL
          /\ ~a.full => a.at <= lastFailure + MaxStall + TTL
      BY <2>1, <3>1, BoundsAssumption DEF IInv, ItemsSound, Current, Item
    <3> QED
      BY <1>1, <2>1, <3>2, <3>3, <3>4, DoneKeeps
  <2>2. CASE Goto(r, "delete", e)
    BY <1>1, <1>2, <2>2, GotoKeeps
  <2>3. CASE Goto(r, "transform", e)
    BY <1>1, <1>2, <2>3, GotoKeeps
  <2> QED
    BY <2>1, <2>2, <2>3 DEF Load
<1> QED
  BY <1>1, <1>3, <1>4 DEF IInv, PagePart, ItemPart, TypeOK

\* Removing an item leaves nothing to say of it.
LEMMA DeleteKeeps ==
  ASSUME IInv, NEW r \in Requests, Delete(r)
  PROVE  IInv'
<1> DEFINE e == req[r].event
<1>1. /\ ~At(r, "idle") /\ Goto(r, "transform", e)
      /\ UNCHANGED <<now, clearing, touched, clearedAt, lastFailure>>
  BY DEF Delete, At
<1>2. e \in Events /\ e # None
  BY <1>1, PageFields DEF IInv, PagesSound, Delete, At
<1>3. PagePart' /\ req' \in [Requests -> Request] /\ lastFailure' \in Nat
  BY <1>1, <1>2, GotoKeeps
<1>4. items \in [Events -> Item \cup {None}]
  BY DEF IInv, TypeOK
<1>5. /\ items' \in [Events -> Item \cup {None}]
      /\ \A d \in Events : items'[d] = items[d] \/ items'[d] = None
  BY <1>4 DEF Delete
<1>6. ItemPart'
  BY <1>1, <1>5
  DEF IInv, TypeOK, ItemPart, ClearHolds, ItemsSound, TouchedSound, HistorySound, Cached
<1> QED
  BY <1>1, <1>3, <1>5, <1>6 DEF IInv, PagePart, ItemPart, TypeOK

LEMMA SkipKeeps ==
  ASSUME IInv, NEW r \in Requests, Skip(r)
  PROVE  IInv'
<1> DEFINE e == req[r].event
<1>1. /\ ~At(r, "idle") /\ e \in req[r].bare /\ Done(r, e, None)
      /\ UNCHANGED <<now, items, clearing, touched, clearedAt, lastFailure>>
  BY DEF Skip, At
<1>2. e \in Events
  BY <1>1, PageFields DEF IInv, Page
<1>3. PagePart' /\ req' \in [Requests -> Request] /\ lastFailure' \in Nat
  BY <1>1, <1>2, DoneKeeps
<1>4. ItemPart'
  BY <1>1, ItemsKeep
<1> QED
  BY <1>1, <1>3, <1>4 DEF IInv, PagePart, ItemPart, TypeOK

\* A request in time stores what was fetched at most MaxStall ago.
LEMMA SetKeeps ==
  ASSUME IInv, NEW r \in Requests, Set(r)
  PROVE  IInv'
<1> DEFINE e == req[r].event
           a == [fetched |-> req[r].fetched, full |-> req[r].full, at |-> now]
           i == [fetched |-> req[r].fetched, full |-> req[r].full,
                 expiresAt |-> now + TTL]
<1>1. /\ ~At(r, "idle") /\ Done(r, e, a)
      /\ UNCHANGED <<now, clearing, clearedAt, lastFailure>>
      /\ \/ /\ items' = [items EXCEPT ![e] = i]
            /\ touched' = IF clearing THEN touched \cup {e} ELSE touched
         \/ UNCHANGED <<items, touched>>
  BY DEF Set, At, Expiry
<1>2. /\ req[r].fetched \in Nat /\ req[r].full \in BOOLEAN
      /\ now \in Nat /\ clearedAt \in Nat /\ lastFailure \in Nat
  BY <1>1, PageFields DEF IInv, TypeOK
<1>3. /\ req[r].fetched <= now /\ now <= req[r].fetched + MaxStall
      /\ ~req[r].full => req[r].fetched <= lastFailure
      /\ e \in Events
  BY <1>1, PageFields DEF IInv, PagesSound, Set, At
<1>4. a \in Answer /\ a # None /\ i \in Item
  BY <1>2, NoneAssumption, BoundsAssumption DEF Answer, Item
<1>5. /\ a.at <= a.fetched + MaxStall + TTL
      /\ ~a.full => a.at <= lastFailure + MaxStall + TTL
  BY <1>2, <1>3, BoundsAssumption
<1>6. /\ i.expiresAt <= i.fetched + MaxStall + TTL
      /\ ~i.full => i.fetched <= lastFailure
      /\ clearedAt <= i.fetched + MaxStall
  BY <1>2, <1>3, BoundsAssumption DEF IInv, HistorySound
<1>7. PagePart' /\ req' \in [Requests -> Request] /\ lastFailure' \in Nat
  <2> HIDE DEF a
  <2> QED
    BY <1>1, <1>3, <1>4, <1>5, DoneKeeps
<1>8. ItemPart' /\ items' \in [Events -> Item \cup {None}] /\ touched' \subseteq Events
  <2>1. CASE UNCHANGED <<items, touched>>
    <3>1. UNCHANGED <<now, items, clearing, touched, clearedAt>>
      BY <1>1, <2>1
    <3> QED
      BY <1>1, <3>1, ItemsKeep DEF IInv, TypeOK
  <2>2. CASE /\ items' = [items EXCEPT ![e] = i]
             /\ touched' = IF clearing THEN touched \cup {e} ELSE touched
    <3> HIDE DEF i, e
    <3>1. items \in [Events -> Item \cup {None}] /\ touched \subseteq Events
      BY DEF IInv, TypeOK
    <3>2. items'[e] = i /\ \A d \in Events \ {e} : items'[d] = items[d]
      BY <1>3, <2>2, <3>1
    <3>3. \A d \in touched' : d = e \/ d \in touched
      BY <2>2
    <3>4. ClearHolds' /\ ItemsSound' /\ HistorySound'
      BY <1>1, <1>6, <3>2
      DEF IInv, ClearHolds, ItemsSound, HistorySound, Cached
    <3>5. TouchedSound'
      BY <1>1, <1>6, <3>1, <3>2, <3>3 DEF IInv, TouchedSound, Cached
    <3> QED
      BY <1>3, <1>4, <2>2, <3>1, <3>4, <3>5 DEF ItemPart
  <2> QED
    BY <1>1, <2>1, <2>2
<1> QED
  BY <1>1, <1>7, <1>8 DEF IInv, PagePart, ItemPart, TypeOK

LEMMA LeaveKeeps ==
  ASSUME IInv, NEW r \in Requests, Respond(r) \/ Panic(r)
  PROVE  IInv'
<1>1. /\ req' = [req EXCEPT ![r] = Idle]
      /\ UNCHANGED <<now, items, clearing, touched, clearedAt, lastFailure>>
  BY DEF Respond, Panic
<1>2. PagePart' /\ req' \in [Requests -> Request] /\ lastFailure' \in Nat
  BY <1>1, IdleKeeps
<1>3. ItemPart'
  BY <1>1, ItemsKeep
<1> QED
  BY <1>1, <1>2, <1>3 DEF IInv, PagePart, ItemPart, TypeOK

-----------------------------------------------------------------------------
(* The steps of the operator, the process and the clock.                   *)

\* No request changes.
LEMMA PagesKeep ==
  ASSUME IInv, UNCHANGED <<now, req, lastFailure>>
  PROVE  PagePart' /\ req' \in [Requests -> Request]
BY DEF IInv, TypeOK, PagePart, FreshEnough, OutagePasses, CompleteAnswer,
       PagesSound, Answered, At

LEMMA ClearBeginsKeeps == ASSUME IInv, ClearBegins PROVE IInv'
<1>1. /\ clearing' = TRUE /\ touched' = {} /\ clearedAt' = now
      /\ UNCHANGED <<now, items, req, lastFailure>>
  BY DEF ClearBegins
<1>2. PagePart' /\ req' \in [Requests -> Request]
  BY <1>1, PagesKeep
<1>3. ItemPart'
  BY <1>1 DEF IInv, TypeOK, ItemPart, ClearHolds, ItemsSound, TouchedSound,
              HistorySound, Cached
<1> QED
  BY <1>1, <1>2, <1>3 DEF IInv, PagePart, ItemPart, TypeOK

\* What is left in the cache was stored while the Clear was executed.
LEMMA ClearEndsKeeps == ASSUME IInv, ClearEnds PROVE IInv'
<1>1. PICK kept \in SUBSET touched :
        /\ items' = Emptied(kept) /\ clearing' = FALSE /\ touched' = {}
        /\ UNCHANGED <<now, req, clearedAt, lastFailure>>
  BY DEF ClearEnds
<1>2. PagePart' /\ req' \in [Requests -> Request]
  BY <1>1, PagesKeep
<1>3. \A e \in Events : items'[e] = IF e \in kept THEN items[e] ELSE None
  BY <1>1 DEF Emptied
<1>4. items' \in [Events -> Item \cup {None}]
  BY <1>1 DEF IInv, TypeOK, Emptied
<1>5. ItemPart'
  BY <1>1, <1>3 DEF IInv, ItemPart, ClearHolds, ItemsSound, TouchedSound,
                    HistorySound, Cached
<1> QED
  BY <1>1, <1>2, <1>4, <1>5 DEF IInv, PagePart, ItemPart, TypeOK

LEMMA RestartKeeps == ASSUME IInv, Restart PROVE IInv'
<1>1. /\ \A e \in Events : items'[e] = None
      /\ \A r \in Requests : req'[r] = [pc |-> "idle"]
      /\ items' \in [Events -> Item \cup {None}]
      /\ req' \in [Requests -> Request]
      /\ clearing' = FALSE /\ touched' = {}
      /\ UNCHANGED <<now, clearedAt, lastFailure>>
  BY DEF Restart, Idle, Request
<1>2. PagePart'
  BY <1>1 DEF PagePart, FreshEnough, OutagePasses, CompleteAnswer, PagesSound,
              Answered, At
<1>3. ItemPart'
  BY <1>1 DEF IInv, ItemPart, ClearHolds, ItemsSound, TouchedSound, HistorySound,
              Cached
<1> QED
  BY <1>1, <1>2, <1>3 DEF IInv, PagePart, ItemPart, TypeOK

LEMMA TickKeeps == ASSUME IInv, Tick PROVE IInv'
<1>1. /\ now' = now + 1
      /\ UNCHANGED <<items, req, clearing, touched, clearedAt, lastFailure>>
      /\ \A r \in Requests : ~At(r, "idle") => now - req[r].fetched < MaxStall
  BY DEF Tick
<1>2. now \in Nat /\ clearedAt \in Nat /\ lastFailure \in Nat
  BY DEF IInv, TypeOK
<1>3. PagesSound'
  <2> SUFFICES ASSUME NEW r \in Requests, ~At(r, "idle")'
               PROVE  /\ req[r].fetched <= now + 1
                      /\ now + 1 <= req[r].fetched + MaxStall
                      /\ ~req[r].full => req[r].fetched <= lastFailure
                      /\ req[r].pc \in {"delete", "transform"} => req[r].event # None
    BY <1>1 DEF PagesSound, At
  <2>1. ~At(r, "idle") /\ now - req[r].fetched < MaxStall
    BY <1>1 DEF At
  <2>2. req[r].fetched \in Nat
    BY <2>1, PageFields DEF IInv
  <2> QED
    BY <1>2, <2>1, <2>2, BoundsAssumption DEF IInv, PagesSound
<1>4. FreshEnough' /\ OutagePasses' /\ CompleteAnswer'
  BY <1>1 DEF IInv, FreshEnough, OutagePasses, CompleteAnswer, Answered, At
<1>5. ItemPart'
  BY <1>1, <1>2 DEF IInv, ItemPart, ClearHolds, ItemsSound, TouchedSound,
                    HistorySound, Cached
<1> QED
  BY <1>1, <1>2, <1>3, <1>4, <1>5 DEF IInv, ItemPart, TypeOK

-----------------------------------------------------------------------------
(* The theorems.                                                           *)

\* The inductive invariant holds in every reachable state of the endpoint and
\* its cache, for any number of events and concurrent requests.
THEOREM Invariance == Spec => []IInv
<1>1. Init => IInv
  <2> SUFFICES ASSUME Init PROVE IInv
    OBVIOUS
  <2>1. /\ now = 0 /\ clearedAt = 0 /\ lastFailure = 0
        /\ \A e \in Events : items[e] = None
        /\ \A r \in Requests : req[r] = [pc |-> "idle"]
        /\ clearing = FALSE /\ touched = {}
    BY DEF Init, Idle
  <2>2. TypeOK
    BY DEF Init, TypeOK, Idle, Request
  <2> QED
    BY <2>1, <2>2 DEF IInv, FreshEnough, OutagePasses, ClearHolds, CompleteAnswer,
       PagesSound, ItemsSound, TouchedSound, HistorySound, Answered, At, Cached
<1>2. IInv /\ [Next]_vars => IInv'
  <2> SUFFICES ASSUME IInv, [Next]_vars PROVE IInv'
    OBVIOUS
  <2>1. CASE UNCHANGED vars
    <3>1. PagePart' /\ req' \in [Requests -> Request]
      BY <2>1, PagesKeep DEF vars
    <3>2. ItemPart'
      BY <2>1, ItemsKeep DEF vars
    <3> QED
      BY <2>1, <3>1, <3>2 DEF vars, IInv, PagePart, ItemPart, TypeOK
  <2>2. ASSUME NEW r \in Requests, NEW listed \in SUBSET Events, NEW bare \in SUBSET Events,
               Fetch(r, listed, bare)
        PROVE  IInv'
    BY <2>2, FetchKeeps
  <2>3. ASSUME NEW r \in Requests, QueryAllLeagues(r) \/ QueryTeamsResolved(r)
        PROVE  IInv'
    BY <2>3, QueryKeeps
  <2>4. ASSUME NEW r \in Requests, NEW e \in Events, Load(r, e)
        PROVE  IInv'
    BY <2>4, LoadKeeps
  <2>5. ASSUME NEW r \in Requests, Delete(r) PROVE IInv'
    BY <2>5, DeleteKeeps
  <2>6. ASSUME NEW r \in Requests, Skip(r) PROVE IInv'
    BY <2>6, SkipKeeps
  <2>7. ASSUME NEW r \in Requests, Set(r) PROVE IInv'
    BY <2>7, SetKeeps
  <2>8. ASSUME NEW r \in Requests, Respond(r) \/ Panic(r) PROVE IInv'
    BY <2>8, LeaveKeeps
  <2>9. CASE ClearBegins
    BY <2>9, ClearBeginsKeeps
  <2>10. CASE ClearEnds
    BY <2>10, ClearEndsKeeps
  <2>11. CASE Restart
    BY <2>11, RestartKeeps
  <2>12. CASE Tick
    BY <2>12, TickKeeps
  <2> QED
    BY <2>1, <2>2, <2>3, <2>4, <2>5, <2>6, <2>7, <2>8, <2>9, <2>10, <2>11, <2>12
    DEF Next
<1> QED
  BY <1>1, <1>2, PTL DEF Spec

\* Whichever request filled the cache, an event in an answer was fetched at
\* most TTL and one request ago (events_v2.go:276).
THEOREM AnswersAreFresh == Spec => []FreshEnough
<1>1. IInv => FreshEnough
  BY DEF IInv
<1> QED
  BY <1>1, Invariance, PTL

\* The results of a failed query are out of the answers TTL and one request
\* after the last failure, cached as they are (events_v2.go:165-169, 237-240, 276).
THEOREM OutagesPass == Spec => []OutagePasses
<1>1. IInv => OutagePasses
  BY DEF IInv
<1> QED
  BY <1>1, Invariance, PTL

\* After a Clear only requests that were under way put older events back into
\* the cache, data race included (cache.go:71).
THEOREM ClearedStaysCleared == Spec => []ClearHolds
<1>1. IInv => ClearHolds
  BY DEF IInv
<1> QED
  BY <1>1, Invariance, PTL

\* No event with markets is lost from an answer by what others do to the cache
\* (events_v2.go:252-278).
THEOREM AnswersAreComplete == Spec => []CompleteAnswer
<1>1. IInv => CompleteAnswer
  BY DEF IInv
<1> QED
  BY <1>1, Invariance, PTL
=============================================================================
