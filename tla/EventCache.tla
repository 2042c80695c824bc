----------------------------- MODULE EventCache -----------------------------
(***************************************************************************)
(* GetEventsV2 and the in-memory cache of enriched events it shares with   *)
(* every other request: internal/cache over a sync.Map.  A request fetches *)
(* a page of events upstream, asks the database for leagues and teams (and *)
(* does without them when a query fails), then takes each event out of the *)
(* cache or enriches it and caches the result.                             *)
(*                                                                         *)
(* What an event looks like is known by when it was fetched and whether    *)
(* its enrichment had both queries' answers.  All events here are sports   *)
(* events: the others never look at the database.                          *)
(***************************************************************************)
EXTENDS Naturals

CONSTANTS Events,     \* ids of upstream events
          Requests,   \* concurrent requests
          TTL,        \* 10 * time.Minute
          MaxStall,   \* bound: a request is done by then after its fetch
          MaxTime,    \* bound: last instant of the clock
          None        \* no item, no answer, no event

ASSUME BoundsAssumption == TTL \in Nat /\ MaxStall \in Nat /\ MaxTime \in Nat

VARIABLES now,         \* the clock
          items,       \* InMemoryCache.data
          req,         \* the requests
          clearing,    \* is a Clear being executed?
          touched,     \* the events stored since that Clear began
          clearedAt,   \* history: when the last Clear began
          lastFailure  \* history: when a query last failed

vars == <<now, items, req, clearing, touched, clearedAt, lastFailure>>

Item   == [fetched : Nat, full : BOOLEAN, expiresAt : Nat]
Answer == [fetched : Nat, full : BOOLEAN, at : Nat]

\* listed: the events it holds, bare: those without markets, left: those not
\* dealt with yet, event: the one being dealt with.
Page == [pc : {"leagues", "teams", "events", "delete", "transform"},
         fetched : Nat, full : BOOLEAN,
         listed : SUBSET Events, bare : SUBSET Events, left : SUBSET Events,
         event : Events \cup {None}, out : [Events -> Answer \cup {None}]]
Request == {[pc |-> "idle"]} \cup Page

ASSUME NoneAssumption == None \notin Item \cup Answer \cup Events

TypeOK ==
  /\ now \in Nat /\ clearedAt \in Nat /\ lastFailure \in Nat
  /\ items \in [Events -> Item \cup {None}]
  /\ req \in [Requests -> Request]
  /\ clearing \in BOOLEAN
  /\ touched \subseteq Events

-----------------------------------------------------------------------------
At(r, pc) == req[r].pc = pc
Idle == [pc |-> "idle"]
Goto(r, pc, e) == req' = [req EXCEPT ![r] = [@ EXCEPT !.pc = pc, !.event = e]]

\* Event e is dealt with, and answered unless there is no answer.
Done(r, e, answer) ==
  req' = [req EXCEPT ![r] = [req[r] EXCEPT !.pc = "events", !.event = None,
                                           !.left = req[r].left \ {e},
                                           !.out[e] = answer]]

Cached(e) == items[e] # None

\* Mutant of Current: the expiry is not looked at.
Forever(e) == TRUE

\* time.Now().After(item.expiresAt) is false.
Current(e) == now <= items[e].expiresAt

Expiry == now + TTL

-----------------------------------------------------------------------------
(* One page.                                                               *)

\* The upstream answers; io.ReadAll and json.Unmarshal take it whole.  An
\* upstream that fails is answered 502 and changes nothing.
Fetch(r, listed, bare) ==
  /\ req[r] = Idle
  /\ bare \subseteq listed
  /\ req' = [req EXCEPT ![r] =
               [pc |-> "leagues", fetched |-> now, full |-> TRUE,
                listed |-> listed, bare |-> bare, left |-> listed, event |-> None,
                out |-> [e \in Events |-> None]]]
  /\ UNCHANGED <<now, items, clearing, touched, clearedAt, lastFailure>>

\* QueryAllLeagues, then QueryTeamsResolved.  When one fails the page goes on
\* with an empty map in its place.
Query(r, pc, next) ==
  /\ At(r, pc)
  /\ \/ Goto(r, next, None) /\ UNCHANGED lastFailure
     \/ /\ req' = [req EXCEPT ![r] = [@ EXCEPT !.pc = next, !.full = FALSE]]
        /\ lastFailure' = now
  /\ UNCHANGED <<now, items, clearing, touched, clearedAt>>

QueryAllLeagues(r)    == Query(r, "leagues", "teams")
QueryTeamsResolved(r) == Query(r, "teams", "events")

\* Get, as far as the Load.  One that overlaps a Clear may find nothing.
Load(r, e) ==
  /\ At(r, "events")
  /\ e \in req[r].left
  /\ \/ /\ Cached(e) /\ Current(e)
        /\ Done(r, e, [fetched |-> items[e].fetched, full |-> items[e].full,
                       at |-> now])
     \/ Cached(e) /\ ~Current(e) /\ Goto(r, "delete", e)
     \/ (~Cached(e) \/ clearing) /\ Goto(r, "transform", e)
  /\ UNCHANGED <<now, items, clearing, touched, clearedAt, lastFailure>>

\* Mutant of Delete: an event that was expired is taken for answered.
DeleteAndSkip(r) ==
  /\ At(r, "delete")
  /\ items' = [items EXCEPT ![req[r].event] = None]
  /\ Done(r, req[r].event, None)
  /\ UNCHANGED <<now, clearing, touched, clearedAt, lastFailure>>

\* The item that was expired is removed: whichever is there by now.
Delete(r) ==
  /\ At(r, "delete")
  /\ \/ items' = [items EXCEPT ![req[r].event] = None]
     \/ clearing /\ UNCHANGED items
  /\ Goto(r, "transform", req[r].event)
  /\ UNCHANGED <<now, clearing, touched, clearedAt, lastFailure>>

\* TransformEventV2 returns nil: the event has no markets.
Skip(r) ==
  /\ At(r, "transform")
  /\ req[r].event \in req[r].bare
  /\ Done(r, req[r].event, None)
  /\ UNCHANGED <<now, items, clearing, touched, clearedAt, lastFailure>>

\* TransformEventV2 and Set.  A Store that overlaps a Clear may be lost.
Set(r) ==
  LET e == req[r].event
      p == req[r]
  IN
  /\ At(r, "transform")
  /\ e \notin p.bare
  /\ \/ /\ items' = [items EXCEPT ![e] = [fetched |-> p.fetched, full |-> p.full,
                                          expiresAt |-> Expiry]]
        /\ touched' = IF clearing THEN touched \cup {e} ELSE touched
     \/ clearing /\ UNCHANGED <<items, touched>>
  /\ Done(r, e, [fetched |-> p.fetched, full |-> p.full, at |-> now])
  /\ UNCHANGED <<now, clearing, clearedAt, lastFailure>>

Respond(r) ==
  /\ At(r, "events") /\ req[r].left = {}
  /\ req' = [req EXCEPT ![r] = Idle]
  /\ UNCHANGED <<now, items, clearing, touched, clearedAt, lastFailure>>

-----------------------------------------------------------------------------
(* Clear overwrites the sync.Map while others use it: a data race.  It is  *)
(* modelled as an interval in which the others' operations take effect or  *)
(* not, or fail for a nil function in a half-written map (Recoverer        *)
(* answers 500), or kill the process, which unlocks an overwritten mutex.  *)

ClearBegins ==
  /\ ~clearing
  /\ clearing' = TRUE
  /\ touched' = {}
  /\ clearedAt' = now
  /\ UNCHANGED <<now, items, req, lastFailure>>

\* Mutant of Emptied: only what has expired is removed.
EmptiedOfExpired(kept) == [e \in Events |-> IF Cached(e) /\ ~Current(e) THEN None ELSE items[e]]

Emptied(kept) == [e \in Events |-> IF e \in kept THEN items[e] ELSE None]

ClearEnds ==
  /\ clearing
  /\ \E kept \in SUBSET touched : items' = Emptied(kept)
  /\ clearing' = FALSE
  /\ touched' = {}
  /\ UNCHANGED <<now, req, clearedAt, lastFailure>>

Panic(r) ==
  /\ clearing
  /\ req[r].pc \in {"events", "delete", "transform"}
  /\ req' = [req EXCEPT ![r] = Idle]
  /\ UNCHANGED <<now, items, clearing, touched, clearedAt, lastFailure>>

\* The process ends, by itself or not, and is started again.
Restart ==
  /\ items' = [e \in Events |-> None]
  /\ req' = [r \in Requests |-> Idle]
  /\ clearing' = FALSE
  /\ touched' = {}
  /\ UNCHANGED <<now, clearedAt, lastFailure>>

Tick ==
  /\ now < MaxTime
  /\ \A r \in Requests : ~At(r, "idle") => now - req[r].fetched < MaxStall
  /\ now' = now + 1
  /\ UNCHANGED <<items, req, clearing, touched, clearedAt, lastFailure>>

-----------------------------------------------------------------------------
Init ==
  /\ now = 0 /\ clearedAt = 0 /\ lastFailure = 0
  /\ items = [e \in Events |-> None]
  /\ req = [r \in Requests |-> Idle]
  /\ clearing = FALSE
  /\ touched = {}

Next ==
  \/ \E r \in Requests :
       \/ \E listed, bare \in SUBSET Events :
            Fetch(r, listed, bare)
       \/ QueryAllLeagues(r)
       \/ QueryTeamsResolved(r)
       \/ \E e \in Events : Load(r, e)
       \/ Delete(r)
       \/ Skip(r)
       \/ Set(r)
       \/ Respond(r)
       \/ Panic(r)
  \/ ClearBegins
  \/ ClearEnds
  \/ Restart
  \/ Tick

Spec == Init /\ [][Next]_vars

-----------------------------------------------------------------------------
(* What the endpoint promises.                                             *)

Answered(r, e) == ~At(r, "idle") /\ req[r].out[e] # None

\* events_v2.go:276: an event in an answer was fetched at most ten minutes and
\* one request ago, whoever fetched it and whatever overwrote or removed it
\* in between.
FreshEnough ==
  \A r \in Requests, e \in Events : Answered(r, e) =>
     req[r].out[e].at <= req[r].out[e].fetched + MaxStall + TTL

\* A failed query stops showing in the answers ten minutes and one request
\* after the last one failed, although its results are cached like any other.
OutagePasses ==
  \A r \in Requests, e \in Events : Answered(r, e) /\ ~req[r].out[e].full =>
     req[r].out[e].at <= lastFailure + MaxStall + TTL

\* events_v2.go:29 "Manually clears the in-memory event cache": afterwards the
\* cache holds nothing older than the requests that were under way then,
\* although those go on filling it.
ClearHolds ==
  ~clearing => \A e \in Events : Cached(e) => clearedAt <= items[e].fetched + MaxStall

\* Every event that has markets is answered, one that has none at most out of
\* the cache, whatever others do to the cache meanwhile.
CompleteAnswer ==
  \A r \in Requests, e \in Events :
     ~At(r, "idle") /\ req[r].out[e] = None => e \in req[r].left \cup req[r].bare
                                               \/ e \notin req[r].listed

-----------------------------------------------------------------------------
(* The inductive invariant.                                                *)

\* A request is not stalled, knows of the failure it met, and which event it
\* is dealing with.
PagesSound ==
  \A r \in Requests : ~At(r, "idle") =>
     /\ req[r].fetched <= now /\ now <= req[r].fetched + MaxStall
     /\ req[r].pc \in {"delete", "transform"} => req[r].event # None
     /\ ~req[r].full => req[r].fetched <= lastFailure

\* An item expires ten minutes after it was stored, by a request in time.
ItemsSound ==
  \A e \in Events : Cached(e) =>
     /\ items[e].expiresAt <= items[e].fetched + MaxStall + TTL
     /\ ~items[e].full => items[e].fetched <= lastFailure

\* While a Clear is executed, the items it is sure to remove are the others.
TouchedSound == \A e \in touched : Cached(e) => clearedAt <= items[e].fetched + MaxStall

HistorySound == clearedAt <= now /\ lastFailure <= now

IInv ==
  /\ TypeOK
  /\ FreshEnough
  /\ OutagePasses
  /\ ClearHolds
  /\ CompleteAnswer
  /\ PagesSound
  /\ ItemsSound
  /\ TouchedSound
  /\ HistorySound
=============================================================================
