------------------------- MODULE TeamResolveProofs --------------------------
(***************************************************************************)
(* The invariant of TeamResolve is inductive: every key of the map holds   *)
(* a row that is stored under it, every merged row has left something      *)
(* under each of its keys, and the rows are the best there are.            *)
(***************************************************************************)
EXTENDS TeamResolve, FiniteSetTheorems, WellFoundedInduction, TLAPS

\* A set of numbers that is not empty has a least one.
LEMMA LeastNumber ==
  ASSUME NEW S, S \subseteq Nat, S # {}
  PROVE  \E x \in S : \A y \in S : x <= y
<1>1. PICK x \in S : \A y \in S : ~(<<y, x>> \in OpToRel(<, Nat))
  BY NatLessThanWellFounded, WFMin
<1>2. \A y \in S : ~(y < x)
  BY <1>1 DEF OpToRel
<1> QED
  BY <1>2

\* Whatever the order of the tags, a league keeps one of its own.
LEMMA LastTagExpands ==
  ASSUME NEW o \in Orders, NEW d, TagsFor(d) # {}
  PROVE  LastTag(o, d) \in TagsFor(d)
<1>1. Cardinality(DOMAIN TagToDBLeagues) \in Nat
  BY ExpansionAssumption, FS_CardinalityType
<1>2. \A s \in TagsFor(d) : o[s] \in Nat
  BY <1>1 DEF Orders, TagsFor
<1> DEFINE N == {o[s] : s \in TagsFor(d)}
<1>3. PICK n \in N : \A m \in N : n <= m
  BY <1>2, LeastNumber
<1>4. \E s \in TagsFor(d) : \A t \in TagsFor(d) : o[s] <= o[t]
  BY <1>3
<1> QED
  BY <1>4 DEF LastTag

\* The first tag of an event in S is a tag of the event, and in S.
LEMMA FirstTagInBoth ==
  ASSUME NEW e, NEW S, e.tags \in Seq(Slugs), FirstTag(e, S) # NoSlug
  PROVE  FirstTag(e, S) \in TagsOf(e) \cap S
<1> DEFINE found == {i \in DOMAIN e.tags : e.tags[i] \in S}
<1>1. found # {} /\ found \subseteq Nat
  BY DEF FirstTag
<1>2. \E i \in found : \A j \in found : i <= j
  BY <1>1, LeastNumber
<1>3. (CHOOSE i \in found : \A j \in found : i <= j) \in found
  BY <1>2
<1>4. FirstTag(e, S) = e.tags[CHOOSE i \in found : \A j \in found : i <= j]
  BY <1>1 DEF FirstTag
<1> QED
  BY <1>3, <1>4 DEF TagsOf

-----------------------------------------------------------------------------
Done == {"merge", "enrich"}

\* Before the query, and when it fails, there are no rows.
NothingRead == step \notin Done => rows = {}

\* The league of a team that can be read has a tag of its own.
MappingSound ==
  \A d \in Slugs : step \in Done =>
     \/ tagToDbMappings[d] \in TagsFor(d)
     \/ TagsFor(d) = {} /\ tagToDbMappings[d] = NoSlug

\* A row matches its label, no team in question better.
RowsSound ==
  \A x \in rows :
    /\ match[x] # "no"
    /\ \A t \in Teams : league[t] \in NormalizedLeagues =>
         Rank(match[<<t, x[2]>>]) <= Rank(match[x])

\* No exact match is missing, nor every match of a label.
RowsComplete ==
  step \in Done =>
    \A x \in Teams \X TeamLabels :
      league[x[1]] \in NormalizedLeagues =>
        /\ match[x] = "exact" => x \in rows
        /\ match[x] # "no" => \E y \in rows : y[2] = x[2]

\* A key holds the team of a row that is stored under it.
KeysSound ==
  \A k \in Keys : teamsMap[k] # NoTeam =>
    /\ <<teamsMap[k], k[2]>> \in rows
    /\ k \in KeysOf(<<teamsMap[k], k[2]>>)

\* A row that was merged has left a team under each of its keys.
MergedSound ==
  /\ \A x \in rows \ pending : \A k \in KeysOf(x) : teamsMap[k] # NoTeam
  /\ step = "enrich" => pending = {}

IInv == /\ TypeOK
        /\ NothingRead
        /\ MappingSound
        /\ RowsSound
        /\ RowsComplete
        /\ KeysSound
        /\ MergedSound

-----------------------------------------------------------------------------
LEMMA KeysAreKeys ==
  ASSUME TypeOK, NEW x \in Teams \X Labels
  PROVE  KeysOf(x) \subseteq Keys
BY TeamsAssumption DEF TypeOK, KeysOf, Keys

LEMMA LabelsAreLabels ==
  ASSUME TypeOK
  PROVE  TeamLabels \subseteq Labels
<1>1. ASSUME NEW e \in SportsEvents
      PROVE  e.teams \subseteq Labels /\ e.markets \in Seq(Market)
  BY InputsAssumption DEF TypeOK, SportsEvents
<1>2. ASSUME NEW m \in Market
      PROVE  LabelsOfMarket(m) \subseteq Labels
  <2>1. m.title \in Labels \cup {NoLabel} /\ m.sides \in Seq(Labels)
    BY DEF Market
  <2> QED
    BY <2>1 DEF LabelsOfMarket
<1>3. ASSUME NEW e \in SportsEvents
      PROVE  LabelsAsked(e) \subseteq Labels
  <2>1. \A i \in DOMAIN e.markets : e.markets[i] \in Market
    BY <1>1
  <2> QED
    BY <1>1, <1>2, <2>1 DEF LabelsAsked
<1> QED
  BY <1>3 DEF TeamLabels

LEMMA InitHolds == Init => IInv
<1> SUFFICES ASSUME Init
             PROVE  IInv
  OBVIOUS
<1>1. TypeOK
  BY DEF Init, TypeOK, NothingFound
<1> QED
  BY <1>1 DEF Init, IInv, NothingRead, MappingSound, RowsSound, RowsComplete,
              KeysSound, MergedSound, Done, NothingFound

\* What the SQL selects.
LEMMA SelectionSound ==
  ASSUME TypeOK, NEW F \in Fuzzy, NEW R, R = Exact \cup AliasMatch \cup F
  PROVE  /\ R \subseteq Teams \X Labels
         /\ \A x \in R : /\ match[x] # "no"
                         /\ \A t \in Teams : league[t] \in NormalizedLeagues =>
                              Rank(match[<<t, x[2]>>]) <= Rank(match[x])
         /\ \A x \in Teams \X TeamLabels : league[x[1]] \in NormalizedLeagues =>
              /\ match[x] = "exact" => x \in R
              /\ match[x] # "no" => \E y \in R : y[2] = x[2]
<1>0. /\ TeamLabels \subseteq Labels
      /\ match \in [Teams \X Labels -> Matches]
  BY LabelsAreLabels, InputsAssumption DEF TypeOK
<1>1. F \subseteq Close
  BY DEF Fuzzy
<1>2. R \subseteq Teams \X TeamLabels
  BY <1>1 DEF Exact, AliasMatch, Close, Candidates
<1>3. ASSUME NEW x \in Teams \X TeamLabels, league[x[1]] \in NormalizedLeagues
      PROVE  /\ match[x] = "exact" => x \in Exact
             /\ match[x] = "alias" => x[2] \in LabelsOf(Exact \cup AliasMatch)
             /\ match[x] = "similar" => x[2] \in LabelsOf(Exact \cup AliasMatch \cup Close)
  <2>1. match[x] = "exact" => x \in Exact
    BY <1>3 DEF Exact, Candidates
  <2>2. match[x] = "alias" => x \in AliasMatch \/ x[2] \in LabelsOf(Exact)
    BY <1>3 DEF AliasMatch, Candidates
  <2>3. match[x] = "similar" => x \in Close \/ x[2] \in LabelsOf(Exact) \cup LabelsOf(AliasMatch)
    BY <1>3 DEF Close, Candidates
  <2> QED
    BY <2>1, <2>2, <2>3 DEF LabelsOf
<1>4. ASSUME NEW x \in R, NEW t \in Teams, league[t] \in NormalizedLeagues
      PROVE  /\ match[x] # "no"
             /\ Rank(match[<<t, x[2]>>]) <= Rank(match[x])
  <2> DEFINE y == <<t, x[2]>>
  <2>1. y \in Teams \X TeamLabels /\ y[2] = x[2] /\ match[y] \in Matches
    BY <1>0, <1>2
  <2>2. CASE x \in Exact
    <3>1. match[x] = "exact"
      BY <2>2 DEF Exact, Candidates
    <3> QED
      BY <2>1, <3>1 DEF Rank, Matches
  <2>3. CASE x \in AliasMatch
    <3>1. match[x] = "alias" /\ match[y] # "exact"
      BY <1>3, <1>4, <2>1, <2>3 DEF AliasMatch, Candidates, LabelsOf
    <3> QED
      BY <2>1, <3>1 DEF Rank, Matches
  <2>4. CASE x \in Close
    <3>1. match[x] = "similar" /\ match[y] # "exact" /\ match[y] # "alias"
      BY <1>3, <1>4, <2>1, <2>4 DEF Close, Candidates, LabelsOf
    <3> QED
      BY <2>1, <3>1 DEF Rank, Matches
  <2> QED
    BY <1>1, <1>4, <2>2, <2>3, <2>4
<1>5. ASSUME NEW x \in Teams \X TeamLabels, league[x[1]] \in NormalizedLeagues,
             match[x] # "no"
      PROVE  \E y \in R : y[2] = x[2]
  <2>1. match[x] \in Matches
    BY <1>0
  <2>2. x[2] \in LabelsOf(Exact \cup AliasMatch \cup Close)
    BY <1>3, <1>5, <2>1 DEF Matches, LabelsOf
  <2>3. CASE x[2] \in LabelsOf(Close)
    <3> DEFINE G == {y \in F : y[2] = x[2]}
    <3>1. Cardinality(G) = 1
      BY <2>3 DEF Fuzzy
    <3>2. G # {}
      <4>1. Cardinality({}) = 0
        BY FS_EmptySet
      <4>2. G = {} => Cardinality(G) = Cardinality({})
        OBVIOUS
      <4> HIDE DEF G
      <4> QED
        BY <3>1, <4>1, <4>2
    <3> QED
      BY <3>2
  <2> QED
    BY <2>2, <2>3 DEF LabelsOf
<1>6. \A x \in R : match[x] # "no"
  BY <1>1 DEF Exact, AliasMatch, Close, Candidates
<1> QED
  BY <1>0, <1>2, <1>3, <1>4, <1>5, <1>6

LEMMA NextKeeps == IInv /\ [Next]_vars => IInv'
<1> SUFFICES ASSUME IInv, [Next]_vars
             PROVE  IInv'
  OBVIOUS
<1> USE DEF IInv
<1>1. CASE QueryAllLeagues
  <2>1. TypeOK'
    BY <1>1, AliasAssumption, InputsAssumption DEF TypeOK, QueryAllLeagues, Borrowed
  <2> QED
    BY <1>1, <2>1 DEF QueryAllLeagues, NothingRead, MappingSound, RowsSound, RowsComplete,
      KeysSound, MergedSound, Done, KeysOf, NormalizedLeagues, TargetLeagues, TeamLabels,
      SportsEvents
<1>2. CASE QueryAllLeaguesFails
  <2>1. TypeOK'
    BY <1>2 DEF TypeOK, QueryAllLeaguesFails
  <2> QED
    BY <1>2, <2>1 DEF QueryAllLeaguesFails, NothingRead, MappingSound, RowsSound, RowsComplete,
      KeysSound, MergedSound, Done, KeysOf, NormalizedLeagues, TargetLeagues, TeamLabels,
      SportsEvents
<1>3. CASE QueryTeamsResolved
  <2>1. PICK F \in Fuzzy : rows' = Exact \cup AliasMatch \cup F
    BY <1>3 DEF QueryTeamsResolved
  <2>2. PICK o \in Orders : tagToDbMappings' = ReverseMapping(o)
    BY <1>3 DEF QueryTeamsResolved
  <2>3. /\ pending' = rows' /\ step = "teams" /\ step' = "merge"
        /\ UNCHANGED <<page, leagueRow, match, leaguesBySlug, teamsMap>>
    BY <1>3 DEF QueryTeamsResolved
  <2>4. \A d \in Slugs : \/ tagToDbMappings'[d] \in TagsFor(d)
                         \/ TagsFor(d) = {} /\ tagToDbMappings'[d] = NoSlug
    BY <2>2, LastTagExpands DEF ReverseMapping, LastTag
  <2>5. tagToDbMappings' \in [Slugs -> Slugs \cup {NoSlug}]
    BY <2>2, <2>4, ExpansionAssumption DEF ReverseMapping, TagsFor
  <2>6. TypeOK'
    BY <2>1, <2>3, <2>5, SelectionSound DEF TypeOK
  <2>7. RowsSound' /\ RowsComplete'
    BY <2>1, <2>3, SelectionSound
    DEF RowsSound, RowsComplete, NormalizedLeagues, TargetLeagues, TeamLabels, SportsEvents
  <2>8. \A k \in Keys : teamsMap'[k] = NoTeam
    BY <2>3 DEF KeysSound, NothingRead, Done
  <2> QED
    BY <2>3, <2>4, <2>6, <2>7, <2>8 DEF NothingRead, MappingSound, KeysSound, MergedSound, Done
<1>4. ASSUME NEW x \in Teams \X Labels, MergeRow(x)
      PROVE  IInv'
  <2>1. /\ step = "merge" /\ x \in pending /\ pending' = pending \ {x}
        /\ teamsMap' = [k \in Keys |-> IF k \in KeysOf(x) THEN x[1] ELSE teamsMap[k]]
        /\ UNCHANGED <<page, leagueRow, match, step, leaguesBySlug, tagToDbMappings, rows>>
    BY <1>4 DEF MergeRow
  <2>2. TypeOK'
    BY <2>1 DEF TypeOK
  <2>3. x \in rows
    BY <2>1 DEF TypeOK
  <2>4. KeysSound'
    <3> SUFFICES ASSUME NEW k \in Keys, teamsMap'[k] # NoTeam
                 PROVE  /\ <<teamsMap'[k], k[2]>> \in rows
                        /\ k \in KeysOf(<<teamsMap'[k], k[2]>>)
      BY <2>1 DEF KeysSound, KeysOf
    <3>1. CASE k \in KeysOf(x)
      <4>1. teamsMap'[k] = x[1] /\ k[2] = x[2]
        BY <2>1, <3>1 DEF KeysOf
      <4>2. <<x[1], x[2]>> = x
        OBVIOUS
      <4> QED
        BY <2>3, <3>1, <4>1, <4>2
    <3>2. CASE k \notin KeysOf(x)
      BY <2>1, <3>2 DEF KeysSound
    <3> QED
      BY <3>1, <3>2
  <2>5. MergedSound'
    <3>1. \A y \in rows \ pending' : \A k \in KeysOf(y) : teamsMap'[k] # NoTeam
      <4> SUFFICES ASSUME NEW y \in rows \ pending', NEW k \in KeysOf(y)
                   PROVE  teamsMap'[k] # NoTeam
        OBVIOUS
      <4>1. k \in Keys
        BY KeysAreKeys DEF TypeOK
      <4>2. k \in KeysOf(x) => teamsMap'[k] = x[1]
        BY <2>1, <4>1
      <4>3. k \notin KeysOf(x) => teamsMap'[k] = teamsMap[k] /\ y # x
        BY <2>1, <4>1
      <4> QED
        BY <2>1, <4>2, <4>3, TeamsAssumption DEF MergedSound
    <3> QED
      BY <2>1, <3>1 DEF MergedSound, KeysOf
  <2> QED
    BY <2>1, <2>2, <2>4, <2>5 DEF NothingRead, MappingSound, RowsSound, RowsComplete, Done,
      NormalizedLeagues, TargetLeagues, TeamLabels, SportsEvents
<1>5. CASE Merged
  <2>1. TypeOK'
    BY <1>5 DEF TypeOK, Merged
  <2> QED
    BY <1>5, <2>1 DEF Merged, NothingRead, MappingSound, RowsSound, RowsComplete,
      KeysSound, MergedSound, Done, KeysOf, NormalizedLeagues, TargetLeagues, TeamLabels,
      SportsEvents
<1>6. CASE QueryTeamsResolvedFails
  <2>1. TypeOK'
    BY <1>6 DEF TypeOK, QueryTeamsResolvedFails, NothingFound
  <2> QED
    BY <1>6, <2>1 DEF QueryTeamsResolvedFails, NothingRead, MappingSound, RowsSound, RowsComplete,
      KeysSound, MergedSound, Done, NothingFound
<1>7. CASE UNCHANGED vars
  <2>1. TypeOK'
    BY <1>7 DEF TypeOK, vars
  <2> QED
    BY <1>7, <2>1 DEF vars, NothingRead, MappingSound, RowsSound, RowsComplete,
      KeysSound, MergedSound, Done, KeysOf, NormalizedLeagues, TargetLeagues, TeamLabels,
      SportsEvents
<1> QED
  BY <1>1, <1>2, <1>3, <1>4, <1>5, <1>6, <1>7 DEF Next

\* The inductive invariant holds in every state, for any tables, pages and
\* ways in which names match.
THEOREM TeamsInvariance == Spec => []IInv
BY InitHolds, NextKeeps, PTL DEF Spec

-----------------------------------------------------------------------------
LEMMA InLeague == IInv => QualifiedKeysStayInLeague
<1> SUFFICES ASSUME IInv, NEW s \in Slugs, NEW l \in Labels, teamsMap[<<s, l>>] # NoTeam
             PROVE  league[teamsMap[<<s, l>>]] \in LeaguesBehind(s)
  BY DEF QualifiedKeysStayInLeague
<1> DEFINE t == teamsMap[<<s, l>>]
<1>1. <<s, l>> \in Keys /\ <<s, l>>[2] = l
  BY DEF Keys
<1>2. t \in Teams /\ <<t, l>> \in rows /\ <<s, l>> \in KeysOf(<<t, l>>)
  BY <1>1 DEF IInv, TypeOK, KeysSound
<1>3. s = league[t] \/ s = tagToDbMappings[league[t]]
  BY <1>2, SlugsAssumption DEF KeysOf
<1>4. step \in Done \/ rows = {}
  BY DEF IInv, NothingRead
<1> QED
  BY <1>2, <1>3, <1>4, SlugsAssumption, TeamsAssumption
  DEF IInv, MappingSound, TagsFor, LeaguesBehind

LEMMA BestTier == IInv => BestTierOnly
<1> SUFFICES ASSUME IInv, NEW k \in Keys, NEW t \in Teams, teamsMap[k] # NoTeam,
                    league[t] \in NormalizedLeagues
             PROVE  Rank(match[<<t, k[2]>>]) <= Rank(match[<<teamsMap[k], k[2]>>])
  BY DEF BestTierOnly
<1> DEFINE x == <<teamsMap[k], k[2]>>
<1>1. x \in rows /\ x[2] = k[2]
  BY DEF IInv, KeysSound
<1> QED
  BY <1>1 DEF IInv, RowsSound

\* After the merge a row's keys all hold a team.
LEMMA KeysFilled ==
  ASSUME IInv, step = "enrich", NEW y \in rows, NEW s, s \in {NoSlug, league[y[1]],
         tagToDbMappings[league[y[1]]]}
  PROVE  teamsMap[<<s, y[2]>>] # NoTeam
<1>1. <<s, y[2]>> \in KeysOf(y)
  BY DEF KeysOf
<1> QED
  BY <1>1 DEF IInv, MergedSound

LEMMA Found == IInv => MatchedIsFound
<1> SUFFICES ASSUME IInv, step = "enrich", NEW e \in SportsEvents,
                    NEW x \in Teams \X TeamLabels,
                    match[x] # "no", league[x[1]] \in NormalizedLeagues
             PROVE  TeamByLabel(EventLeagueSlug(e), x[2]) # NoTeam
  BY DEF MatchedIsFound
<1>1. PICK y \in rows : y[2] = x[2]
  BY DEF IInv, RowsComplete, Done
<1>2. teamsMap[<<NoSlug, x[2]>>] # NoTeam
  BY <1>1, KeysFilled
<1> QED
  BY <1>2 DEF TeamByLabel

LEMMA OwnLeague == IInv => OwnLeagueWins
<1> SUFFICES ASSUME IInv, step = "enrich", NEW e \in SportsEvents,
                    NEW x \in Teams \X TeamLabels, match[x] = "exact",
                    EventLeagueSlug(e) \in SureSlugs(league[x[1]]) \ Umbrellas
             PROVE  LET g == EventLeagueSlug(e)
                        t == TeamByLabel(g, x[2]) IN
                    /\ t # NoTeam /\ league[t] \in LeaguesBehind(g)
                    /\ match[<<t, x[2]>>] = "exact"
  BY DEF OwnLeagueWins
<1> DEFINE g == EventLeagueSlug(e)
           d == league[x[1]]
           t == teamsMap[<<g, x[2]>>]
<1>0. /\ d \in Slugs /\ x[2] \in Labels /\ e.tags \in Seq(Slugs)
      /\ match \in [Teams \X Labels -> Matches]
  BY TeamsAssumption, LabelsAreLabels, InputsAssumption DEF IInv, TypeOK, SportsEvents
<1>1. g = d \/ TagsFor(d) = {g}
  BY DEF SureSlugs
<1>2. g \in Slugs
  BY <1>0, <1>1, ExpansionAssumption DEF TagsFor
<1>3. g \in TagsOf(e)
  BY <1>0, <1>2, FirstTagInBoth, SlugsAssumption DEF EventLeagueSlug, FirstOf
<1>4. g \in TargetLeagues
  <2>1. g \notin Umbrellas
    OBVIOUS
  <2>2. TagsOf(e) \in {TagsOf(f) : f \in SportsEvents}
    OBVIOUS
  <2>3. g \in UNION {TagsOf(f) : f \in SportsEvents}
    BY <1>3, <2>2, Zenon
  <2> HIDE DEF g
  <2>4. g \in (UNION {TagsOf(f) : f \in SportsEvents}) \ Umbrellas
    BY <2>1, <2>3
  <2> QED
    BY <2>4 DEF TargetLeagues
<1>5. d \in NormalizedLeagues
  BY <1>1, <1>4 DEF NormalizedLeagues, TagsFor
<1>6. x \in rows
  BY <1>5 DEF IInv, RowsComplete, Done
<1>7. g = d \/ g = tagToDbMappings[d]
  BY <1>0, <1>1 DEF IInv, MappingSound, Done
<1>8. t # NoTeam
  BY <1>6, <1>7, KeysFilled
<1>9. TeamByLabel(g, x[2]) = t
  BY <1>8 DEF TeamByLabel
<1>10. <<g, x[2]>> \in Keys /\ <<g, x[2]>>[2] = x[2]
  BY <1>0, <1>2 DEF Keys
<1>11. t \in Teams
  BY <1>8, <1>10 DEF IInv, TypeOK
<1>12. league[t] \in LeaguesBehind(g)
  BY <1>0, <1>2, <1>8, InLeague DEF QualifiedKeysStayInLeague
<1>13. match[<<t, x[2]>>] = "exact"
  <2>1. Rank(match[<<x[1], x[2]>>]) <= Rank(match[<<t, x[2]>>])
    BY <1>5, <1>8, <1>10, BestTier DEF BestTierOnly
  <2>2. <<x[1], x[2]>> = x /\ match[<<t, x[2]>>] \in Matches
    BY <1>0, <1>11
  <2> QED
    BY <2>1, <2>2 DEF Rank, Matches
<1> QED
  BY <1>8, <1>9, <1>12, <1>13

\* An event that has a tag in S has a first one.
LEMMA FirstTagFound ==
  ASSUME NEW e, NEW S, e.tags \in Seq(Slugs), NEW f \in TagsOf(e) \cap S
  PROVE  FirstTag(e, S) # NoSlug
<1> DEFINE found == {i \in DOMAIN e.tags : e.tags[i] \in S}
<1>1. found # {} /\ found \subseteq Nat
  BY DEF TagsOf
<1>2. \E i \in found : \A j \in found : i <= j
  BY <1>1, LeastNumber
<1>3. (CHOOSE i \in found : \A j \in found : i <= j) \in found
  BY <1>2
<1>4. FirstTag(e, S) = e.tags[CHOOSE i \in found : \A j \in found : i <= j]
  BY <1>1 DEF FirstTag
<1>5. \A i \in found : e.tags[i] \in Slugs
  OBVIOUS
<1>6. FirstTag(e, S) \in Slugs
  BY <1>3, <1>4, <1>5
<1> QED
  BY <1>6, SlugsAssumption

LEMMA ImageFinite ==
  ASSUME NEW S, IsFiniteSet(S), NEW T, NEW f \in [S -> T], \A t \in T : \E x \in S : f[x] = t
  PROVE  IsFiniteSet(T)
<1>1. f \in Surjection(S, T)
  BY DEF Surjection
<1> QED
  BY <1>1, FS_Surjection

LEMMA AtMostOne ==
  ASSUME NEW S, IsFiniteSet(S), Cardinality(S) <= 1, NEW x \in S, NEW y \in S
  PROVE  x = y
<1> SUFFICES ASSUME x # y
             PROVE  FALSE
  OBVIOUS
<1>1. IsFiniteSet({x, y}) /\ Cardinality({x, y}) = 2
  <2>1. IsFiniteSet({y}) /\ Cardinality({y}) = 1
    BY FS_Singleton
  <2>2. {x, y} = {y} \cup {x} /\ x \notin {y}
    OBVIOUS
  <2> QED
    BY <2>1, <2>2, FS_AddElement
<1>2. Cardinality({x, y}) <= Cardinality(S)
  BY FS_Subset
<1>3. Cardinality(S) \in Nat
  BY FS_CardinalityType
<1> QED
  BY <1>1, <1>2, <1>3

LEMMA TagsFinite ==
  ASSUME NEW e, e.tags \in Seq(Slugs)
  PROVE  IsFiniteSet(TagsOf(e))
<1>1. DOMAIN e.tags = 1..Len(e.tags) /\ Len(e.tags) \in Nat
  OBVIOUS
<1>2. IsFiniteSet(DOMAIN e.tags)
  BY <1>1, FS_Interval
<1> DEFINE tag == [i \in DOMAIN e.tags |-> e.tags[i]]
<1>3. tag \in [DOMAIN e.tags -> TagsOf(e)] /\ \A t \in TagsOf(e) : \E i \in DOMAIN e.tags : tag[i] = t
  BY DEF TagsOf
<1> QED
  BY <1>2, <1>3, ImageFinite

LEMMA ChoicesAgree == IInv => LeagueChoicesAgree
<1> SUFFICES ASSUME IInv, NEW e \in SportsEvents,
                    Cardinality({leaguesBySlug[s] : s \in TagsOf(e) \cap Specific}) <= 1,
                    TagsOf(e) \cap GenericSportsTags \cap Templated = {}
             PROVE  LET row(s) == IF s = NoSlug THEN NoSlug ELSE leaguesBySlug[s]
                    IN  row(EventLeagueSlug(e)) = row(EnrichLeagueSlug(e))
  BY DEF LeagueChoicesAgree
<1> DEFINE own == TagsOf(e) \cap Specific
           leagues == {leaguesBySlug[s] : s \in own}
           f == FirstTag(e, Templated)
           g == FirstTag(e, Specific)
<1>0. e.tags \in Seq(Slugs)
  BY InputsAssumption DEF IInv, TypeOK, SportsEvents
<1>1. CASE f = NoSlug
  BY <1>1 DEF EventLeagueSlug, EnrichLeagueSlug, FirstOf
<1>2. CASE f # NoSlug
  <2>1. f \in TagsOf(e) \cap Templated
    BY <1>0, <1>2, FirstTagInBoth
  <2>2. f \in own
    BY <2>1 DEF Templated, Specific
  <2>3. g # NoSlug /\ g \in own
    BY <1>0, <2>2, FirstTagFound, FirstTagInBoth
  <2>4. IsFiniteSet(leagues)
    <3>1. IsFiniteSet(own)
      BY <1>0, TagsFinite, FS_Subset
    <3> DEFINE behind == [s \in own |-> leaguesBySlug[s]]
    <3>2. behind \in [own -> leagues] /\ \A l \in leagues : \E s \in own : behind[s] = l
      OBVIOUS
    <3> QED
      BY <3>1, <3>2, ImageFinite
  <2>5. leaguesBySlug[f] = leaguesBySlug[g]
    BY <2>2, <2>3, <2>4, AtMostOne
  <2>6. EventLeagueSlug(e) = f /\ EnrichLeagueSlug(e) = g
    BY <1>2, <2>3 DEF EventLeagueSlug, EnrichLeagueSlug, FirstOf
  <2> QED
    BY <1>2, <2>3, <2>5, <2>6
<1> QED
  BY <1>1, <1>2

\* The map and the mapping of the leagues keep their shape, and no slug leads
\* to a league that has no row.
THEOREM TypeCorrect == Spec => []TypeOK
BY TeamsInvariance, PTL DEF IInv

\* What is found under a league or a tag is a team of that league, or of one
\* the tag expands to.
THEOREM TeamsStayInLeague == Spec => []QualifiedKeysStayInLeague
BY TeamsInvariance, InLeague, PTL

\* The three tiers: no team is found where another matches the label better.
THEOREM BestMatchesOnly == Spec => []BestTierOnly
BY TeamsInvariance, BestTier, PTL

\* A label that matches a team of the leagues in question is found.
THEOREM MatchesAreFound == Spec => []MatchedIsFound
BY TeamsInvariance, Found, PTL

\* In its own league a team is found under its name, whatever namesakes it has.
THEOREM OwnLeaguePrevails == Spec => []OwnLeagueWins
BY TeamsInvariance, OwnLeague, PTL

\* Teams and logos are taken from the league that orders the participants, where
\* the specific tags of an event stand for one league and no generic tag has a
\* template.
THEOREM OneLeagueIsChosen == Spec => []LeagueChoicesAgree
BY TeamsInvariance, ChoicesAgree, PTL
=============================================================================
