---------------------------- MODULE TeamResolve -----------------------------
(***************************************************************************)
(* How one request of the events endpoint finds the teams of a page of     *)
(* sports events: QueryAllLeagues with its aliases, the labels and leagues *)
(* GetEventsV2 collects, QueryTeamsResolved with the merge of its rows in  *)
(* whatever order they come, and the look-up by TeamByLabel.               *)
(*                                                                         *)
(* A slug is in lower case and a label is its NormalizeTeamKey.  The two   *)
(* queries are known by what their SQL selects.                            *)
(***************************************************************************)
EXTENDS Naturals, FiniteSets, Sequences

CONSTANTS Slugs,             \* slugs of tags and codes of leagues
          NoSlug,
          Umbrellas,         \* the slugs "sports" and "esports"
          GenericSportsTags,
          TagToDBLeagues,    \* tag |-> the leagues it expands to
          TagLeagueAliases,  \* tag |-> the league whose row it borrows
          Labels,            \* titles and sides of markets, names of teams
          NoLabel, Yes, No,
          Teams,             \* rows of the teams table
          NoTeam,
          league,            \* teams.league
          Inputs             \* the pages of events considered, each with a leagues
                             \* table and how the rows of teams match the labels

Matches == {"no", "similar", "alias", "exact"}
LeagueRows == {"none", "plain", "template"}

\* A market: the outcomes it has and their prices.
Market == [title : Labels \cup {NoLabel}, question : Labels, sides : Seq(Labels),
           prices : Seq(Nat), liquidity : Nat, moneyline : BOOLEAN]

ASSUME SlugsAssumption ==
  /\ NoSlug \notin Slugs
  /\ Umbrellas \subseteq Slugs /\ GenericSportsTags \subseteq Slugs
  /\ NoLabel \notin Labels
ASSUME TeamsAssumption == NoTeam \notin Teams /\ league \in [Teams -> Slugs]
ASSUME InputsAssumption ==
  \A given \in Inputs :
    /\ given.leagueRow \in [Slugs -> LeagueRows]
    /\ given.match \in [Teams \X Labels -> Matches]
    /\ \A e \in given.page :
         e.tags \in Seq(Slugs) /\ e.markets \in Seq(Market) /\ e.teams \subseteq Labels
ASSUME ExpansionAssumption ==
  /\ IsFiniteSet(DOMAIN TagToDBLeagues) /\ DOMAIN TagToDBLeagues \subseteq Slugs
  /\ TagToDBLeagues \in [DOMAIN TagToDBLeagues -> SUBSET Slugs]
\* db.go:18-50: no tag of the tables is itself the code of a team's league,
\* nor borrows the row of a tag that borrows one.
ASSUME TagsAreNoLeagues ==
  \A x \in Teams : league[x] \notin DOMAIN TagToDBLeagues
ASSUME AliasAssumption ==
  /\ TagLeagueAliases \in [DOMAIN TagLeagueAliases -> Slugs]
  /\ \A s \in DOMAIN TagLeagueAliases : TagLeagueAliases[s] \notin DOMAIN TagLeagueAliases

VARIABLES page,           \* the sports and other events Gamma answered
          leagueRow,      \* the leagues table: whether a slug has a row, and a template
          match,          \* how a team's row matches a label, at best
          step,           \* what the request does next
          leaguesBySlug,  \* the slug of the league row a slug stands for
          tagToDbMappings,
          rows,           \* what the query for teams answers ...
          pending,        \* ... and has not been merged
          teamsMap

vars == <<page, leagueRow, match, step, leaguesBySlug, tagToDbMappings, rows,
          pending, teamsMap>>

\* A key is "league|label", or the plain label.
Keys == (Slugs \cup {NoSlug}) \X Labels
NothingFound == [k \in Keys |-> NoTeam]

-----------------------------------------------------------------------------
(* The page.  An event has its tags and markets in order, the names of its *)
(* Teams, and whether it has a game ID and the sports category.            *)

TagsOf(e) == {e.tags[i] : i \in DOMAIN e.tags}
IsSportsEvent(e) == e.game \/ e.category \/ TagsOf(e) \cap Umbrellas # {}
SportsEvents == {e \in page : IsSportsEvent(e)}

\* The labels that GetEventsV2 collects.  The question of a market, which may
\* be shown in place of its title, is not among them.
LabelsOfMarket(m) ==
  ({m.title} \ {NoLabel}) \cup ({m.sides[i] : i \in DOMAIN m.sides} \ {Yes, No})
LabelsAsked(e) == e.teams \cup UNION {LabelsOfMarket(e.markets[i]) : i \in DOMAIN e.markets}
TeamLabels == UNION {LabelsAsked(e) : e \in SportsEvents}
TargetLeagues == (UNION {TagsOf(e) : e \in SportsEvents}) \ Umbrellas

\* The tags asked for and the leagues they expand to; these expand no further.
NormalizedLeagues ==
  TargetLeagues \cup
    UNION {TagToDBLeagues[s] : s \in TargetLeagues \cap DOMAIN TagToDBLeagues}

-----------------------------------------------------------------------------
(* The SQL of QueryTeamsResolved.  word_similarity picks one team of those *)
(* that are close to a label: any of them.                                 *)

Candidates(how) ==
  {x \in Teams \X TeamLabels :
     league[x[1]] \in NormalizedLeagues /\ match[x] = how}
LabelsOf(R) == {x[2] : x \in R}

Exact == Candidates("exact")
AliasMatch == {x \in Candidates("alias") : x[2] \notin LabelsOf(Exact)}
\* Mutant of Close: the labels that matched exactly or by alias are not left out.
CloseToAll == Candidates("similar")
Close == {x \in Candidates("similar") :
            x[2] \notin LabelsOf(Exact) \cup LabelsOf(AliasMatch)}
Fuzzy == {F \in SUBSET Close : \A l \in LabelsOf(Close) :
            Cardinality({x \in F : x[2] = l}) = 1}

-----------------------------------------------------------------------------
(* The loops of Go over its maps come in any order.                        *)

TagsFor(d) == {s \in DOMAIN TagToDBLeagues : d \in TagToDBLeagues[s]}
Orders == {o \in [DOMAIN TagToDBLeagues -> 1..Cardinality(DOMAIN TagToDBLeagues)] :
             \A s, t \in DOMAIN TagToDBLeagues : s # t => o[s] # o[t]}

\* The last tag that expands to d is the one that stays; an order counts from
\* the end of the loop.
LastTag(o, d) ==
  IF TagsFor(d) = {} THEN NoSlug
  ELSE CHOOSE s \in TagsFor(d) : \A t \in TagsFor(d) : o[s] <= o[t]
ReverseMapping(o) == [d \in Slugs |-> LastTag(o, d)]

\* Mutant of Borrowed: an alias of a league without a row.
BorrowedUnchecked(s) ==
  IF leagueRow[s] # "none" THEN s
  ELSE IF s \in DOMAIN TagLeagueAliases THEN TagLeagueAliases[s] ELSE NoSlug

\* No alias of an alias, so the order of the tags does not matter.
Borrowed(s) ==
  IF leagueRow[s] # "none" THEN s
  ELSE IF s \in DOMAIN TagLeagueAliases /\ leagueRow[TagLeagueAliases[s]] # "none"
       THEN TagLeagueAliases[s] ELSE NoSlug

-----------------------------------------------------------------------------
QueryAllLeagues ==
  /\ step = "leagues"
  /\ leaguesBySlug' = [s \in Slugs |-> Borrowed(s)]
  /\ step' = "teams"
  /\ UNCHANGED <<page, leagueRow, match, tagToDbMappings, rows, pending, teamsMap>>

\* The query fails, or a row does: the handler goes on with no league.
QueryAllLeaguesFails ==
  /\ step = "leagues"
  /\ leaguesBySlug' = [s \in Slugs |-> NoSlug]
  /\ step' = "teams"
  /\ UNCHANGED <<page, leagueRow, match, tagToDbMappings, rows, pending, teamsMap>>

QueryTeamsResolved ==
  /\ step = "teams"
  /\ \E F \in Fuzzy : rows' = Exact \cup AliasMatch \cup F
  /\ pending' = rows'
  /\ \E o \in Orders : tagToDbMappings' = ReverseMapping(o)
  /\ step' = "merge"
  /\ UNCHANGED <<page, leagueRow, match, leaguesBySlug, teamsMap>>

\* Mutant of KeysOf: the plain key is not stored.
QualifiedKeysOf(x) ==
  {<<s, x[2]>> : s \in {league[x[1]], tagToDbMappings[league[x[1]]]} \ {NoSlug}}

\* The keys a row is stored under; NoSlug is the plain one.
KeysOf(x) == {<<s, x[2]>> : s \in {NoSlug, league[x[1]], tagToDbMappings[league[x[1]]]}}

MergeRow(x) ==
  /\ step = "merge"
  /\ x \in pending
  /\ pending' = pending \ {x}
  /\ teamsMap' = [k \in Keys |-> IF k \in KeysOf(x) THEN x[1] ELSE teamsMap[k]]
  /\ UNCHANGED <<page, leagueRow, match, step, leaguesBySlug, tagToDbMappings, rows>>

Merged ==
  /\ step = "merge"
  /\ pending = {}
  /\ step' = "enrich"
  /\ UNCHANGED <<page, leagueRow, match, leaguesBySlug, tagToDbMappings, rows,
                 pending, teamsMap>>

\* The query fails, or a row does: the handler goes on with no team at all.
QueryTeamsResolvedFails ==
  /\ step \in {"teams", "merge"}
  /\ teamsMap' = NothingFound
  /\ rows' = {}
  /\ pending' = {}
  /\ step' = "unresolved"
  /\ UNCHANGED <<page, leagueRow, match, leaguesBySlug, tagToDbMappings>>

-----------------------------------------------------------------------------
(* What the enrichment of an event reads.                                  *)

\* The first tag of event e in S.
FirstTag(e, S) ==
  LET found == {i \in DOMAIN e.tags : e.tags[i] \in S} IN
  IF found = {} THEN NoSlug ELSE e.tags[CHOOSE i \in found : \A j \in found : i <= j]

Known == {s \in Slugs : leaguesBySlug[s] # NoSlug}
Templated == {s \in Known : leagueRow[leaguesBySlug[s]] = "template"}
Specific == Known \ GenericSportsTags
FirstOf(a, b) == IF a # NoSlug THEN a ELSE b

\* Mutant of EventLeagueSlug: the first known tag, generic or not.
FirstKnownSlug(e) == FirstOf(FirstTag(e, Templated), FirstTag(e, Known))

EventLeagueSlug(e) ==
  FirstOf(FirstTag(e, Templated), FirstOf(FirstTag(e, Specific), FirstTag(e, Known)))

\* The league whose ordering EnrichSportsEvent takes.
EnrichLeagueSlug(e) == FirstOf(FirstTag(e, Specific), FirstTag(e, Known))

\* Mutant of TeamByLabel: the plain key is tried first.
TeamByPlainLabel(s, l) ==
  IF teamsMap[<<NoSlug, l>>] # NoTeam THEN teamsMap[<<NoSlug, l>>] ELSE teamsMap[<<s, l>>]

TeamByLabel(s, l) ==
  IF teamsMap[<<s, l>>] # NoTeam THEN teamsMap[<<s, l>>] ELSE teamsMap[<<NoSlug, l>>]

-----------------------------------------------------------------------------
Init ==
  /\ \E given \in Inputs :
       page = given.page /\ leagueRow = given.leagueRow /\ match = given.match
  /\ step = "leagues"
  /\ leaguesBySlug = [s \in Slugs |-> NoSlug]
  /\ tagToDbMappings = [s \in Slugs |-> NoSlug]
  /\ rows = {}
  /\ pending = {}
  /\ teamsMap = NothingFound

Next ==
  \/ QueryAllLeagues
  \/ QueryAllLeaguesFails
  \/ QueryTeamsResolved
  \/ \E x \in Teams \X Labels : MergeRow(x)
  \/ Merged
  \/ QueryTeamsResolvedFails

Spec == Init /\ [][Next]_vars

-----------------------------------------------------------------------------
\* leaguesBySlug leads to rows that the leagues table has.
TypeOK ==
  /\ \E given \in Inputs :
       page = given.page /\ leagueRow = given.leagueRow /\ match = given.match
  /\ step \in {"leagues", "teams", "merge", "enrich", "unresolved"}
  /\ leaguesBySlug \in [Slugs -> Slugs \cup {NoSlug}]
  /\ \A s \in Slugs : leaguesBySlug[s] # NoSlug => leagueRow[leaguesBySlug[s]] # "none"
  /\ tagToDbMappings \in [Slugs -> Slugs \cup {NoSlug}]
  /\ rows \subseteq Teams \X Labels
  /\ pending \subseteq rows
  /\ teamsMap \in [Keys -> Teams \cup {NoTeam}]

\* The leagues whose teams a slug stands for.
LeaguesBehind(s) ==
  {s} \cup IF s \in DOMAIN TagToDBLeagues THEN TagToDBLeagues[s] ELSE {}

\* db.go:505 and enrich.go:107 "prevent cross-league mismatches": what is
\* stored under "league|label" or "tag|label" is a team of that league, or of
\* one the tag expands to, however rows and maps are ordered.
QualifiedKeysStayInLeague ==
  \A s \in Slugs, l \in Labels :
    teamsMap[<<s, l>>] # NoTeam => league[teamsMap[<<s, l>>]] \in LeaguesBehind(s)

\* The slugs under which the teams of league d are stored for certain.
SureSlugs(d) == {d} \cup {s \in TagsFor(d) : TagsFor(d) = {s}}

\* An event whose league is the code of a team's league, or the one tag that
\* expands to it, shows a team of that league for a label that is exactly the
\* name of one, whatever namesakes other leagues on the page have and in
\* whatever order the rows come.
OwnLeagueWins ==
  step = "enrich" =>
    \A e \in SportsEvents, x \in Teams \X TeamLabels :
      LET g == EventLeagueSlug(e)
          t == TeamByLabel(g, x[2]) IN
      match[x] = "exact" /\ g \in SureSlugs(league[x[1]]) \ Umbrellas
        => t # NoTeam /\ league[t] \in LeaguesBehind(g) /\ match[<<t, x[2]>>] = "exact"

\* db.go:501-504: a label that matches some team of the leagues in question is
\* found, under whatever league the event has.
MatchedIsFound ==
  step = "enrich" =>
    \A e \in SportsEvents, x \in Teams \X TeamLabels :
      match[x] # "no" /\ league[x[1]] \in NormalizedLeagues
        => TeamByLabel(EventLeagueSlug(e), x[2]) # NoTeam

Rank(how) == CASE how = "no" -> 0 [] how = "similar" -> 1
               [] how = "alias" -> 2 [] how = "exact" -> 3

\* db.go:501-504, the three tiers: no key ever holds a team that matches the
\* label worse than another team of the leagues in question does.
BestTierOnly ==
  \A k \in Keys, t \in Teams :
    /\ teamsMap[k] # NoTeam
    /\ league[t] \in NormalizedLeagues
    => Rank(match[<<t, k[2]>>]) <= Rank(match[<<teamsMap[k], k[2]>>])

\* enrich.go:67-96 and 285-303 choose an event's league in two ways.  They
\* agree when the specific tags of the event stand for one league and no
\* generic tag has a template.
LeagueChoicesAgree ==
  \A e \in SportsEvents :
    LET specific == {leaguesBySlug[s] : s \in TagsOf(e) \cap Specific}
        row(s) == IF s = NoSlug THEN NoSlug ELSE leaguesBySlug[s] IN
    /\ Cardinality(specific) <= 1
    /\ TagsOf(e) \cap GenericSportsTags \cap Templated = {}
    => row(EventLeagueSlug(e)) = row(EnrichLeagueSlug(e))

=============================================================================
