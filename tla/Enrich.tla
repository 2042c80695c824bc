------------------------------- MODULE Enrich -------------------------------
(***************************************************************************)
(* What handlers/enrich.go makes of the teams TeamResolve has found: the   *)
(* participants an event displays and their images, through the cascade of *)
(* ResolveTeamImage and, for a team without a logo, the URL that           *)
(* InferLeagueLogoPattern guesses from logos of its league.                *)
(*                                                                         *)
(* A URL is a sequence of parts, of which two different ones never begin   *)
(* or end alike; Width is their length.                                    *)
(***************************************************************************)
EXTENDS TeamResolve, SequencesExt

CONSTANTS Parts, Width,
          Dir, Ext,           \* how the URLs of a league's logos begin and end, if alike
          TemplateWith,       \* "team", "abbrev" or "flags": what a template holds
          CountryNames,       \* the labels countryNameToCode knows
          SideBets            \* the labels of draws, totals and spreads

ASSUME PartsAssumption == Width \in [Parts -> Nat \ {0}]

VARIABLE catalog  \* teams.logo and teams.abbreviation, <<>> when empty

NoImage == <<"none">>
Panic == <<"panic">>
Length(u) ==
  LET upTo[i \in 0..Len(u)] == IF i = 0 THEN 0 ELSE upTo[i - 1] + Width[u[i]] IN
  upTo[Len(u)]

-----------------------------------------------------------------------------
(* InferLeagueLogoPattern.  A team is in the map under several keys, and   *)
(* every key counts as a sample.                                           *)

HasLogo(t) == catalog.logo[t] # <<>> /\ catalog.abbreviation[t] # <<>>

\* Mutant of Peers: the league of a sample is not compared.
PeersOfAnyLeague(t) == {k \in Keys : teamsMap[k] # NoTeam /\ HasLogo(teamsMap[k])}

\* The keys whose teams are in the league of t and have a logo.
Peers(t) == {k \in Keys : /\ teamsMap[k] # NoTeam
                          /\ league[teamsMap[k]] = league[t]
                          /\ HasLogo(teamsMap[k])}

\* The first five of them, in the order of a map: how many, and their URLs.
Samples(t) ==
  {[number |-> Cardinality(S), logos |-> {catalog.logo[teamsMap[k]] : k \in S}] :
     S \in {S \in SUBSET Peers(t) : \/ S = Peers(t) /\ Cardinality(S) <= 5
                                   \/ Cardinality(S) = 5}}
CommonSuffix(U) == Reverse(LongestCommonPrefix({Reverse(u) : u \in U}))

\* remaining := first[len(prefix) : len(first)-len(suffix)] is out of bounds
\* when prefix and suffix overlap.
Spliced(first, prefix, suffix, abbreviation) ==
  LET remaining == Length(first) - Length(prefix) - Length(suffix) IN
  CASE remaining < 0 -> Panic
    [] remaining \in 0..5 -> <<"peers", prefix \o abbreviation \o suffix>>
    [] remaining > 5 -> NoImage

\* The pattern with the abbreviation of t in its place.
FromPeers(t, sample, first) ==
  LET prefix == LongestCommonPrefix(sample.logos)
      suffix == CommonSuffix(sample.logos) IN
  IF Length(prefix) > 10 /\ Length(suffix) > 4
  THEN Spliced(first, prefix, suffix, catalog.abbreviation[t]) ELSE NoImage

\* first is sampleLogos[0].
GuessedLogos(t) ==
  IF catalog.abbreviation[t] = <<>> THEN {NoImage}
  ELSE UNION {IF sample.number < 2 THEN {NoImage}
              ELSE {FromPeers(t, sample, first) : first \in sample.logos} :
                sample \in Samples(t)}

-----------------------------------------------------------------------------
(* ResolveTeamImage.                                                       *)

TeamLogoFromRaw(e, l) == IF l \in e.apiLogo THEN <<"api", l>> ELSE NoImage

Abbreviated(e, t, l) ==
  \/ t # NoTeam /\ catalog.abbreviation[t] # <<>>
  \/ l \in e.apiAbbreviation

DeriveTeamLogoURL(g, t, e, l) ==
  IF /\ g \in Templated
     /\ \/ TemplateWith[leaguesBySlug[g]] = "team"
        \/ Abbreviated(e, t, l)
        \/ TemplateWith[leaguesBySlug[g]] = "flags" /\ l \in CountryNames
  THEN <<"template", g, l>> ELSE NoImage

CountryFlag(l) == IF l \in CountryNames THEN <<"flag", l>> ELSE NoImage

\* The tiers after the team's own logo and its league's pattern.  The last two
\* of the code both return the market's image.
Fallback(e, g, t, l) ==
  LET tiers == <<TeamLogoFromRaw(e, l), DeriveTeamLogoURL(g, t, e, l),
                 CountryFlag(l), <<"market", l>>>> IN
  tiers[CHOOSE i \in 1..4 : tiers[i] # NoImage /\ \A j \in 1..(i - 1) : tiers[j] = NoImage]

\* The images that event e may show for label l.
ResolveTeamImage(e, l) ==
  LET g == EventLeagueSlug(e)
      t == TeamByLabel(g, l) IN
  IF t = NoTeam THEN {Fallback(e, g, t, l)}
  ELSE IF catalog.logo[t] # <<>> THEN {<<"logo", t>>}
  ELSE {IF u = NoImage THEN Fallback(e, g, t, l) ELSE u : u \in GuessedLogos(t)}

-----------------------------------------------------------------------------
(* The participants.                                                       *)

\* The elements of s at the positions in I, in their order.
At(s, I) ==
  [i \in 1..Cardinality(I) |-> s[CHOOSE n \in I : Cardinality({m \in I : m <= n}) = i]]

\* Mutant of Listed: the markets are not sorted.
ListedAsTheyCome(e) == e.markets

\* GetEventsV2 puts the moneyline markets of sports events first, stably.
Listed(e) ==
  LET lines == {i \in DOMAIN e.markets : e.markets[i].moneyline} IN
  IF IsSportsEvent(e)
  THEN At(e.markets, lines) \o At(e.markets, DOMAIN e.markets \ lines)
  ELSE e.markets

IsSportsGroupEvent(e) == IsSportsEvent(e) /\ ~e.game /\ Len(e.markets) > 1

YesPrice(m) == IF m.prices = <<>> THEN 0 ELSE m.prices[1]
Label(m) == IF m.title # NoLabel THEN m.title ELSE m.question

\* The first of the markets with the highest liquidity.
HighestLiquidityMarket(ms) ==
  ms[CHOOSE i \in DOMAIN ms :
       /\ \A j \in DOMAIN ms : ms[j].liquidity <= ms[i].liquidity
       /\ \A j \in 1..(i - 1) : ms[j].liquidity < ms[i].liquidity]

PrimarySportsMarket(ms) ==
  LET first == SelectInSeq(ms, LAMBDA m : m.moneyline) IN
  IF first # 0 THEN ms[first] ELSE HighestLiquidityMarket(ms)

IsYesNo(sides) == Len(sides) >= 2 /\ {sides[1], sides[2]} = {Yes, No}

ExtractVersusTeamNames(ms) ==
  LET named == At(ms, {i \in DOMAIN ms : ms[i].title \notin SideBets \cup {NoLabel}}) IN
  [i \in 1..Min({2, Len(named)}) |-> named[i].title]

VersusLabels(ms) ==
  LET sides == PrimarySportsMarket(ms).sides
      names == ExtractVersusTeamNames(ms) IN
  IF Len(sides) < 2 THEN <<>>
  ELSE IF IsYesNo(sides) /\ Len(names) >= 2 THEN names ELSE SubSeq(sides, 1, 2)

\* Position i of s is exchanged with every later one that is dearer.
Exchange(s, i, j) ==
  IF j > i /\ YesPrice(s[j]) > YesPrice(s[i]) THEN [s EXCEPT ![i] = s[j], ![j] = s[i]] ELSE s
Round(s, i) ==
  LET upTo[j \in 0..Len(s)] == IF j = 0 THEN s ELSE Exchange(upTo[j - 1], i, j) IN
  upTo[Len(s)]

\* The first n rounds.
Rounds(ms, n) ==
  LET after[i \in 0..n] == IF i = 0 THEN ms ELSE Round(after[i - 1], i) IN after[n]

\* Mutant of SortedMarketPrices: one round of exchanges only.
SortedMarketPricesOnce(ms) == Rounds(ms, Min({1, Len(ms)}))

SortedMarketPrices(ms) == Rounds(ms, Len(ms))

\* The five dearest, without those whose price is zero.
GroupLabels(ms) ==
  LET five == SubSeq(SortedMarketPrices(ms), 1, Min({5, Len(ms)}))
      dear == At(five, {i \in DOMAIN five : YesPrice(five[i]) # 0}) IN
  [i \in DOMAIN dear |-> Label(dear[i])]

\* The labels of the participants that EnrichSportsEvent builds.
Participants(e) ==
  IF IsSportsGroupEvent(e) THEN GroupLabels(Listed(e)) ELSE VersusLabels(Listed(e))
=============================================================================
