----------------------------- MODULE TransformV2 ----------------------------
(***************************************************************************)
(* A page of the events endpoint up to its answer: TransformEventV2 turns  *)
(* each event into its outcomes and, for sports, the participants of       *)
(* Enrich, all with images.  The cache that sits between is EventCache's.  *)
(***************************************************************************)
EXTENDS Enrich

CONSTANT Catalogs  \* the logos and abbreviations considered

ASSUME CatalogsAssumption ==
  /\ \A c \in Catalogs : c.logo \in [Teams -> Seq(Parts)] /\ c.abbreviation \in [Teams -> Seq(Parts)]
  /\ \A t \in Teams : Dir[league[t]] \in Seq(Parts) /\ Ext[league[t]] \in Seq(Parts)

VARIABLES todo,     \* the events that are not transformed yet
          answer,   \* what each of the others became
          crashed   \* a handler panicked, and the answer is a 500

pageVars == <<vars, catalog, todo, answer, crashed>>

-----------------------------------------------------------------------------
(* The outcomes.                                                           *)

Offer(m, l, p) == [market |-> m, label |-> l, price |-> p]

SideOffers(m, sides) ==
  [i \in DOMAIN sides |-> Offer(m, sides[i], IF i <= Len(m.prices) THEN m.prices[i] ELSE 0)]

\* Mutant of BuildMoneylineOutcomes: the other markets are left out.
BuildMoneylineOutcomesOnly(ms) ==
  LET titled == At(ms, {i \in DOMAIN ms : ms[i].title # NoLabel /\ ms[i].moneyline}) IN
  [i \in DOMAIN titled |-> Offer(titled[i], titled[i].title, YesPrice(titled[i]))]

\* One outcome for each market with a title.
BuildMoneylineOutcomes(ms) ==
  LET titled == At(ms, {i \in DOMAIN ms : ms[i].title # NoLabel}) IN
  [i \in DOMAIN titled |-> Offer(titled[i], titled[i].title, YesPrice(titled[i]))]

BuildSportsOutcomes(ms) ==
  LET main == PrimarySportsMarket(ms) IN
  IF IsYesNo(main.sides) /\ Len(ms) > 1
  THEN BuildMoneylineOutcomes(ms) ELSE SideOffers(main, main.sides)

\* sort.Slice promises no order between markets of one price.
GroupOffers(ms) ==
  {[i \in DOMAIN ms |-> Offer(ms[p[i]], Label(ms[p[i]]), YesPrice(ms[p[i]]))] :
     p \in {p \in Injection(DOMAIN ms, DOMAIN ms) :
            \A i \in 2..Len(ms) : YesPrice(ms[p[i - 1]]) >= YesPrice(ms[p[i]])}}

BuildBinaryOutcomes(m) ==
  LET sides == IF m.sides = <<>> THEN <<Yes, No>> ELSE m.sides IN
  SideOffers(m, SubSeq(sides, 1, Min({2, Len(sides)})))

Offers(e) ==
  LET ms == Listed(e) IN
  IF IsSportsEvent(e) /\ ~IsSportsGroupEvent(e) THEN {BuildSportsOutcomes(ms)}
  ELSE IF Len(ms) > 1 THEN GroupOffers(ms) ELSE {BuildBinaryOutcomes(ms[1])}

\* Each image is resolved by a call of its own.
ImagesOf(e, l) == IF IsSportsEvent(e) THEN ResolveTeamImage(e, l) ELSE {<<"market", l>>}
WithEach(lists, images) == {Append(s, u) : s \in lists, u \in images}
Images(e, labels) ==
  LET upTo[i \in 0..Len(labels)] ==
        IF i = 0 THEN {<<>>} ELSE WithEach(upTo[i - 1], ImagesOf(e, labels[i])) IN
  upTo[Len(labels)]

-----------------------------------------------------------------------------
Resolving == Next /\ UNCHANGED <<catalog, todo, answer, crashed>>

\* The events of a page do not depend on one another: they come in any order.
NextEvent == CHOOSE e \in todo : TRUE
Transforming == step \in {"enrich", "unresolved"} /\ todo # {}

TransformEventV2 ==
  /\ Transforming
  /\ LET e == NextEvent
         shown == IF IsSportsEvent(e) THEN Participants(e) ELSE <<>> IN
     \E outcomes \in Offers(e) :
       \E images \in Images(e, shown \o [i \in DOMAIN outcomes |-> outcomes[i].label]) :
         /\ Panic \notin Range(images)
         /\ answer' = [x \in DOMAIN answer \cup {e} |-> IF x # e THEN answer[x] ELSE
              [outcomes |-> outcomes, participants |-> shown, images |-> images]]
         /\ todo' = todo \ {e}
  /\ UNCHANGED <<vars, catalog, crashed>>

\* A slice is out of bounds: main.go:102, Recoverer answers 500.
Crash ==
  /\ Transforming
  /\ IsSportsEvent(NextEvent)
  /\ \E outcomes \in Offers(NextEvent) :
       \E l \in Range(Participants(NextEvent)) \cup {outcomes[i].label : i \in DOMAIN outcomes} :
         Panic \in ResolveTeamImage(NextEvent, l)
  /\ crashed' = TRUE
  /\ todo' = {}
  /\ answer' = <<>>
  /\ UNCHANGED <<vars, catalog>>

\* An event without a market is left out of the answer.
PageInit ==
  /\ Init
  /\ catalog \in Catalogs
  /\ todo = {e \in page : e.markets # <<>>}
  /\ answer = <<>>
  /\ crashed = FALSE

PageNext == Resolving \/ TransformEventV2 \/ Crash
PageSpec == PageInit /\ [][PageNext]_pageVars

-----------------------------------------------------------------------------
\* The labels event e shows, with their images.
Pictured(e) ==
  LET a == answer[e]
      n == Len(a.participants) IN
  {<<IF i <= n THEN a.participants[i] ELSE a.outcomes[i - n].label, a.images[i]>> :
     i \in DOMAIN a.images}

\* A label that is exactly the name of a team of the event's own league, the
\* teams of that name there having logos, is shown with such a logo: through
\* collection, query, merge and look-up, in any order and with any namesakes.
OwnLogoShown ==
  step = "enrich" =>
    \A e \in DOMAIN answer \cap SportsEvents : \A x \in Pictured(e) :
      LET g == EventLeagueSlug(e)
          own == {t \in Teams : league[t] = g /\ match[<<t, x[1]>>] = "exact"} IN
      /\ own # {} /\ g \notin Umbrellas /\ x[1] \in TeamLabels
      /\ \A t \in own : catalog.logo[t] # <<>>
      => x[2] \in {<<"logo", t>> : t \in own}

\* The logos of a league are spelled alike but for the abbreviation, of which
\* those of two teams neither begin nor end with the same part.
SpelledApart(c) ==
  LET logos == {t \in Teams : c.logo[t] # <<>> /\ c.abbreviation[t] # <<>>} IN
  /\ \A t \in logos : c.logo[t] = Dir[league[t]] \o c.abbreviation[t] \o Ext[league[t]]
  /\ \A t, u \in logos : t # u /\ league[t] = league[u] =>
       /\ Head(c.abbreviation[t]) # Head(c.abbreviation[u])
       /\ Last(c.abbreviation[t]) # Last(c.abbreviation[u])

\* enrich.go:212-265: whichever samples the map yields, if they hold two logos
\* and the league spells them apart, the logo guessed for a team is spelled
\* like its peers', or none is guessed, and the slice stays in its bounds.
PeersGiveTheLogo ==
  step = "enrich" /\ answer = <<>> /\ SpelledApart(catalog) =>
    \A t \in {u \in Teams : catalog.logo[u] = <<>> /\ catalog.abbreviation[u] # <<>>} :
      \A sample \in Samples(t) : Cardinality(sample.logos) >= 2 =>
        \A first \in sample.logos : FromPeers(t, sample, first) \in
          {NoImage, <<"peers", Dir[league[t]] \o catalog.abbreviation[t] \o Ext[league[t]]>>}

\* enrich.go:422-441 and transform_v2.go:132-168 sort the same markets in two
\* ways.  The participants of a group are its favourites all the same: as many
\* as have a price, five at most, and the i-th one is an outcome as likely as
\* the i-th outcome.
FavouritesShown ==
  \A e \in DOMAIN answer : IsSportsGroupEvent(e) =>
    LET o == answer[e].outcomes
        p == answer[e].participants IN
    /\ Len(p) = Min({5, Cardinality({i \in DOMAIN o : o[i].price # 0})})
    /\ \A i \in DOMAIN p : \E j \in DOMAIN o :
         o[j].label = p[i] /\ o[j].price = o[i].price

\* enrich.go:333-339 and transform_v2.go:465-469 each look for the teams of a
\* match whose main market says Yes and No.  When there are two teams to be
\* found, both displayed participants can be traded: each is an outcome's label.
ParticipantsAreTraded ==
  \A e \in DOMAIN answer : IsSportsEvent(e) /\ ~IsSportsGroupEvent(e) =>
    LET o == answer[e].outcomes IN
    \/ \A l \in Range(answer[e].participants) : \E i \in DOMAIN o : o[i].label = l
    \/ /\ IsYesNo(PrimarySportsMarket(Listed(e)).sides) /\ Len(e.markets) > 1
       /\ Len(ExtractVersusTeamNames(e.markets)) < 2

\* transform_v2.go:618 "ensures Outcomes[0] comes from the moneyline market
\* when available": through the sort of the page, the choice of the main market
\* and the outcomes made of all markets with titles, for the matches whose
\* first moneyline market has a title or sides of its own.
MoneylineLeads ==
  \A e \in DOMAIN answer : IsSportsEvent(e) /\ ~IsSportsGroupEvent(e) =>
    LET o == answer[e].outcomes
        i == SelectInSeq(e.markets, LAMBDA m : m.moneyline) IN
    /\ i # 0 /\ o # <<>>
    /\ e.markets[i].title # NoLabel \/ ~IsYesNo(e.markets[i].sides)
    => o[1].market.moneyline

\* enrich.go:233 "Need at least 2 samples to establish a pattern": with two
\* samples there is a pattern or none.  The code counts the keys of one team as
\* samples, takes its whole URL for prefix and for suffix, and panics.
SamplesEstablishPattern == ~crashed
=============================================================================
