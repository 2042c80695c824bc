---------------------------- MODULE MCSportsPage ----------------------------
(* A small instance of TransformV2 for TLC, with rows of the tables of db.go. *)
EXTENDS TransformV2

MCSlugs == {"sports", "politics", "soccer", "champions-league", "uefa", "ucl", "epl", "la-liga", "lal"}
MCTagToDBLeagues ==
  "soccer" :> {"epl", "ucl"} @@ "champions-league" :> {"ucl"} @@ "uefa" :> {"ucl"} @@
  "la-liga" :> {"lal"}
MCTagLeagueAliases == "champions-league" :> "ucl" @@ "uefa" :> "ucl" @@ "la-liga" :> "lal"
MCTemplateWith == [s \in MCSlugs |-> IF s = "lal" THEN "team" ELSE "flags"]

\* Real Madrid play in both leagues.
MCLeague == "rma-lal" :> "lal" @@ "rma" :> "ucl" @@ "ars" :> "ucl" @@ "fcb" :> "ucl"

\* The namesakes match in every way, Arsenal and Barcelona by name or not, and
\* Barcelona's team is close to Arsenal.
MCMatchings ==
  {[x \in Teams \X Labels |->
      CASE x = <<"rma-lal", "Real">> -> a [] x = <<"rma", "Real">> -> b
        [] x = <<"ars", "Arsenal">> -> c[1] [] x = <<"fcb", "Barcelona">> -> c[2]
        [] x = <<"fcb", "Arsenal">> -> c[3] [] OTHER -> "no"] :
     a \in Matches, b \in Matches,
     c \in {<<"exact", "exact", "similar">>, <<"no", "exact", "similar">>,
            <<"no", "no", "similar">>, <<"exact", "no", "no">>}}

Table(plain, templated) ==
  [s \in MCSlugs |-> IF s \in plain THEN "plain"
                     ELSE IF s \in templated THEN "template" ELSE "none"]
MCLeagueTables ==
  {Table({"lal", "sports", "soccer"}, {"ucl"}), Table({"ucl", "uefa"}, {"lal"}),
   Table({"sports", "soccer", "ucl"}, {})}

\* The yes or no of title, or a market of two sides.
YesNo(title, price, line) ==
  [title |-> title, question |-> "Arsenal", sides |-> <<"Yes", "No">>,
   prices |-> <<price>>, liquidity |-> 2 - price, moneyline |-> line]
Match(title, sides, line) ==
  [title |-> title, question |-> "Arsenal", sides |-> sides, prices |-> <<1, 2>>,
   liquidity |-> 1, moneyline |-> line]

Event(tags, game, markets, teams) ==
  [tags |-> tags, game |-> game, category |-> FALSE, markets |-> markets, teams |-> teams,
   apiLogo |-> {"Arsenal"}, apiAbbreviation |-> {"Barcelona"}]

MCPages ==
  {{Event(<<"sports", "soccer", "champions-league">>, FALSE,
          <<YesNo(NoLabel, 1, FALSE), YesNo("Barcelona", 0, FALSE), YesNo("Real", 2, FALSE)>>, {}),
    Event(<<"sports", "la-liga">>, TRUE, <<YesNo("Real", 1, TRUE)>>, {"Real"})},
   {Event(<<"sports", "ucl">>, TRUE, <<Match(NoLabel, <<"Arsenal", "Real">>, TRUE)>>, {"Barcelona"}),
    Event(<<"lal">>, TRUE, <<Match("Real", <<"Real", "Draw">>, FALSE)>>, {})}}

\* Single events, whose teams are not the point.
Lists(M, n) == UNION {[1..k -> M] : k \in 0..n}
MCMatches ==
  {Event(<<"sports">>, TRUE, ms, {}) :
     ms \in Lists({YesNo(t, 1, TRUE) : t \in {NoLabel, "Real", "Barcelona", "Draw"}} \cup
                  {YesNo(t, 0, FALSE) : t \in {"Real", "Draw"}} \cup
                  {Match(NoLabel, <<"Real", "Barcelona">>, l) : l \in BOOLEAN}, 3)}
MCGroups ==
  {Event(tags, FALSE, [i \in DOMAIN prices |-> YesNo(IF i = 1 THEN NoLabel ELSE "Real", prices[i], FALSE)], {}) :
     tags \in {<<"sports">>, <<"politics">>},
     prices \in Lists(0..2, 3) \cup {<<1, 2, 1, 0, 2, 1>>, <<2, 1, 1, 1, 1, 2>>}}
MCBinaries ==
  {Event(<<"politics">>, FALSE, <<Match(NoLabel, sides, FALSE)>>, {}) :
     sides \in {<<>>, <<"Real">>, <<"Real", "Draw", "Barcelona">>}}

MCInputs ==
  [page : MCPages, leagueRow : MCLeagueTables, match : MCMatchings] \cup
  [page : {{e} : e \in MCMatches \cup MCGroups \cup MCBinaries},
   leagueRow : {Table({}, {})}, match : {[x \in Teams \X Labels |-> "no"]}]

MCWidth == "host/" :> 40 @@ "l/" :> 2 @@ "u/" :> 2 @@ "." :> 1 @@ "webp" :> 4 @@
           "a" :> 1 @@ "r" :> 1 @@ "s" :> 1 @@ "m" :> 1 @@ "f" :> 1 @@ "c" :> 1 @@ "b" :> 1
MCDir == "lal" :> <<"host/", "l/">> @@ "ucl" :> <<"host/", "u/">>
MCExt == [s \in {"lal", "ucl"} |-> <<".", "webp">>]
Short == "rma-lal" :> <<"r", "m", "a">> @@ "rma" :> <<"r", "m", "a">> @@
         "ars" :> <<"a", "r", "s">> @@ "fcb" :> <<"f", "c", "b">>
Catalog(with) ==
  [abbreviation |-> Short,
   logo |-> [t \in DOMAIN Short |->
               IF t \in with THEN MCDir[MCLeague[t]] \o Short[t] \o MCExt[MCLeague[t]] ELSE <<>>]]
MCCatalogs == {Catalog({"rma-lal", "rma"}), Catalog({"rma-lal", "ars", "rma"})}
=============================================================================
