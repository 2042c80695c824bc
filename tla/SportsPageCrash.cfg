\* A league of which one team on the page has a logo and another has none.
CONSTANTS
  Slugs <- MCSlugs
  NoSlug = NoSlug
  Umbrellas = {"sports"}
  GenericSportsTags = {"sports", "soccer"}
  TagToDBLeagues <- MCTagToDBLeagues
  TagLeagueAliases <- MCTagLeagueAliases
  Labels = {"Arsenal", "Real", "Barcelona", "Draw", "Yes", "No"}
  NoLabel = NoLabel
  Yes = "Yes"
  No = "No"
  SideBets = {"Draw"}
  Teams = {"rma-lal", "rma", "ars", "fcb"}
  NoTeam = NoTeam
  league <- MCLeague
  Inputs <- MCInputs
  Parts = {"host/", "l/", "u/", ".", "webp", "a", "r", "s", "m", "f", "c", "b"}
  Width <- MCWidth
  Dir <- MCDir
  Ext <- MCExt
  Catalogs <- MCCatalogs
  TemplateWith <- MCTemplateWith
  CountryNames = {"Barcelona"}
SPECIFICATION PageSpec
INVARIANTS SamplesEstablishPattern
\* A request ends.
CHECK_DEADLOCK FALSE
