\* Pages of two events of the Champions League and La Liga.
CONSTANTS
  Slugs <- MCSlugs
  NoSlug = NoSlug
  Umbrellas = {"sports"}
  GenericSportsTags = {"sports", "soccer"}
  TagToDBLeagues <- MCTagToDBLeagues
  TagLeagueAliases <- MCTagLeagueAliases
  Labels = {"Arsenal", "Real", "Barcelona", "Draw", "Yes", "No"}
  NoLabel = NoLabel
  Yes = "Yes"
  No = "No"
  SideBets = {"Draw"}
  Teams = {"rma-lal", "rma", "ars", "fcb"}
  NoTeam = NoTeam
  league <- MCLeague
  Inputs <- MCInputs
  Parts = {"host/", "l/", "u/", ".", "webp", "a", "r", "s", "m", "f", "c", "b"}
  Width <- MCWidth
  Dir <- MCDir
  Ext <- MCExt
  Catalogs <- MCCatalogs
  TemplateWith <- MCTemplateWith
  CountryNames = {"Barcelona"}
SPECIFICATION PageSpec
INVARIANTS TypeOK OwnLeagueWins MatchedIsFound BestTierOnly LeagueChoicesAgree OwnLogoShown PeersGiveTheLogo FavouritesShown ParticipantsAreTraded MoneylineLeads
\* A request ends.
CHECK_DEADLOCK FALSE
