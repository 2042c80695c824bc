# orion2.0 in TLA+

A verification project for the Go server in `src/`: a JSON API over Postgres
that serves prediction-market events and dashboards to signed-in users. The
modules here model the parts of it whose correctness depends on what happens
*between* two statements; TLC checks them on small instances and TLAPS proves
the safety properties, all of them, for every value of the constants.

```
tlasany RefreshTokens.tla
tlc -workers 2 -config RefreshTokensSafety.cfg MCRefreshTokens
tlapm RefreshTokensProofs.tla
```

`PROJECT.json` lists the runs, maps each definition to the lines of the source it
models, and names the hazards of the code with the properties aimed at them.

## The system

| component | source | state | operations | modelled in |
|---|---|---|---|---|
| refresh-token service | `internal/auth/service.go`, `models.go` | table `refresh_tokens` | `CreateRefreshToken`, `CreateRefreshTokenUntil`, `ValidateAndRotate`, `RevokeRefreshToken`, `RevokeAllForUser` | `RefreshTokens` |
| session handlers | `handlers/auth.go`, `handlers/profile_crud.go`, `middleware/refresh.go` | `users.pw`, the browsers' cookies | `Login`, `Signup`, `DemoLogin`, `OpaqueRefresh`, `Logout`, `UpdateProfilePassword`, `DeleteAccount`, `UpdateProfile` | `Accounts`, `Identity` |
| access tokens | `internal/auth/config.go`, `middleware/auth.go`, `internal/db/tokens.go` | table `token_blacklist`, signed JWTs in the wild | `IssueAccessToken`, `Auth`, `BlacklistToken`, `CleanupExpiredTokens`, `RequireRole` | `AccessTokens`, `Identity` |
| rate limiter | `middleware/ratelimit.go` | a map of limiters under a mutex | `RateLimit`, its clean-up goroutine | `RateLimit` |
| events endpoint and response cache | `handlers/events_v2.go`, `internal/cache/cache.go` | a `sync.Map` of enriched events | `GetEventsV2`, `ClearCache` | `EventCache` |
| users table | `internal/db/users.go` | table `users` | create, look up, change password, e-mail or role, delete | `Identity` |
| teams and leagues | `internal/db/db.go` | none (read only) | `QueryAllLeagues`, `QueryTeamsResolved` and the merge of their rows | `TeamResolve` |
| enrichment | `handlers/enrich.go` | none | pure functions of an upstream event and the teams and leagues | `TeamResolve`, `Enrich` |
| transformation | `handlers/transform_v2.go`, `transform.go`, `types.go` | none | pure functions of an upstream event and the participants | `TransformV2`, without statistics and badge |
| tags and navigation | `internal/db/db.go`, `handlers/topnav.go` | none (read only) | one query each | not modelled |
| dashboards | `internal/db/dashboard.go`, `handlers/dashboard.go` | none (read only) | queries; `relativeChange`, `ParseDepth` | not modelled |
| guards | `middleware/validation.go`, `origin.go`, routes in `main.go` | none | checks of one request | the order of `Auth` and `RequireRole`, in `Identity` |
| start and shutdown | `main.go` | the process | `EnsureDemoUser`, clean-up ticker, graceful shutdown | `Identity`, `AccessTokens` |
| scripts | `scripts/` | none | probes of remote services | not modelled |

How they interact: a route's middlewares run in order (origin, rate limit,
access token, role) and then its handler, which calls `internal/db` and
`internal/auth`; each call is one SQL statement on a pool, none of them in a
transaction with another. The handlers share with one another the database, the
limiters' map and the event cache, and nothing else. Several instances of
the server may run against one database, so only the database serialises what
touches it; the two in-memory structures are per process.

What is hard, by component:

* **Refresh tokens** are rotated with three or four statements. Everything
  interleaves there: two tabs, a replay, a password change, a logout, the
  deletion of the account; and every statement may fail before or after it
  took effect. Correct means: a token is replaced once, a session never forks,
  stays on its device, does not outlive its deadline, ends once and for all, and
  a replay ends the account's sessions.
* **Session handlers** check, then act, in separate statements; responses get
  lost and tabs overtake each other. Correct means: a changed password ends the
  older sessions, a logout ends its own, and an honest browser presents a
  token that was rotated only while it cannot know the successor.
* **Access tokens** are judged by two clocks. Correct means: logged out is
  logged out until the token has expired, and the blacklist does not grow.
* **Start-up and identities**: every server makes sure of the demo account with
  two or three statements before it listens, and may die between them, while other
  servers do the same and people sign up, move to another address, or delete
  the account; what an account may do is judged by the role that was read
  when a token was issued. Correct means: a server that listens has its demo account
  ready, a server that starts comes up in the end, and what was issued
  to an account before it became the demo account runs out.
* **Rate limiter**: a limiter is used after the mutex that protects the map it
  came from was released, while entries are evicted. Correct means: one bucket
  per client, as if nothing were ever evicted.
* **Event cache**: check-then-act on expiry, a fill with whatever the database
  could supply at the time, and a `Clear` that is a data race. Correct means: no
  answer older than the TTL allows, none incomplete, a cleared cache stays
  cleared, an outage does not last.
* **Teams of a page** come in any order, from tables that name leagues and tags in
  several ways, and are merged into one map in which later rows overwrite
  earlier ones. Correct means: an event shows the team of its own league and the
  best match there is, on every order, and a missing logo is guessed from teams
  of the same league or not at all.
* **Outcomes and participants** of an event are computed apart, from the same
  markets, by rules of their own. Correct means: what is displayed is what can be
  traded, favourites first, the moneyline before other bets.

## Modules

### RefreshTokens, SessionFamily

`RefreshTokens` has the table (`rows`), the calls under way (`call`, the program
counter and locals of `ValidateAndRotate` and `RevokeRefreshToken`), `users.role`
and a clock. One action is one SQL statement with the Go code up to the next:

| code | action |
|---|---|
| `ClaimActive` returns a row / none / an error (service.go:127) | `RotateClaim`, `RotateMiss`, `RotateClaimError` |
| `GetByTokenHash` (134) | `RotateLookup` |
| `RevokeAllForUser` after a replay (144) or a mismatch (153) | `RotateReplay`, `RotateMismatch` |
| `userRole` (163) | `RotateRole` |
| `CreateRefreshToken[Until]` (176, 181) | `RotateInsert`, `RotateInsertExpired`, `RotateInsertError` |
| a SELECT that fails | `ReadError` |
| `RevokeRefreshToken` (200, 212) | `RevokeLookup`, `RevokeByID` |
| the interface called directly | `CreateRefreshToken`, `CreateDemoToken`, `RevokeAllForUser` |
| `SetUserRole`, `DeleteUser` | the same names |

`Faults` says how a failing statement may leave the table: `"lost"`, it did
nothing, or `"applied"`, it took effect and the connection broke on the way back.
Random bits are a token not chosen before, hashing is a bijection, a device is
its fingerprint. `family` and `parent` are history variables: which login a token
descends from and which token it replaced. `RoomForOne` keeps a fresh raw
token for every rotation under way; it bounds the model, not the code.

`SessionFamily` is what the user is promised: a session is opened, is held by the
browser or being exchanged by one request, and closed for good. `Sessions`
in `RefreshTokens` is the refinement mapping.

### Accounts

`Accounts` EXTENDS `RefreshTokens` and composes its statements into handlers, with
the password column and one cookie per browser. `task[r]` is where a handler is,
for instance `UpdateProfilePassword`: `ChangeCheck` (bcrypt, :88), `ChangeStore`
(:96), `ChangeRevoke` (:105), `ChangeFresh` (:110), each with its failure.
`Deliver` is the response reaching the browser, or not. With `Tabs` a browser has
several requests under way, with `Lossy` responses get lost. `opened`, `signedOut`,
`late` and `raced` are history variables that say which sessions a password
change was bound to end and which ones it raced with; `missed` has the browsers
that lost a response with a cookie and got no other since. The service takes a browser
for a thief when it presents a token that was rotated. `RotatedIsRenewed` says when a browser has
one: while the response with the next is on its way, whatever its other
tabs do, or after it was lost; a new request with that cookie is the second tab, or the retry, of
service.go:141. `HonestReplayIsFalseAlarm` follows the cookie into the service's
replay branch, where without tabs and losses it never arrives. `ChangeEndsSessions` is about the
failures of a password change: a change that goes on to give its caller a fresh
session has ended the older ones. (A change whose revocation fails is answered 500
with the new password in force and every old session alive; the caller's
session is not renewed then.) `LogoutEndsSession` is about
the call of `RevokeRefreshToken` that was answered without an error: the session of the
cookie is over, unless that cookie was no longer the session's last token.

### AccessTokens

Claims, blacklist, the requests in `middleware.Auth` and two clocks: the
server's `now`, which signs and parses, and the database's `dbNow`, `Ahead` ticks
before it, which the blacklist query and the cleanup use. A request is parsed,
then checked against the blacklist, then admitted; `late` remembers that its
token had been logged out before it arrived. Cleanup and cascade are actions.

### Identity

The users table with e-mail, password (an owner's or the environment's) and role,
and the servers that start on it. `StartUp` is main.go:44-84: `Start` (with a
database, or "without DB features"), `LookUp`, then `CreateDemoUser`, or
`UpdateUserPassword` and `SetUserRole`, one action per statement of `EnsureDemoUser`;
`ExitOnError` is os.Exit, `Kill` a signal or crash at any point. A request is one step
that reads the row (`Login`, `DemoLogin`, `Signup`, `Refresh`, and `Admit` for the three
handlers behind `RequireRole`) and later ones that rely on what was read
(`Issue`, `Renew`, `UpdateUserEmail`, `ChangePassword`, `RevokeSessions` and `StoreFresh`,
`DeleteUser`), or `GiveUp`, which between `ChangePassword` and `RevokeSessions` is the
500 that leaves the new password in force and the old sessions alive. Access tokens and sessions are sets of (account,
dates); revocation only takes from them, so `Logout` and the replays of
`RefreshTokens` are left out here. The password check of a handler is no guard:
whoever knows the password of the moment is let in, and the row it was read
from may change afterwards. `born` and `became` say which accounts
`CreateDemoUser` made and when another became the demo account, `touched` that a
request changed a server's demo account since the server looked it up.

### RateLimit, TokenBucket

`visitors` is the map, `lim` the limiters on the heap; `Acquire` is the locked
section, `Pass` and `Reject` the `Allow` after it, `Sweep` the goroutine. `rate.Limiter`
is external: its lazy refill is modelled by `Credit`. `TokenBucket` is a bucket
per client with no table, and `window` and `spent` an observer that counts what
a client gets in any window it likes.

### EventCache

A request fetches a page (`Fetch`), asks for leagues and teams (`Query`; a failure
empties the map and the page goes on), then for each event `Load`s the cache,
`Delete`s an expired item, `Skip`s or `Set`s. An event's content is known by when it
was fetched and whether both queries had answered. `Clear` assigns a new `sync.Map`
over the old one without synchronisation, which is undefined behaviour: between
`ClearBegins` and `ClearEnds` the others' operations may take effect or not, a
handler may panic, the process may die (`Restart`).

### TeamResolve, Enrich, TransformV2

`TeamResolve` is one request of the events endpoint between the page and its
enrichment: `QueryAllLeagues` with the aliases it adds (db.go:458), the
labels and tags `GetEventsV2` collects (`TeamLabels`, `TargetLeagues`), the three
tiers of `QueryTeamsResolved` (`Exact`, `AliasMatch`, `Fuzzy`), and `MergeRow`, once for
each row in any order, which overwrites up to three keys of `teamsMap`. Two maps of
Go are ranged over; `Orders` are the orders of the one whose order matters, the
reverse mapping of tags. What an event makes of the result are operators:
`EventLeagueSlug`, `TeamByLabel` and, for the participants' order, `EnrichLeagueSlug`.

`Enrich` EXTENDS it with the operators of enrich.go: `ResolveTeamImage` is the cascade,
and `InferLeagueLogoPattern` is `Samples` (any five of the entries, since a map is
ranged over), the two common affixes, and `Spliced`, whose slice panics when its
bounds cross. `Participants` are those of the display: two teams (`VersusLabels`) or the
favourites of a group (`GroupLabels`, over the exchange sort `SortedMarketPrices`).

`TransformV2` EXTENDS `Enrich` with the outcomes of the four kinds of event (`Offers`)
and is the request as a whole: `Resolving` is a step of `TeamResolve`,
`TransformEventV2` adds one event to the answer, every image resolved by a call of
its own, and `Crash` is the 500 of the recoverer. `sort.Slice` promises no order
between equal prices, and `GroupOffers` has them all.

## Runs

| run | question | instance |
|---|---|---|
| `rotation_safety` | single use, no fork, device and demo deadline with two interleaved calls and every kind of failure | 1 account, 2 devices, 3 tokens, 2 calls |
| `rotation_sessions` | does the service implement `SessionFamily`, where ended sessions stay ended; liveness: a noticed replay is followed by revocation | 1 account, 2 devices, 2 tokens, 2 calls, no failures |
| `handlers` | password changes, logouts and rotated cookies with tabs and lost responses | 1 account, 2 browsers, 3 tokens, 2 requests, 2 changes |
| `handlers_serial` | password changes, logouts and apparent replays with failing statements and browsers that send one request at a time | the same, 1 change |
| `access_tokens` | does logout hold with clocks apart; liveness of the cleanup | 2 accounts, 2 tokens, 2 requests, database 1 tick ahead |
| `identity` | is the demo account ready on a server that is up; do stale roles and sessions run out; liveness of the start | 2 servers, 2 accounts, 2 addresses, 1 request, 3 ticks |
| `rate_limit` | the limiter implements the token bucket | 2 clients, 3 limiters, 2 requests, 6 ticks |
| `event_cache` | freshness, completeness, outage, Clear | 1 event, 2 requests, 3 ticks |
| `sports_page` | does each event find its own league's team and logo, in every order of rows and maps; do participants and outcomes agree | 2 pages of 2 events, 9 slugs, 4 teams, 64 matchings, 3 league tables, 2 sets of logos; 672 pages of one event: every list of up to 3 markets of 8 kinds, groups of up to 6 prices |

Why these bounds are enough. Two calls are what every race here takes: each
property relates one statement of a request to what another request does
between its statements. Three tokens are a login and two rotations, or two logins and
one: a family with a grandparent, or a second family to be revoked. Two
devices allow a mismatch. Deadlines of one or two ticks let a token expire
before, between and after the statements of a rotation. Three limiters
are one more than the clients, so that a re-created entry gets another limiter
than the one a stalled request holds; `Idle` = 4 with `Cap` = 3 and `MaxStall` = 1 is the
tightest case `StallAssumption` allows. One event suffices in the cache because
items of different keys are independent, three ticks are a TTL, a stall and one
to spare. For
identities, two servers are what a race of two starts takes and a request between
them is the third actor; one of the accounts may be there before, with the
demo's address or not, the other key is left for `CreateDemoUser`; 3 ticks are
`AccessTTL + 2 * MaxStall`, after which an account is settled, and the bound is
tight: with one tick less TLC finds a request that changes it. There is at most one
token and one session at a time (`MaxHeld`), since no property relates two. The
database is away at the first instant only, and no server is killed and no
request begins at the last one. For the teams, two namesakes in two leagues on one page are what
a cross-league mismatch takes; a third tag for one league
and a tag for two leagues give the reverse mapping its choice; the first page
shows a label, taken from a question, that is not queried; the three league
tables differ in which of a tag and its league have a row and a
template. The pages of one event have no teams to be found: they vary the
markets, of which three make every order of a moneyline, a draw and a total, and
six make the limit of five matter. Deadlock is not checked where every account may be deleted, every
token used and the clock be at its bound (`AccessTokens`, `Accounts`, `Identity`), nor where the
model is one request, which ends (`SportsPage`).

Runs that expect a violation are disagreements between the code and what it says
of itself:

| run | said | found |
|---|---|---|
| `replay_misses_rotation` | service.go:119, "ALL of the user's refresh tokens are revoked" | a rotation between claim and insert stores its token after the revocation |
| `password_change_caller` | profile_crud.go:103, "so the caller stays logged in" | the next refresh of any signed-out browser counts as a replay and ends the caller's session |
| `sports_page_crash` | enrich.go:233, "Need at least 2 samples to establish a pattern" | one team with a logo is in the map under several keys and counts as several samples; prefix and suffix are its whole URL and the slice panics |

Other comments disagree with the code in ways that need no run of their own: `maxGammaResponseBytes`
(events_v2.go:61, "bounds memory used per upstream response") is used nowhere; a users
row is missing (tokens.go:42, "shouldn't happen") whenever somebody logs out with an
access token that outlived the account, and the logout is answered 500; and a
revoked token does not mean that "a leaked token was already rotated"
(service.go:142), since logouts, password changes and other sessions' mismatches
revoke tokens too. "Sign out every other session" (profile_crud.go:102)
leaves the session of a login that compared the old password before the change
and stores its token after the revocation; `OldSessionsEnd` has it as its
exception. "Logout revokes the current session" (auth.go:235) fails by the
race of `replay_misses_rotation`: a refresh in another tab that has claimed the
token stores its replacement after the logout was answered; `LogoutEndsSession`
says that nothing but such a rotation, or a lost response, leaves the
session alive. "Prevent
cross-league mismatches" (enrich.go:107) holds for an event whose league is a
code or the only tag that expands to it (`OwnLeagueWins`). When several tags
expand to one league (`champions-league`, `uefa` and `soccer` to `ucl`), only the one
that comes last in a random order has the qualified keys, and an event known by
another falls back on whichever namesake's row came last. And
the example at enrich.go:237 yields no pattern, because ".png" is not longer than
four characters. "Take top 5, skip outcomes with zero probability"
(transform_v2.go:245) is followed by a loop that takes them all. "Ensures Outcomes[0]
uses moneyline" (events_v2.go:242) holds for matches (`MoneylineLeads`) whose first
moneyline market has a title or sides of its own: the outcomes of a group are
sorted by price, and a Yes or No without a title is left out. And a
match of Yes or No markets that name fewer than two teams displays "Yes" and "No",
while its outcomes are the titles of its markets (`ParticipantsAreTraded` has it as
its exception).

"Rotation must not extend it" (config.go:23) is
true of a demo login, but an ordinary login to an account that is made the demo
account lives to the end of its seven days, as `DemoSessionsEnd` says.

The properties that hold say what remains true: `OldSessionsEnd` that only requests
under way at the moment of the revocation escape a password change,
`NoticedMeansRevoked` that every token stored when a replay is noticed is
revoked, `LogoutHolds` that a logged-out access token gets in only past its expiry
on the database's clock or after its account was deleted (which cascades to the
blacklist).

## Fairness

`rotation_sessions` assumes weak fairness of each request's own steps: the Go
scheduler runs every goroutine, every statement returns, the request's context
ending it if nothing else does. Statements do not fail in that run, because a
revocation that fails is only logged (service.go:145) and never tried again.
`identity` assumes that a supervisor starts a server again that exited and that its
start-up goes on (there is a demo password to be checked and a database to be
asked, each with the five seconds of main.go:75), that a request proceeds, and that the
clock runs; nobody is assumed to log in, and nothing keeps servers from
being killed. `access_tokens` adds the clock and the cleanup ticker (main.go:53-62); a
cleanup that fails is tried again a tick later. No fairness is assumed of users,
browsers or operators, and none in any safety run.

## Proofs

| module | theorems |
|---|---|
| `RefreshTokensProofs` | `Invariance`, `TypeCorrect`, `TokensAreSingleUse`, `SessionsNeverFork`, `SessionsStayOnTheirDevice`, `DemoLoginsAreCapped`, `Refinement` (of `SessionFamily`), `EndedSessionsStayEnded` |
| `AccountsProofs` | `AccountsInvariance`, `HandlersKeepTheService`, `OldSessionsAreEnded`, `BrowsersInvariance`, `RotatedIsAlwaysRenewed`, `ChangesEndSessions`, `HonestReplaysAreFalseAlarms`, `LogoutsEndSessions` |
| `AccessTokensProofs` | `Invariance`, `TypeCorrect`, `LoggedOutStaysOut` |
| `IdentityProofs` | `Invariance`, `TypeCorrect`, `DemoIsReady`, `SessionsOfDemoAccountsEnd`, `DemoAccountsSettle` |
| `RateLimitProofs` | `Invariance`, `TypeCorrect`, `Refinement` (of `TokenBucket`), `NoClientGetsMore`, `LimitersStayCurrent`, `RefusalsAreDue` |
| `EventCacheProofs` | `Invariance`, `AnswersAreFresh`, `OutagesPass`, `ClearedStaysCleared`, `AnswersAreComplete` |
| `TeamResolveProofs` | `TeamsInvariance`, `TypeCorrect`, `TeamsStayInLeague`, `BestMatchesOnly`, `MatchesAreFound`, `OwnLeaguePrevails`, `OneLeagueIsChosen` |
| `TransformV2Proofs` | `PageInvariance`, `PageReadsTeams` (a page refines `TeamResolve`), `PageTeams`, `OwnLogosAreShown`, `PeersSpellTheLogo`, `FavouritesAreShown`, `ParticipantsCanBeTraded`, `TheMoneylineLeads` |

The assumptions are the `ASSUME`s of the modules: constants are naturals (lifetimes
and `Cost` positive), the null values are outside the sets they stand for, and for
the limiter `StallAssumption`: a request stalled between unlock and `Allow` and the
refill of a bucket together take less than the five minutes after which an
entry is dropped (the refill takes 2 or 2.5 seconds). It is needed: without it a
stalled request can be charged to a limiter that is no longer its client's.
For the teams, `TagsAreNoLeagues` and `AliasAssumption` are facts about the tables at
db.go:18-50: no tag there is itself the code of a team's league, and no alias
leads to another alias. `PartsAssumption` and `CatalogsAssumption` are the types of the
URLs: a logo or an abbreviation is a sequence of parts, possibly empty, and every
part has a positive width. How a league spells its logos is no assumption but the
condition `SpelledApart` of the property.

* **RefreshTokens.** That a session has one live token is not inductive: a rotation
  that has claimed a token is about to store another one. `LinearFamily` therefore
  counts live tokens and claims together, `NoSuccessorYet` says that neither has a
  successor (so `SingleUse` survives the next insert), `Provenance` that only
  minted tokens are presented, `ClaimsAgree` and `CallsSound` that the row a call
  remembers is the one it claimed until the account is deleted, and `OwnersExist`
  and `DemoKnown` that a rotation of a demo login's token reads the role demo or
  none.
* **SessionFamily.** A step changes the state of families as `Open`, `Take`, `Give` or
  `Close(S)`, S being the families that had a live token or a claim and have none
  after it; all other families keep theirs. `EndedSessionsStayEnded` follows.
* **Accounts.** `OldSessionsEnd` needs the requests that are about to break it:
  `OvertakenKnown` says that each was overtaken by the revocation (`late`) or its
  session has been raced already. `PasswordsGrow` orders the passwords. Because
  every step of a handler is a step of the service or leaves it alone
  (`HandlersKeepTheService`), the service's theorems hold of the composition. The
  handlers' runs check two small settings of `Tabs`, `Lossy` and `Faults`; the
  theorems cover them all, `OldSessionsAreEnded` with failing statements included.
* **Accounts, failing changes.** `ChangesRevoked`: who is about to store, or has stored, the
  fresh session of a change has raised `signedOut` to its password; so
  `ChangeEndsSessions` follows from `OldSessionsEnd`.
* **Accounts, the browsers.** A cookie is set by a response, so `CookiesFit` follows a
  token from its insert: what a browser has, is sent (`Granted`) or will be sent was
  generated for it and for no other browser. `GrantsAreNew` says that until it arrives
  nobody has it, presents it or has rotated it, so that a cookie that arrives has no
  successor; and `SentIsOwn` that a rotation can give a successor only to the cookie of the browser
  that asked, whose answer is then on its way or lost (`RotatedIsRenewed`, for all
  `Tabs`, `Lossy` and `Faults`). Without tabs a token under way is
  still the cookie of its browser (`OneRequestEach`), and without losses `missed` is empty,
  so that a request that presents a rotated cookie is the one whose answer replaces
  it; a replay cannot be of such a cookie. For the logout, `LastIsAlone` says that where a
  session has a token without successor, only that token can work or be in
  rotation, and `LogoutsRevoked` that the token of a logout answered without error stays
  dead: a statement never revives a token that was generated before
  (`DeadTokensStay`). `KeepAssumption` only keeps the model's answer "no cookie
  set" apart from the tokens.
* **AccessTokens.** `LoggedOutListed`: a logged-out token is in the table, past its
  expiry on the database's clock, or its account is gone.
* **Identity.** A demo account cannot be changed through `RequireRole`, except by who
  read its role before it was one. `TokenSound` and `TaskSound` bound when
  that can have been: a token that says user, or a request that read it, was
  issued before `became`, and a request it let in is younger than `AccessTTL`
  and one stall (`DemoAccountSettles` adds the second). `SessionSound` bounds
  the deadline by the opening or by `became`, which the rotation of a demo session
  keeps. `ServerSound` says what a start has done so far unless a request `touched`
  the account since. Most steps only go `Onward`: a row that exists stays one, and
  an account that is a demo account was one before or is from now on.
* **RateLimit.** `Accounted` adds what a client has spent to what it has; `Charged` and
  `NotStalled` bound how far a limiter's last use can lie after its last sighting,
  so that an entry that is dropped has a full bucket and the refinement may map
  "no entry" to `Cap`.
* **EventCache.** A request in time holds nothing older than `MaxStall`
  (`PagesSound`), so an item stored by one expires at most `MaxStall` + `TTL` after its
  fetch (`ItemsSound`); `TouchedSound` carries `ClearHolds` through a `Clear`.

* **TeamResolve.** `RowsSound` and `RowsComplete` say what the query selects: only the
  best tier of each label, and something for every label that has a match.
  `MappingSound` bounds the random reverse mapping: to a league it gives a tag
  that expands to it. `KeysSound` says that every entry comes from a row stored
  under that key, `MergedSound` that a merged row's keys are filled.
  They are inductive over `MergeRow` in any order, because overwriting
  replaces one row with another of the same key; `OwnLeagueWins` then needs
  `TagsAreNoLeagues`, without which a tag's duplicate could fill the
  qualified key of another league. `OneLeagueIsChosen` follows from the types: an event's
  first tag with a template is then one of its specific tags, all of which stand for
  the league of the first of them.

* **TransformV2.** `PageIInv` says that nothing is answered before the teams are read,
  and that each answer is what `TransformEventV2` makes of its event: outcomes among
  its `Offers`, its participants, and an image for each label among its `Images`. It
  is inductive because outcomes and participants are functions of the event, and
  images depend on what the page has read, which no later step changes
  (`ImagesStay`). Everything else is about the operators:
  * The recursive functions (`Length`, `Images`, `Round`, `Rounds`) exist by `Recursion`,
    and what they compute follows by `Counting`, both from the least
    element of a set of numbers; no induction theorem with an operator is needed.
  * enrich.go's loops sort: `Reached` is the invariant of the inner loop, `Led` that of
    the outer one, and an exchange only permutes (`Arrangement`). `FavouritesAreShown`
    compares that order with any that `sort.Slice` may produce: in two
    falling orders of the same prices the i-th prices are equal (`NotDearer`, by the
    pigeonhole principle), so both have their priced markets first and as many of them.
  * `PeersSpellTheLogo`: two different logos of a league that spells them apart
    differ right after the directory and right before the extension, which are
    therefore the common prefix and suffix (`PatternFound`), and the slice between
    them has the length of the first sample's abbreviation. The keys of one
    team, however many there are, give one logo; that is why the property asks for two.
  * `OwnLogosAreShown`: by `OwnLeagueWins`, which follows from the invariant of
    `TeamResolve` and therefore from `PageIInv`, the team that is found belongs to the event's league and has the
    label for a name, and has a logo of its own then.
  * `ParticipantsCanBeTraded` and `TheMoneylineLeads`: sorting moneyline markets first
    is a rearrangement (`Rearranged`), so as many markets name teams before as after, and
    the first moneyline market is first, main, and first among the outcomes.

Only model-checked: the liveness properties `NoticedMeansRevoked`, `BlacklistEmpties` and
`ServersComeUp`, since fairness and ENABLED are out of the prover's reach. The
violated properties (`ReplayRevokesFamily`, `CallerStaysLoggedIn`, `SamplesEstablishPattern`)
are refuted by TLC's traces.

## What is abstracted, and what is left out

* Times are ticks. The bounds `MaxTime`, `MaxChanges`, `RoomForOne`, `Room` and `MaxStall`
  limit the models; `MaxStall` in `EventCache` stands for the time a request takes
  after its fetch, which `chiMiddleware.Timeout(60s)` bounds through the queries'
  context.
* `rate.Limiter.Allow` takes its own mutex and is atomic here.
* `EventCache` has sports events only: the others are transformed without the
  database and differ in nothing the cache can tell. Two `Clear`s that overlap
  count as one. Rows of the pages are a set: an upstream page lists an
  event once.
* `Accounts` has no sign-ups and no changes of e-mail or role: those are `Identity`'s,
  where a session is known by its dates only. A process that dies between two
  statements of a handler is, in `RefreshTokens` and `Accounts`, the next
  statement failing; in `Identity` it is `GiveUp` and `Kill`.
* Graceful shutdown lets requests end before the process does. They may end at
  any statement in the models, so that it is a `Kill` like any other.
* `refresh_tokens` is never cleaned and the cache's `CleanupExpired` is never
  called. Both grow; no operation of the code is there to be checked.
* `TeamResolve` has slugs in lower case and labels as `NormalizeTeamKey` leaves
  them; the code compares tags with and without case in different places, and the
  upstream's slugs are in lower case. Which of the close names
  `word_similarity` prefers is left open.
  `Enrich` has URLs as sequences of parts with their widths, parts that
  never begin or end alike, so that common affixes end where parts do.
* SQL that only reads, JSON and HTTP details, the scripts and the front end's
  assets are not modelled.

## Not modelled

* The queries of tags, navigation and dashboards, and the profile page: each is one
  read-only statement whose rows are answered as they come. What they compute is
  computed by Postgres; there is no state and no order of steps in the
  server that could go wrong.
* The checks of a request's body, query and origin: functions of one request.
* `handlers/transform.go`: `TransformEvent` is called by tests only. The helpers
  `transform_v2.go` takes from it are in `Enrich` and `TransformV2`.
* The scripts, which are run by hand against remote services.
* `CleanupExpired` of the cache, which nothing calls.
