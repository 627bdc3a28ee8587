# GoMa'luum in TLA+

GoMa'luum is an HTTP API over i-Ma'luum, the student portal of IIUM. A client
logs in once and gets a PASETO token that carries its sealed credentials; with
every later request the server opens the token, finds or makes an i-Ma'luum
session (a `MOD_AUTH_CAS` cookie), scrapes the portal's pages and answers in
JSON. This directory holds TLA+ models of the parts where its correctness is
decided, TLC configurations that check them, and proofs for TLAPS.

`PROJECT.json` is the index: components, runs, mutants, the map from each
definition to the lines it models, findings, hazards and theorems.

## 1. The system

| component | code | state | operations | modelled in |
|---|---|---|---|---|
| Token manager (L1) | `pkg/sf/singleflight.go` | map user -> cookie and expiry; the singleflight group | `GetToken`, `Invalidate` | `TokenManager` |
| Session recovery | `internal/server/paseto.go`, `scrape.go`, `middleware.go`, `indexer.go` | L1, the cookie GEI keeps (L2), the request's cookie | `PasetoAuthenticator`, `sessionFunc`, `refreshSession`, `runWithRetry` | `SessionRecovery` |
| Profile, downloads, logout | `profile*.go`, `downloads.go`, `auth.go` | none of their own | a page and its data; a PDF; the CAS logout page | `SessionRecovery` |
| PASETO tokens, API keys | `internal/server/auth.go`, `paseto.go`, `pkg/paseto`, `pkg/apikey` | one `paseto.Token` object for all logins | `LoginHandler`, `GeneratePasetoToken`, decoding | `PasetoTokens` |
| Worker pools | `schedule.go`, `result.go`, `schedule_spa.go` | two channels, a shared atomic flag, the replies | feeder, 5 workers, collector | `ScrapePool` |
| Schedule cache | `schedule.go`, `indexer.go` | schedules of past semesters in GEI | `ScheduleHandler`, `resolveSchedules` | `ScheduleCache` |
| Session order | `pkg/utils/sort_sessions.go` | none | `SortSessionNames` | `ScheduleCache` |
| Row parsers | `carry_mark.go`, `starpoint.go`, `result.go`, `final_exam.go`, `disciplinary.go` | accumulators kept from row to row and over the retry | colly callbacks | `RowParsers` |
| Lifecycle | `main.go`, `server.go` | the process, its database connection, requests in flight | `NewServer`, `gracefulShutdown`, the end of `main` | `Lifecycle` |
| Analytics | `analytics.go` | a PostgreSQL table; a goroutine per request | `UpdateAnalytics`, the summary | `Analytics`, `Lifecycle` |
| Migration | `scripts/migrate_analytics.go` | the old table, the records still to be copied | one run, in steps | `Migration` |
| Relay transport | `relay.go` | a round-robin counter | `RoundTrip` | not modelled |
| Public endpoints | `ads.go`, `academic_calendar.go`, `health.go`, ... | none | one fetch, or none | not modelled |
| Errors, DTOs, constants, logging, generated code | `internal/errors`, `internal/dtos`, ... | none | | not modelled |

How they interact. The middleware opens the token and calls
`TokenManager.GetToken` with `sessionFunc` as its refresh; the leader of a
flight runs it: GEI first, then the login service (GAS, over gRPC), then GEI
again to persist. The handler receives the cookie in its context, and scrapes
through `scrapeWithRetry`; when a page turns out to be the login form, the
attempt is *stale*: `refreshSession` evicts L1 and L2, takes a cookie again and
the attempt is made once more. Schedule and result attempts use a pool of
workers that share the cookie and one flag. The schedule handler also reads and
writes the schedules that GEI keeps. Every authenticated request leaves a
goroutine behind that counts its student in PostgreSQL; the shutdown waits for
requests, up to five seconds, and not for these. The migration tool is a program
of its own that writes the same table.

What is hard here: L1, L2 and i-Ma'luum each hold an opinion of which session is
live, and requests change all three without a common lock; a caller may be
served by another caller's refresh; every call of GEI is best effort; a page of
the login form has status 200 and parses as "no rows"; logins share an object
that is not safe to share; pools must neither lose a reply nor a goroutine; and
the accumulators of the parsers outlive the attempt; and calls of GEI and of the
login service have no deadline of their own, so that one request may hold others.
The process may end at any step of all this, and what it sent to PostgreSQL may
still happen (for GEI see section 6).

What makes each part correct:

* token manager: one refresh per user at a time, no caller forgotten, nobody
  gets another user's cookie, an eviction is obeyed;
* session recovery: the caches agree, recovery never goes back to an older
  cookie, users do not pay with logins for the TTL, for restarts or for requests
  that come together, and do not fail each other; every request is answered,
  unless a call without a deadline or a panic of a worker holds it for good;
* tokens: a token carries the credentials of its own login, and only the key it
  was sealed with opens it;
* pools: each session once, success only when complete, no leak, no hang;
* schedule cache: never a login form in it, answers that match i-Ma'luum's
  list, fresh data where freshness is promised;
* parsers: what is served is what the page says;
* lifecycle: a shutdown ends, and cuts off only what is late;
* analytics: a student whose request was authenticated is counted, once, and no
  row is lost or dated back;
* migration: what is reported complete is complete, whatever failed before.

## 2. The modules

| module | what it is |
|---|---|
| `TokenManager` | `GetToken` and `Invalidate`, one action per critical section |
| `TokenManagerProofs` | its theorems |
| `SessionRecovery` | requests over L1, L2 and i-Ma'luum, by handler; instantiates `TokenManager` |
| `SessionRecoveryProofs` | it implements `TokenManager` |
| `SessionCachesProofs` | its own theorems, about cookies, caches and logins |
| `PasetoTokens`, `PasetoTokensProofs` | logins over the shared token; its theorems |
| `ScrapePool`, `ScrapePoolProofs` | one attempt of a worker pool; its theorems |
| `ScheduleCache`, `ScheduleCacheProofs` | schedule requests of one student over GEI; its theorems |
| `RowParsers`, `RowParsersProofs` | a page read row by row by one of five handlers; its theorems |
| `Analytics` | the analytics table: its generated columns and the two statements that write it |
| `Lifecycle` | the server's process, its requests, and the goroutines that count students |
| `Migration` | the runs of the migration tool |
| `Deployment` | composes `Lifecycle` and `Migration` over one table; the properties of all three |
| `Ledger` | the abstract specification of the table, which `Deployment` implements |
| `DeploymentProofs` | their theorems |
| `MC...` | constants for TLC; a `.cfg` each |

Operators named `...Mutant` are not part of a specification: each is a plausible
error in the operation it stands next to, used to see that a property would
notice.

### TokenManager

`tokens[k]` is the entry of `tm.tokens` (its token and whether it is live);
`inflight` and the program counters `join`, `return` stand for the singleflight
group, which is external. `pc[c]` follows one goroutine through `GetToken`:

    Call -> LookupHit | LookupMiss -> Lead | Join
    Lead -> RecheckHit | RecheckMiss -> RefreshOk | RefreshErr -> Store -> Publish
    (waiters of the flight) Publish -> Return

`Invalidate(k)` and `Expire(k)` may come between any two of them. `Store` may
store an entry that is dead at once: a refresh can outlast the expiry it chose.
The variables of `history` number the refreshes and remember, for each key, the
last one that an `Invalidate` made obsolete (`floor`; the refresh a leader has in
hand at that moment is not among them, since the code lets it finish and store);
they exist for `InvalidateForgets` and have no counterpart in the code.
`Restart` is the end of the process and the start of the next, with an empty
map and no goroutines.

### SessionRecovery

The module has the variables of `TokenManager` and those of its clients. A step
of a request is a step of `TokenManager` (`TM!Lead(r)`, `TM!Store(r, live)`, ...)
or leaves it alone, while the leader's refresh goes through `sessionFunc`
(`step`: `get`, `login`, `persist`) and the request through the middleware and
`runWithRetry` (`stage`). The n-th successful login of a user yields its n-th
cookie, so "newer" has a meaning; `alive` is what i-Ma'luum accepts; `Kill` ends
a session, `HangUp` cancels the context of a request (whose GEI and login calls,
data fetches, downloads and logout may then fail). A login does not end the
user's earlier sessions.

`refreshSession` does not say which cookie it evicts. `evicted` remembers what
left GEI that way, and `late` those cookies among it that were newer than what the
request had found stale: a request that was slow to notice the end of a session
deletes the cookie of somebody else's recovery.

What a request does with its cookie depends on its handler (`Handlers`, `Handle`):

* `Scrape` is the page a scrape begins with, and the only place where the login
  form is recognised; `FetchData` is the data endpoint that the profile and the
  schedule have behind their page, where a login form is an error of decoding. A
  scrape with a pool may be `stuck` for ever: a worker panicked (`ScrapePool`), or
  GEI does not answer the schedule handler's calls;
* `Download` streams what it is given, the login form too (`login form` is an
  answer of its own);
* `Logout` asks CAS without saying for which session; whether i-Ma'luum ends it
  on the redirect back is left open, and L1 and GEI keep the cookie.

`Own` are the steps of a request that the server takes by itself, `Upstream` those
that end a call which has no deadline; the fairness (section 3) tells them apart.

`Crash` is the end of the server and its next start: requests are cut off, L1 is
empty, `alive` and `gei` are as they were. `lost` counts the logins whose cookie
the crash kept out of GEI: those the user pays for again.

### PasetoTokens

`claims` are the claims of `s.paseto.Token`. A login writes three of them, in
three steps, and signs. Nothing in the code keeps another login out, so the
steps interleave; and since two goroutines that write one Go map may also end
the process, `Fatal` may happen whenever two are at it. A sealed field is the
pair of whose it is and of the key: that is all decryption tells apart. `alone`
marks the tokens of logins that no other login overlapped.

### ScrapePool

`pool` says whose pool it is (the schedule's worker makes two fetches and looks
at the shared flag in between, the result's makes one). The channels are
sequences with the capacity the code gives them; `dead` is the session; a panic
in a worker (`Panic`) is swallowed by `CatchPanic` and sends nothing, exactly as
in the code.

### ScheduleCache

Sessions are numbered by time; a version counts the changes of a schedule, and
version 0 is the empty schedule that a worker makes of a login form. One action
is one call of another system (`Discover`, `Lookup`, `Scrape`, `Store`) or the
end of an attempt (`EndAttempt`: error, retry, stale, or deliver). Meanwhile
i-Ma'luum edits its latest schedule, opens a semester, or withdraws one. A
session's name is its term and its year, three terms a year from `FirstTerm` on;
`Latest` is the loop of `latestSessionQuery` with `SortSessionNames`, over a list
in any order, and the property `LatestIsFresh` compares with the latest in time.

### RowParsers

A page is a sequence of kinds of rows, with or without a login form; the initial
states enumerate them. Accumulators keep the numbers of the rows. Carry marks
model Go's slices (an array per growth, a pointer into one of them) because the
handler keeps a pointer to the current subject while it appends. The reference
is set-theoretic: the rows that open a subject, in ascending order (the k-th has
k - 1 of them below it), each with the components up to the next one.

### Analytics, Lifecycle, Migration, Deployment

`Analytics` is the table: under each name no row, or the kind of its date. A name
is who it stands for, whether a "5" was put before it (students of two degrees)
and whether blanks were typed around it; `Matric` is what `UpdateAnalytics` makes
of it. `Level` and `Batch` are the generated columns, and a row whose batch cannot
be computed is refused. `Upsert` and `InsertNew` are the two statements.

`Lifecycle` has the process (`server`: down, up, draining, exiting), its
connection, its requests and, per request, the goroutine that `go
s.UpdateAnalytics` starts (`update`: spawned, sent, then counted, failed or
skipped). `Signal` closes the listener; `Drained` and `Deadline` are the two ends
of `Shutdown`; `Exit` is the end of `main`, before which the deferred flushes of
the telemetry leave requests and goroutines time to go on. A process that ends
takes its requests with it (`cut`, or `crashed`), and goroutines that had not yet
sent their statement (`lost`); a statement that was sent (`orphan`) may still be
executed, by a database that does not know that its client is gone.

`Migration` has one action per step of the tool. `Begin` stands for connecting,
creating the schema and reading all rows; nothing else writes the old database,
and a failure there ends the run as a dry run does. `Copy` inserts the first
record left; records of one second may come in any order. `Refused` is the error
of a row without a batch, and ends the run; `Stop` is a kill or any other error,
with or without the insert that was under way. `Begin` may come again, `MaxRuns`
times.

`Deployment` interleaves both on one table. `Ledger` is what they promise
together: rows are only added, or dated by a request.

## 3. What TLC checks

| run | what is asked | bounds |
|---|---|---|
| `token_manager` | type; `SingleFlight`, `NoLostWaiter`, `NoMixUp`, `InvalidateForgets`, `NoWastedRefresh` | 2 users, 3 goroutines, 5 calls, any restarts |
| `session_recovery` | `CachesAgree`, `LoginsAreOwed`, `StalePurged`, `EvictedStaysOut`, `NeverOlder`, `RecoveryReplaces` | 1 user, 3 scrapes, 1 session ended, 1 crash, no faults |
| `session_users` | type; `FailureContained`, `RefinesTokenManager`, `AnsweredUnlessHeld` | 2 users, 2 requests of any handler, 1 session ended, 1 hang-up, scrapes fail |
| `scrape_pool` | type; `EachSessionOnce`, `RoomForReplies`, `OkIsComplete`, `ReturnsUnlessPanic`, `WorkersExit` | 3 sessions, 2 workers, faults, panics, both pools |
| `schedule_cache` | type; `NoPoison`, `AnswersTheList`, `LatestIsFresh`, `ForcedIsFresh` | 2 requests, 2 sessions over a change of year, 2 versions, GEI fails |
| `row_parsers` | `CarryMarksGrouped`, `StarpointsGrouped`, `ListingsComplete` | 5 rows, or a stale page of 2 and one of 4 |
| `paseto_tokens` | type; `NoResidue`, `KeyOpensToken` | 2 goroutines, 2 users, 2 keys, 3 logins |
| `deployment` | type; `SummaryCountsHeads`, `CompletedIsComplete`, `KeepsTheLedger`, `ShutdownEnds`, `CutOnlyWhenLate`, `CountedUnlessEnded` | 2 requests, 2 starts, 2 runs of the tool, 3 old databases, the database fails |

Each property of these runs holds, and each is violated by its mutant.

Why the bounds are enough. Two users are needed for a mix-up; three goroutines
for a leader, a waiter and one who evicts or comes late. Three requests of one
user give a leader that began before an eviction, the one that evicts, and a
joiner, or three that notice the end of one session one after the other; a second
ended session is needed only for `fresh_login`. In `session_users` they end by a
logout of the same user as well; the one crash of `session_recovery` and the one
hang-up of `session_users` may come between any two steps. In `session_users` calls
of GEI fail only under a context that was cancelled; that a GEI which fails by itself
refuses nobody is in the theorem about `FailureContained`, which has every fault.
Three sessions over two workers make one worker take a second job while the
other is still busy. Two semesters are a past and a latest one;
`FirstTerm` is 3, so that the second begins a year, where term and year disagree
about the order. Five rows make
the array of the carry marks grow three times (capacities 1, 2, 4), with a
component after a growth. Three logins over two goroutines give two that
overlap and one after them. In `deployment` both requests are of one student,
typed with the "5" and with blanks, so that their upserts meet each other and the
row of the migration; two starts make a crash or a shutdown and a server after it;
two runs make a first that stops anywhere and a second that finishes. The three old
databases are empty, two rows of one second (one with an unreadable date), and
these with a later row that is refused.
Requests and users are symmetric where safety is checked; no symmetry is used
with liveness. The bounds `MaxCalls`, `MaxKills`, `MaxHangups`, `MaxCrashes`, `MaxLogins`,
`MaxSession`, `MaxVersion`, `MaxRows`, `MaxFirstRows`, `MaxStarts` and `MaxRuns` are
guards or ranges; in `SessionRecovery` `MaxCalls` follows from the code (a request
calls `GetToken` at most twice). All models but `TokenManager` end when their
requests have been answered or their bounds are met, so deadlock is not checked
there; in `TokenManager` the next call, an eviction or a restart is always
possible, so that check says nothing about the code. What would be a deadlock of
the system, somebody waiting for ever, is asked by `NoLostWaiter`,
`AnsweredUnlessHeld`, `ReturnsUnlessPanic` and `ShutdownEnds`.

`HasIndexer` is TRUE in all runs (without GEI there is no L2, and a schedule is
always scraped in full); the refinement theorem below covers both values.

Fairness. `session_users` has weak fairness of each request's own steps (`Own`):
goroutines are scheduled, `singleflight` runs its function, and a fetch ends after
`scrapeTimeout` (`scrape.go:36-40`; the shared `httpClient` has the same limit). The
calls of GEI and of the login service (`paseto.go:151`, `174`, `187`, `201`) have the
context of the client's request and no deadline, and so has the logout, whose
`http.Client` has no `Timeout` (`auth.go:140-143`): these steps (`Upstream`) are fair
only once the client has hung up, which ends the context. An attempt that is
`stuck` is never left. `AnsweredUnlessHeld` says that nothing else holds a request:
a request that is never answered is, from some point on, stuck, in such a call with
a client that stays, or waiting for the flight of one that is. Nothing is assumed
of i-Ma'luum, of GEI, of clients, or of time. `scrape_pool` has weak fairness
of the feeder, each worker and the collector, for the same reason; panics and
the end of a session are never required. `deployment` has weak fairness of the
end of a shutdown (drained, or its timer fires), of the end of `main`, and of
each goroutine that counts; none of requests, which may take for ever, so that
`ShutdownEnds` rests on the deadline; none of signals, starts, or the tool.

## 4. What the runs found

Four runs check what a comment or the design document says of the code, and TLC
finds a counterexample.

* `fresh_login` (`ForcesFreshLogin`): "forces a fresh login"
  (`paseto.go:195-197`). A recovery whose eviction falls between another
  request's `GetSession` and its store gets the stale cookie back. What does
  hold is `RecoveryReplaces`: an eviction that met no refresh under way, and
  whose deletion in GEI worked, yields a newer cookie; and `NeverOlder`.
* `pool_stale` (`StaleIsRecovered`): "on detection: evict, re-login, retry". An
  error of one worker hides the flag that another has raised
  (`schedule.go:490-493`, `result.go:364-370`).
* `paseto_mix` (`TokenIsItsUsers`): a token is made for the user who logs in
  (`paseto.go:28-31`). The one shared `Token` object lets logins that overlap
  mix their claims. `NoResidue` and `KeyOpensToken` hold of all other logins.
* `burst_login` (`BurstIsOneLogin`): "singleflight collapses a burst of concurrent
  stale-detecting requests for the same user into one login"
  (`2026-06-24-stale-session-recovery-design.md:83-84`). It does so for calls of
  `GetToken` that overlap. A request that notices the end of the session when
  another has recovered from it deletes the new cookie (`paseto.go:199-201`), which
  is alive, and logs in again. What does hold is `LoginsAreOwed`: one login for each
  session that ended, for each cookie that was deleted so late, and for each
  login that a crash lost.

Four observations have no run of their own. A logout "clears the token from IIUM's
CAS", says its description, and its answer "Token has been cleared" (`auth.go:109`,
`162`); but the cookie is put into the jar for i-Ma'luum's host, and the one request
goes to that of CAS (`auth.go:133-145`), which is therefore not told whose session
to end; L1 and GEI keep the cookie too. A semester that was cached while it was the
latest and changed afterwards is served from GEI as it was cached, once the next
semester is listed, until somebody asks with refresh=1; "past semesters are
immutable" (`schedule.go:157-159`) is true of i-Ma'luum's page, not of the
version that was cached. `LatestIsFresh` and `ForcedIsFresh` hold. The log line of
the shutdown promises that a second Ctrl+C forces it (`main.go:36`), but `stop()` is
deferred to its end, and the signal is swallowed until then. And an old row without
a batch stops every run of the migration at the same place
(`migrate_analytics.go:262-265`): `CompletedIsComplete` holds since no such run
says that it has completed.

A further divergence is visible in `ReturnsUnlessPanic`: an attempt whose worker
panics never returns, since `CatchPanic` sends no reply (`schedule.go:87-110`,
`142`). The property states exactly this exception.

## 5. What is proved

For every value of the constants (any users, goroutines, requests, sessions,
workers, rows, any bound on calls). Every invariant that a passing run checks has
its theorem, and every action property but the liveness ones.

| theorem | statement |
|---|---|
| `TokenManagerProofs!TypeCorrect` | `Spec => []TypeOK` |
| `TokenManagerProofs!AtMostOneFlight` | `Spec => []SingleFlight` |
| `TokenManagerProofs!WaitersHaveAFlight` | `Spec => []NoLostWaiter` |
| `TokenManagerProofs!NoUserIsMixedUp` | `Spec => []NoMixUp` |
| `TokenManagerProofs!NoRefreshIsWasted` | `Spec => NoWastedRefresh` |
| `TokenManagerProofs!InvalidateIsObeyed` | `Spec => []InvalidateForgets` |
| `SessionRecoveryProofs!Implementation` | `Spec => RefinesTokenManager` |
| `SessionCachesProofs!SessionTypes` | `Spec => []TypeOK` |
| `SessionCachesProofs!UsersDoNotFailEachOther` | `Spec => []FailureContained` |
| `SessionCachesProofs!CleanEvictionReplaces` | `Spec => RecoveryReplaces` |
| `SessionCachesProofs!CachesNeverDisagree` | `Spec /\ []GeiAnswers => []CachesAgree` |
| `SessionCachesProofs!EvictedNeverReturns` | `Spec => EvictedStaysOut` |
| `SessionCachesProofs!LoginsAreNeverWasted` | `Spec /\ []GeiAnswers => []LoginsAreOwed`, if `HasIndexer` |
| `SessionCachesProofs!StaleStaysPurged` | `Spec /\ []GeiAnswers => []StalePurged` |
| `SessionCachesProofs!RecoveryNeverFallsBack` | `Spec /\ []GeiAnswers => NeverOlder` |
| `ScrapePoolProofs!PoolTypes` | `Spec => []TypeOK` |
| `ScrapePoolProofs!SessionsMoveOnce` | `Spec => []EachSessionOnce` |
| `ScrapePoolProofs!RepliesFit` | `Spec => []RoomForReplies` |
| `ScrapePoolProofs!OkServesEverySession` | `Spec => []OkIsComplete` |
| `ScheduleCacheProofs!LatestIsMax` | `Latest(S) = Max(S)` for every non-empty set of sessions |
| `ScheduleCacheProofs!ScheduleTypes` | `Spec => []TypeOK` |
| `ScheduleCacheProofs!LoginFormIsNeverCached` | `Spec => []NoPoison` |
| `ScheduleCacheProofs!AnswerIsTheList` | `Spec => []AnswersTheList` |
| `ScheduleCacheProofs!LatestIsNeverOld` | `Spec => []LatestIsFresh` |
| `ScheduleCacheProofs!ForcedIsNeverOld` | `Spec => []ForcedIsFresh` |
| `RowParsersProofs!ListingsAreComplete` | `Spec => []ListingsComplete` |
| `RowParsersProofs!StarpointsAreGrouped` | `Spec => []StarpointsGrouped` |
| `RowParsersProofs!CarryMarksAreGrouped` | `Spec => []CarryMarksGrouped` |
| `PasetoTokensProofs!TokensAreComplete` | `Spec => []TypeOK` |
| `PasetoTokensProofs!TokensCarryNoResidue` | `Spec => []NoResidue` |
| `PasetoTokensProofs!KeyOpensOwnToken` | `Spec => []KeyOpensToken` |
| `DeploymentProofs!TypeCorrect` | `Spec => []TypeOK` |
| `DeploymentProofs!LedgerIsKept` | `Spec => KeepsTheLedger` |
| `DeploymentProofs!MigrationIsComplete` | `Spec => []CompletedIsComplete` |
| `DeploymentProofs!HeadsAreCountedOnce` | `Spec => []SummaryCountsHeads` |
| `DeploymentProofs!OnlyTheLateAreCut` | `Spec => CutOnlyWhenLate` |

They rest on the named assumptions of the modules only (`TokenManagerAssumption`,
`SessionRecoveryAssumption`, `ScrapePoolAssumption`, `ScheduleCacheAssumption`,
`RowParsersAssumption`, `PasetoTokensAssumption`, `AnalyticsAssumption`,
`LifecycleAssumption`, `MigrationAssumption`), which TLC evaluates in the runs,
and on `GeiAnswers` where it stands in the table.

`GeiAnswers` is `HasIndexer => ~GeiFaults /\ gone = {}`: if there is a GEI, its
calls do not fail, and no client has hung up (a context that is cancelled makes
them fail). The four properties are marked [no faults] in `SessionRecovery`
because they are false without it: a deletion that GEI does not execute leaves the
stale cookie there, where the next refresh finds it. Ended sessions, crashes at any
step, logins that fail and scrapes that fail are all still allowed. `LoginsAreOwed`
also needs that there is a GEI: without one each end of an entry's TTL costs a login.

### The arguments

**TokenManager.** `SingleFlight` (which says as well that a key is in flight
exactly while it has a leader) and `NoLostWaiter` are inductive together with
the types (`FlightInv`). `NoMixUp` needs `OwnInv`: a goroutine that is idle
holds no result of its last call, which its next one, for another user, might
be given. `NoWastedRefresh` needs `MissInv`: a leader past its double-check
refreshes a key that has no live entry, because only a leader stores and there
is one. `InvalidateForgets` needs `ForgetInv`: whatever is in the map or in a
leader's hand was begun after the last run that `Invalidate` made obsolete
(`floor`), not only what is returned.

**SessionRecovery implements it.** `Implementation` shows that each action of
`SessionRecovery` is one of `TokenManager` or a stutter, so the six theorems
above hold of the server's requests too, with GEI and the login service failing
as they like. It needs `RefreshInv`: GEI keeps for a user only cookies of that
user, and a leader that has logged in is still in its refresh, with a cookie of
the user it refreshes; without it a refresh might bring `TokenManager` a token of
somebody else.

**What SessionRecovery promises itself.** The proofs take over `TokenManager`'s
inductive invariants through the refinement (`BaseInv`), and add the types
(`TypeInv`) and how the layers are linked (`LinkInv`: a request is inside
`GetToken` exactly while its stage says that it authenticates, under its own
key). On this base:

* `FailureContained` needs `ExcuseInv`: a leader that publishes no token has an
  excuse that will do for each of its joiners, because they are of one user;
* `RecoveryReplaces` needs `KnownInv` (no cookie is kept anywhere that was not
  issued) and `NewerInv`: after an eviction that met no refresh and reached GEI,
  every place a cookie could come from, GEI, L1, and the refreshes begun since,
  holds a newer one or none;
* `CachesAgree` needs `NewestInv`: GEI, L1 and each leader that has not published
  yet hold the user's newest cookie or none, and GEI is empty while a leader logs in.
  This is where single flight matters: two logins at once would break it;
* `EvictedStaysOut` needs `UnseenInv`: what a leader is about to persist was
  handed to nobody and is not in GEI, so nobody has evicted it. This is so with
  every fault, since a cookie is persisted before it is returned and only then;
* `LoginsAreOwed` needs `OwedInv`, which counts: one login more than the
  evictions and losses only while somebody (GEI or a leader) holds the newest
  cookie. A login takes place when nobody does, and what makes nobody hold it is
  an eviction of a cookie that was not evicted before (`UnseenInv`) or a crash. And
  `OverInv` says whose cookie an eviction takes: GEI has the newest one
  (`NewestInv`), so it is the one the request found dead, or a newer one, which
  makes it `late`;
* `StalePurged` and `NeverOlder` need `WaitInv`: the stale cookie is out of GEI
  while its request waits, and what the call has in hand is not older.

**ScrapePool.** `Inv` is the types and four parts: the channel of jobs is the
interval of sessions fed and not yet taken (`JobsInv`); a session is in exactly
one place: at a worker, among the replies, collected, or lost to a panic
(`PlaceInv`); a reply made of a login form exists only after the shared flag was
raised (`FlagInv`); an "ok" has all replies, and all of them data (`OkInv`).
`RoomForReplies` is then counting: the places are disjoint subsets of the
sessions, and the channel has one place for each.

**ScheduleCache.** `Inv` says of each request: what an attempt read is there
only while it scrapes (`CleanInv`); versions have grown since it came
(`HistoryInv`); an attempt without login form or failure has, planned or done,
every session it listed, and has the latest one from a scrape, not from the cache
(`AttemptInv`); and what it serves is real and fresh (`ServedInv`). That the latest by name is
the latest in time is `LatestIsMax`, a lemma about the loop of `latestSessionQuery`.

**RowParsers.** `Means(acc, Rows, i)` says what the accumulators hold after i
rows: what those rows mean, by handler, in the words of the reference. For
the carry marks it follows Go's slices: the subject under the handler's pointer
is the last one of the array that the slice has now, since a pointer is taken
after the append that may move it, and an array that was left behind is never
read again. One lemma per kind of row shows that `Means` goes from i to i + 1.

**PasetoTokens.** The three theorems share `WriteInv`: the claims a login has
written so far hold somebody's credentials, and if no login overlapped it, it is
the only writer and they are its own. None is inductive without it, because what
makes a token right happens before it is issued.

**Deployment.** `LedgerIsKept` is a refinement: an executed upsert is
`Ledger!Seen`, an insert of the tool `Ledger!Migrated` when the row was absent
and a stutter when it was not, and every other step leaves the table alone; it
needs the types only, to know that what is written is a name's row.
`MigrationIsComplete` needs `CopyInv`: while a run copies, each row of the old
database is in the table or still to be inserted, which survives the other
program because nothing takes a row away. `HeadsAreCountedOnce` needs `HeadsInv`:
every row has a batch, and stands under the matric number itself if the names of
the old database do; the rows that the summary counts then correspond to students
one to one. That they are finitely many is part of it (the table starts empty and
a statement adds at most one row), so nothing is assumed of the sets of students.
`OnlyTheLateAreCut` needs `LateInv`: a process that is exiting has no request in
flight unless it was forced; what keeps it is that a listener once closed takes
no new ones.

Each of these invariants was checked by TLC on a small instance before it was
proved.

### What is not proved

Liveness is out of the prover's reach: `AnsweredUnlessHeld`, `ReturnsUnlessPanic`,
`WorkersExit`, `ShutdownEnds` and `CountedUnlessEnded` stay with TLC. So do the four
properties of the runs of section 4, which are false. The library's induction theorems
cannot be used with the installed provers; where a proof is by induction over data
(`LatestIsMax` over the sets a fold runs through, `AscendingIsTheOrder` over the
position in a sequence), it is by smallest counterexample instead, which needs only
that a non-empty set of naturals has a least element. The parsers need no
induction over data: the state machine reads one row per step.

## 6. What is left out, and the plan

Left out of the modelled parts: the content of pages and strings, the debug
user's canned answers, traces and logs, real time (the TTL, timeouts and the
deadline of the shutdown are actions that may happen at any moment), the second
field of `GeneratePasetoToken`, the times among a token's claims. Every kind of
error that the client can tell apart is kept as an answer of its own where a
property speaks of it.

One assumption about GEI is the model's and not the code's: its calls are atomic.
A `StoreSession` or `DeleteSession` that the caller gave up, or that a crash cut off,
takes effect at that moment or never, and not after a later call of another request
or of the next server. `CachesAgree`, `NeverOlder`, `RecoveryReplaces`,
`EvictedStaysOut`, `StalePurged` and `LoginsAreOwed`, and their theorems, rest on it: a
store that GEI executed after a restart's login would put an older cookie back.
(`Lifecycle` makes no such assumption of PostgreSQL.)

Not modelled:

* `WriteTimeout` (30 s for an answer whose fetches may each take 30 s): to ask
  which answers come too late needs durations, which the code does not fix;
* the relay: which prefix a request takes does not matter to what it brings;
* the mapping of a schedule's days and times, and the formatting of a profile:
  functions from strings to strings, with unit tests;
* public endpoints, error values, DTOs, telemetry, generated code: no state;
* two servers at once: the table would bear it (`Upsert` is one statement), the
  in-memory L1 is one per process, and the deployment has one.

Plan, in this order:

1. Calls of GEI that take effect late, after a hang-up or a crash: which properties
   survive, and for how long. Composition: a request with its pool inside `SessionRecovery` (an abstract
   attempt refined by `ScrapePool`), so that `pool_stale` is seen end to end;
   `HasIndexer = FALSE`.
2. Proofs: that `ScrapePool` implements an abstract attempt, and
   `SessionRecovery` a session store (below); which of the [no faults] properties
   hold of a user whose own requests met no fault, whatever the others meet.

Abstract specifications worth stating: a *session store* that hands a user a
cookie newer than the last one reported stale (what `SessionRecovery` promises
up to the race of `fresh_login`), and an *attempt* that returns every session
or one of error and stale (what `ScrapePool` promises).
