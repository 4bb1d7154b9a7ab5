# Verification of the NestJS video system

TLA+ models of the server in `src/src` (NestJS, TypeORM on PostgreSQL, files on
a local disk), model-checked with TLC, with the main results proved with TLAPS
for every number of requests. The source is the reference: every definition is
translated from it, and `PROJECT.json` names the lines.

## 1. Inventory

| Component | State | Operations | What makes it correct |
|---|---|---|---|
| Authentication service (`auth/`) | tables `users`, `refresh_token`; what each open transaction has not committed; a `save()` nobody awaits | sign-up, sign-in, refresh | one account per address, one session row per account, tokens in the rows of their owners, answers that survive crashes, no session nobody holds |
| User service and entity (`user/`) | table `users` (UNIQUE e-mail, password column not selected by default) | lookups by e-mail and id, list | lookups that return what their callers use |
| Video upload and download (`video/`) | table `video`, directory `video-storage`, event bus in memory, `download_cnt` | upload (CQRS command in a transaction), download, event handler | a row only with its whole file, events and answers only after COMMIT, no lost count, a file that can be found again |
| Video listing (`find-videos.handler.ts`) | none | list with page and size, top five | pages without gaps or repeats |
| Connection pool (pg driver) | connections in use, queue of waiters | lease for a transaction, lease for a statement, release | everything leased is released, nobody waits forever |
| JWT guard and roles (`auth/jwt-*.ts`) | none | public routes, token type, role, signature | behind the strategy a signed, valid token of the right kind; the list of users only for a token that names an administrator |
| Rate limiting (`common/guard`) | counters and timers in memory | count, refuse, forget | at most `limit` requests of a tracker in each window, nobody refused below it |
| Error reporting (`common/interceptor/sentry`) | alerts under way | capture, alert, rethrow | each error captured once, the original error reaches the client, a rejected alert harms no other request |
| Analytics and e-mail (`analytics/`, `email/`) | none | daily report | the most downloaded are in it; a report logged as sent was sent |
| Migrations (`migrations/`, `ormconfig.ts`, `dockerfile`) | the schema, table `migrations` | run at every start, revert by hand | the schema is the one the log records and the entities expect; the server starts |
| Health check and request log | none | ping of the database; a line when a response closes | every request gets its line |
| Bootstrap and API documentation (`main.ts`, Swagger decorators, DTOs) | environment variables | create, listen, serve `/docs` | answers have the status, shape and fields that are documented |

Interaction: the controllers call the services; every service reaches the
database through the one pool; an upload also writes the disk and publishes on
the event bus; the daily job reads what downloads count. All run in one Node
process: a handler is interrupted only at an `await`, and there any other
handler may run. PostgreSQL (READ COMMITTED) makes the INSERT of a UNIQUE value
wait for an open transaction that inserted the same one, and drops an open
transaction whose connection is lost.

Hard behaviours, listed with their lines in `PROJECT.json` under `hazards`:
check-then-act across transactions, a promise nobody awaits, find-then-save by
primary key, an answer to COMMIT that never arrives, a crash between two steps,
a disk and a table that must agree, and requests that hold one pooled
connection while they wait for another.

## 2. Plan

In order of importance, and all done:

1. `AuthService` with its abstract specification `Accounts`;
2. `VideoLibrary` with its abstract specification `Library`;
3. `ConnectionPool`, what the two lease and release;
4. `Catalogue`, the paged list and the daily report over a table that changes;
5. `RequestPipeline`, from the start of the server to the answer of a request, on
   top of `Throttle` (the counters) and `Routes` (what the decorators say);
6. `Schema`, the migrations under crashes, reverts and incoming rows, with its
   abstract specification `Migrations`;
7. theorems on each, in modules named `...Proofs`.

What could follow: the pool bound composed with the handlers of `AuthService`
(a sign-up there takes its connections from nowhere), and what the abstract
specifications promise by themselves, carried over by the refinement theorems.

## 3. Modules

### AuthService and Accounts

A request is a constant; `pc[r]` is the `await` its handler stands at. The name
of a sign-up doubles as the uuid of the user it inserts. A refresh token is
`[sub, iat]`: a JWT is a function of its payload, and the payload has no nonce,
so two tokens of one user signed in one second are equal.

| Action | Code |
|---|---|
| `SignupFind` | `signup` up to the duplicate check, on a connection of its own |
| `SignupInsert` | bcrypt, INSERT of the user, which waits for an open transaction with the same address; then the token is signed, its `save()` started and COMMIT sent |
| `SignupSaveToken` | the `save()` of line 147, which nobody awaits: it overtakes COMMIT, or comes after it, or is refused by UNIQUE(`user_id`), or loses its connection |
| `SaveRejects`, `ProcessExits` | what the rejection of that `save()` does, which nobody handles either: an initialised Sentry reports it, without one Node ends the process with every request in it |
| `SignupCommit`, `CommitFails`, `SignupRollback` | COMMIT that takes effect, with or without its answer arriving; COMMIT whose connection is lost before; the catch/finally block |
| `SigninFind`, `SigninCompare`, `SigninFindRow`, `SigninSave` | `validateUser`, `signin`, `createRefreshTokenUsingUser` |
| `RefreshReceive`, `RefreshFind`, `RefreshSign`, `RefreshSave` | guard and strategy at `/refresh`, `refresh` |
| `Respond` | release and answer |
| `QueryFails`, `Crash`, `Tick` | a connection lost before a statement takes effect, the first one of a sign-up or sign-in included; exit and restart; the clock |

`Faulty` turns lost connections and crashes on. `RejectionEffects` says what an
unhandled rejection may lead to: `reported`, `exit`, or both, since whether
SENTRY_DSN is set differs between deployments (`main.ts:97`). `PasswordSelected` says whether
`findOneByEmail` returns the password: the entity says `select: false`, so the
program as built has FALSE, and `AuthSigninFails` shows what follows. TRUE is the
program whose sign-in works; the other runs use it, because with FALSE no sign-in
gets past the comparison and there is less to check. The theorems hold for both.

Left out: requests that the DTOs, or the comparison of `password` and
`passwordConfirm`, refuse before anything is read; access tokens, which are not
stored. The model assumes the schema of the entities: UNIQUE(`email`) and
UNIQUE(`user_id`).

`Accounts` knows no requests: it registers accounts with distinct addresses and
binds to an account a token signed for it.

### VideoLibrary and Library

`disk[u]` is absent, partial or whole: `writeFile` creates, then fills. The row
is visible from COMMIT on. File names are sequences of their parts between dots,
because the upload takes the part after the first dot and the download the
subtype of the mimetype. `CreateVideoHandler.execute` is `UploadInsert` to
`UploadRollback`, `VideoController.upload` is `UploadReceive`,
`VideoService.download` is `DownloadFind`, `DownloadIncrement`, `DownloadStat`,
and `DownloadStream` ends the answer; `DownloadFails` is any of them failing, the
lookup of the row included. `count` is incremented by the database from
its own value, not from the row that was read (`seen`).

`Library` promises that a listed video is stored, that neither is undone and
that views grow one at a time.

### ConnectionPool

The pool of the pg driver, as the handlers use it: requests wait in one queue,
`Grant` serves its head, no timeout. A sign-up holds a connection and asks for a
second (`AskForLookup`); an upload holds one, since it reads the owner through
its own query runner; a plain request leases one per statement. `Release` is the
finally block of both transactions. `queryRunner.connect()` and
`startTransaction()` stand before the `try`; a connection that breaks there is
removed from the pool by the driver, and this is not modelled.

### Catalogue

Readers of the video table while it grows (no code deletes a video) and its
counters move. TypeORM turns `find()` with a join and a limit into two statements:
the ids of the page, ordered (by primary key where the code gives no order), and
then the rows of these ids. Uuids are numbers, since only their order counts; a
new one falls anywhere. `WalkBegin`, `WalkAsk` and `WalkRows` are a client that
asks for page after page until one is short; `WalkAsk` holds `skip` and `take` with
their edges: a size of 0 means no limit, a negative OFFSET or LIMIT is an error.
The client counts items, because the `size` of an answer repeats the requested one
(`PipelineDocuments`).
`ReportAsk`, `ReportRows` and `ReportSend` are `handleEmailCron`,
`findTop5Download` and `EmailService.send`; the job may run any number of times.
`walk.start`, `report.asked` and `report.before` only remember, for the properties.

### Routes, Throttle and RequestPipeline

`Routes` is a table: for each of the ten routes whether it is public, restricted
to administrators, its limit, the statuses its pipes and its
handler may end in, the fields its handler answers and what its Swagger decorator
documents. A body is the set of its field names.

`Throttle` is the storage of `@nestjs/throttler` under
`ThrottlerBehindProxyGuard`: a counter for each route and tracker. Every request
that asks raises it, a refused one too, and starts a timer of its own that lowers
it when the window is over, so the window slides. `Forget` is the end of the
process: the container is started with `--restart always`
(`.github/workflows/main.yml:68`), and the counters begin anew.

`RequestPipeline` extends both. `pc[r]` is where request `r` stands:

| Action | Code |
|---|---|
| `Create`, `Listen`, `Restart` | `bootstrap` of `main.ts`, which fails without a database or port; Docker starts the process again |
| `Arrive` | `/docs` (only in local and dev, behind basic auth, before the request log), unknown paths, or the guards |
| `CanActivate` | `JwtAuthGuard` up to the strategy or the roles, for a token that is missing, cut short, unreadable, not signed by the server, expired, or of either kind; the two `TypeError`s included |
| `CheckUserIsAdmin` | the query for the role, which rejects when the user does not exist |
| `ThrottleGuard` | the guard of `VideoController`, after the global one |
| `Handle` | pipes, handler and both interceptors: `Return` with `TransformInterceptor`, `Throw` with `SentryInterceptor`; a sign-up first leaves its `save()` behind (`LeaveSave`) and stands at `commit` until its COMMIT is answered |
| `ClientLeaves` | the response closes before it is answered; `LoggerMiddleware` writes its line |
| `PromiseSettles` | the two promises nobody awaits, `webhook.send` (`sentry.interceptor.ts:46`) and the `save()` of sign-up (`auth.service.ts:147`): without an initialised Sentry the rejection of either ends the process |
| `SetRole`, `Clock` | an administrator's SQL session; the timers |

A token carries in `sub` the user it names. The strategy looks at signature and
expiry; the route with `@Roles` never reaches it and only decodes
(`jwt-auth.guard.ts:66`, `:82-84`), so there a token that the server did not sign
gets as far as one it did, and an expired one as far as a fresh one. The
model lets both through, as the code does. `ListNeedsNamedAdmin` therefore speaks
of the user a token names; that the request was *sent* by an administrator, as
`user.controller.ts:24-25` and the header of the guard
(`jwt-auth.guard.ts:3`) put it, is not true of this code and is claimed nowhere
here. On every other guarded route `HandlerHasItsUser` states the full promise.

Apart from the COMMIT of a sign-up, `Handle` is one step because nothing the properties read can change within it: the
steps of the handlers on tables and files are `AuthService`, `VideoLibrary` and
`Catalogue`. Guards run outside the interceptors, so what they refuse is never
reported. `wasAdmin`, `hits` and `admitted` only remember, for the properties.

### Schema and Migrations

A schema is the set of the names of its objects. `Command` is one
`typeorm migration:run` or `migration:revert`: all pending migrations share one
transaction, a revert undoes the last one, and whatever stops it rolls back.
`dockerfile:31` joins `migration:run` and the server with `;`, so that the server
starts whatever became of the migrations (`AfterFailure`). Rows come into `"user"`
from psql or another release of the server, not through this server's entity: that one names
table `users`, and `SchemaTable` shows that the migrations never create it.
`"user"` is not written while the transaction that touched it holds its lock.

`Migrations` is what this looks like to whoever uses the database: a version, a
flag that says whether addresses are kept apart, and the rows. All missing migrations come in
one step, a revert undoes one in one step, and neither puts the constraint over
rows that share an address. `RestsOn` says which object cannot stand without which.

### Wrong variants

Operators such as `RespondBeforeCommit` or `ReleaseOnSuccess` stand before the
operator they are a wrong variant of and are used nowhere. Each is the code with
one plausible bug; `PROJECT.json` says which property must notice it.

## 4. Runs

`MCAuthService`, `MCVideoLibrary`, `MCConnectionPool`, `MCCatalogue` and
`MCRequestPipeline` instantiate the modules; `Schema` needs no definitions.

| Configuration | Instance | Shows |
|---|---|---|
| `AuthSessions` | 2 sign-ups, 1 sign-in, 1 refresh, 2 addresses, 2 seconds, lost connections, crashes, both effects of an unhandled rejection, fairness; 0.4 million states | `TypeOK`, `UniqueEmail`, `OneRowPerUser`, `RowOwned`, `AnsweredUserIsDurable`, `StoredTokenIsHeld`, `SessionUnderWay`; implements `Accounts`; `AccountGetsSession`, `EveryRequestEnds` |
| `VideoFaults` | 2 uploads, 2 downloads, names with one, two and no dot, faults, fairness | `TypeOK`, `FoundVideosAreWhole`, `AnnouncedIsCommitted`, `CountCoversDownloads`, `EventUnderWay`; implements `Library`; `EveryRequestEnds` |
| `PoolFits` | 2 sign-ups, 1 upload, 1 plain request of up to 2 statements, 3 connections, fairness | `TypeOK`, `NoConnectionLeaks`, `NeverStalled`, `EveryRequestEnds` |
| `CatalogueReads` | 3 videos, first page 0 or 1, sizes -1 to 2, a top two, counters up to 1; 1.2 million states | `TypeOK`, `WalkMissesNothing`, `RepeatsAreInserts`, `NoneBetterLeftOut`, `SentInProductionIsMailed` |
| `PipelineServes` | a request of any kind and a download, direct or behind the proxy, 1 user with changing role, 3 environments, tables of 1 row, download limit 1, window 1, 2 instants, fairness; 1.2 million states | `TypeOK`, `ErrorIsReportedAndKept`, `ListNeedsNamedAdmin`, `HandlerHasItsUser`, `AtMostLimitPerWindow`, `RefusedForItsOwnRequests`, `EveryRequestIsClosed` |
| `SchemaSteps` | 3 addresses, up to 2 rows each, fairness | `TypeOK`, `SchemaIsTheLogs`, `OnlyDuplicatesRefuse`, `AddressesAreUnique`; implements `Migrations`; `ServerStarts` |

Six runs check a sentence of the repository's comments and guides that the code
does not keep, and TLC finds the behaviour:

| Configuration | Sentence | Behaviour |
|---|---|---|
| `AuthZombie` | sign-up is one unit | the user is committed, the token not yet, or never |
| `AuthSigninFails` | sign-in checks the password and issues tokens | the password column is not selected; compare rejects |
| `VideoExtension` | the extension is what follows the last dot | the code takes what follows the first; the download fails |
| `PoolStall` | the finally block releases the connection | as many sign-ups as connections wait for each other for good |
| `PipelineDocuments` | the `size` of a page is the number of its items; a user that does not exist is a `NotFoundException` | `size` is what was asked for; the id of nobody is answered 200 with an empty body (TLC stops at the first it meets, the latter) |
| `SchemaTable` | the migrations are what sets up production | they create table `user`, the entity reads `users` |

Sentences of the repository that the code does not keep either, and that have no
run of their own:

- `auth.service.ts:307-310`, wishes rather than descriptions: a refresh within the
  second in which its token was signed gives the same token back, and two refreshes
  with one token both succeed. The model has both behaviours.
- The list of users is for administrators (`user.controller.ts:24-25`): see above,
  the route does not verify its token. `Refusal` is that guard.
- The original error is rethrown (`sentry.interceptor.ts:63`): without SLACK_WEBHOOK
  the constructor at `:45` throws first, and its error is what the client gets as
  a 500. `ErrorIsReportedAndKept` has `env.webhook` as its condition for this reason;
  that Sentry was told of the original one it states in any case.
- Limits are per client behind a proxy (`throttler-behind-proxy.guard.ts:2-9`): `trust
  proxy` is not set, so `req.ips` is empty and all clients of a proxy share its
  counter (`Tracker`). `RefusedForItsOwnRequests` is about clients that come directly.
- In production the mail server is asked for real: `NODE_ENV=production` is set
  neither by the `dockerfile` nor by `main.yml`, which set STAGE; as deployed, the
  report is the logged one, and `SentInProductionIsMailed` is about a process started
  with that variable.

Bounds. Races here are between two requests on one account or video, with a
third that observes: two sign-ups, a sign-in and a refresh give the pairs whose
requests differ, and a second account or video shows that nothing lands on the
wrong one. Two sign-ins of one account are left to the theorems, which hold for
any number of each. Two seconds give equal and
different `iat`, and with `TTL = 1` an expired token. Two downloads of one video show a lost
count. Three videos are enough for an upload in front of, on and behind a page of
one or two, and for a top two that leaves one out; the theorems drop these bounds. The pool of three with two sign-ups is the largest
stall-free case with one to spare; `PoolStall` uses the smallest pool in which
sign-ups block each other although one alone would not (the driver's default is
ten connections, and ten sign-ups). Two requests are enough for
what one request of the pipeline does to another: it takes the place at the
throttle, and its alert or its un-awaited save ends the process. The request of any kind has all seven
kinds of token on the route where all of them differ (`oneUser`), those that
matter on the others, and sizes that `@IsInt` refuses, that make the database refuse, and that pass. A download limit of 1 is reached by two requests, the default limit (2 there) is
not; the theorems cover both for any value. Counters are followed between two
starts of the process. One migration command runs at a time (`container` is one
container), and two rows with one address are enough to block a constraint.
Deadlock checking is off in all runs but `SchemaSteps`: a system whose requests
have all been answered stops.

Fairness. Weak fairness of each handler from its start (the event loop resumes
every promise that settles, and every statement is answered or fails), of the
un-awaited save, of the pool serving its queue, and of the migration command of
a starting container. None of a client beginning a request or leaving, of a revert
or a restart, of a rejection, of the clock, or of any fault. `EveryRequestIsClosed`
needs nothing of the clock, since a throttled request is refused at once, and
nothing of the promises nobody awaits. Fairness of `Handle` takes for granted that a
handler ends, as `AuthService`, `VideoLibrary` and `PoolFits` show it does; the exception is `PoolStall`,
a pool filled by sign-ups, where no handler ends and no request is closed. `Faulty` runs never rely on a fault
happening. Nothing is strongly fair.

What a failed upload leaves on disk: `VideoFaults` shows no row without its file,
but the converse does not hold. The catch block (`create-video.handler.ts:60-64`)
does not remove the file, so files of rolled back uploads stay.

## 5. Proofs

The theorems hold for any sets of requests, addresses, passwords and names. TLAPS
uses the constants' assumptions only: kinds of requests are disjoint, the null
value is no request, times are natural numbers, flags are Boolean; for
cardinalities the sets of requests and of video ids are finite; uuids are numbered,
and walks begin at page 1 or before it; limits and windows are positive, and the
proxy's address is no client's own; the bound on rows with one address is a natural
number.

`AuthServiceProofs`. `TypeOK` and the three consistency properties are not
inductive: an UPDATE by row id could hit another account's row if a handler could
stand at `save` with an id that is not a row of its user. The inductive invariant
`IInv` adds, for each handler, what it knows at each `await`: a sign-up at `commit`
has no row and no committed user yet and no other one stands there with its
address; the state of the detached save; that what a sign-in or refresh found is a
row of the account it signs for. From it: `TypeCorrect`, `EmailsAreUnique`,
`RowsAreOwned`, `RowsAreSingle`, `AnswersAreDurable`, `StoredTokensAreHeld` (a
second invariant on top, with and without faults), and `Refinement`, where every action is shown to be
`Register`, `Bind` or a stutter. The refinement mapping takes the token of a user by
CHOOSE from its at most one row. `SessionsAreUnderWay` is the safety half of
`AccountGetsSession`: no step leaves an account with neither a session row nor a
detached save still to come, except a fault or the end of the process over a rejected save; a save that UNIQUE(`user_id`) refuses found
another row of the same user. `SigninsNeverSucceed` explains
`AuthSigninFails`: with `PasswordSelected` FALSE no sign-in, for any address and
password, gets past the comparison or signs a token.

`VideoLibraryProofs`. The invariant says how far file and row are at each place of an
upload, and that a download in flight asks for a committed row. `CountsAreExact` is
inductive on top of it: only `DownloadIncrement` moves a download into the counted
set, and it adds one to the same video; the rest is arithmetic on cardinalities.
`VideosAreWhole`, `AnnouncementsAreTrue` and `LibraryTypes` follow at once.
`Refinement` maps `UploadWrite`, `UploadCommit` and `DownloadIncrement` to `Store`,
`List` and `View`. `EventsAreUnderWay` says that a committed video has its
event, or the upload stands right before publishing it, or was not answered with a
success; what remains, that this upload goes on, is `EveryRequestEnds`.
Two theorems are about the finding of `VideoExtension`, both without faults:
`OnlyNamesFail`, that a download can fail for no other reason than an extension
which is not the subtype, and from it `OneDotIsServed`, that names with one dot
do as the guide says.

`CatalogueProofs`. Ranks among finitely many ids have no gap (`PlacesBetween`): the
rank is an injection into as many numbers as there are ids, hence onto them. So a
window of ranks is short only if it reaches past the last id (`WindowSize`). The
invariant: the client has seen every video of its start that is ranked before the
page it asks for (uploads only raise ranks), and was delivered as many items as it
skips, which is at most the number of videos. `WalksAreComplete` and
`RepeatsAreBounded` follow, for any sizes. For `ReportIsFair` it is enough that what
precedes a video left out precedes, by transitivity, each one chosen that it beats,
and that counters only grow. `SentReportsAreMailed` is inductive by itself.
That ranks have no gap also gives `ReportIsFull`: the first `Top` of them are all
taken, or all ids are among them (`TopIsFull`), and what was chosen is what is printed.

`ConnectionPoolProofs`. The invariant ties queue, leases and places of handlers.
`NothingLeaks` and `PoolTypes` follow. `RoomForLookups`: with fewer sign-ups than connections, if
every connection were held by a request waiting for another, each would be the
first connection of a different sign-up, and there are not enough of them.
`NoDeadlock` adds that whoever waits is in the queue, so that while any request
is unanswered one of them is at work or the head of the queue can be served.
`StallsAreForGood` is the other side, for a pool of any size: once the holders of
all connections are sign-ups that ask for a second one, the same leases stay for
ever, which is why `PoolStall` finds no way out.

`ThrottleProofs`. That a counter is below the limit says nothing of a window by
itself. The invariant ties the two: the counter of a key is the number of its
timers, every request counted within the window still has its timer, and no timer
outlives the window. `LimitHolds` follows because the requests admitted in the
window are among those with timers, `RefusalsAreDue` because a refusal sees as many
timers as the limit. The lemmas about `Routes` go through its table once.

`RequestPipelineProofs`. The invariant says of each request what the guards have
established so far (`Guarded`), that an administrator is remembered as one
(`Watched`), what was reported (`Reported`), and that a body is the one of the
handler of that very request (`Served`); and that every counted request is counted
under its own key. Every step is a step of `Throttle` or leaves its counters alone
(`StepOfTheThrottle`), so that the invariant of `ThrottleProofs` carries over and
with it `PipelineKeepsTheLimit`. `OwnRequestsOnly` needs that two requests share the key of a
client without a proxy only if both are that client's. The other theorems are one
step away from the invariant; `ListForNamedAdmins` says no more than its name, for
the reason given in section 3. That every step is one of `Throttle` is a theorem of
its own, `PipelineThrottles`.

`SchemaProofs`. The committed schema fits its log, but that does not survive a
commit unless one knows what is committed. The inductive invariant therefore follows the
open transaction: `Stage` lists, for each migration and direction, which
statements are left and what the transaction's own schema is then; at the end of a
migration that is the schema of the next version. `StageStep` shows, statement by
statement, that each one is possible there, with the constraint on shared
addresses as the only exception, and leads to the next stage: `MigrationsApply`. For
`MigratedMeansUnique` the invariant says where addresses differ (`KeptApart`): where
the constraint is committed, and where the transaction has put it back, because from
that statement on its lock keeps insertions out until COMMIT. A lost connection or
a restart returns to the committed schema, which the invariant still describes
(`LogTellsTheSchema`). `Refinement` maps `Commit` to `Upgrade` or `Downgrade` and
every other step but an insertion to a stutter. TLC has three addresses and two
rows each; the theorems any.

Every invariant and every refinement that a passing run checks is proved, the
type invariants included. Model-checked only: the liveness properties (`EveryRequestEnds`,
`AccountGetsSession`, `EveryRequestIsClosed`,
`ServerStarts`), since liveness under fairness is outside what the prover
supports; `SessionUnderWay` and `SomebodyCanGoOn` are what two of them need of
safety, and are proved. `WalksAreComplete` and
`RepeatsAreBounded` speak of walks of any length because the induction is over
steps, not over data. Proofs that hold with
`PasswordSelected` FALSE and TRUE, `Faulty` FALSE and TRUE need no second version;
where a theorem assumes one value, it says so.

## 6. Not modelled

The list of users (`user.service.ts:27`) asks for no order and is one statement,
so the database may order each page anew and nothing holds from page to page; the
pipeline has its guard and its answer. For good: the contents of tokens beyond
user and time, hashing, mail layout, texts of log lines and alerts, the schemas and
pages of Swagger beyond field names and statuses, columns and indexes of the
tables, and the values of the configuration. A second container, or a migration by
hand beside the one of a start, is not modelled: TypeORM takes no lock between
them. Inside the pipeline the process ends only over an unhandled rejection; a deployment
that stops the container cuts off whatever it serves (`main.ts` registers no
shutdown hook), which `Crash` covers for tables and files and
`RequestPipeline` leaves out.
One process is modelled; two instances behind a balancer would share the
tables, and `AuthService` already lets any two requests interleave between
statements, but the files and the counters of the throttle would not be shared.
