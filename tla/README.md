# A specification of the portal activity API

`josueguol/c-analytics-api` is a C17 REST API on libmicrohttpd, json-c and
libpq. It keeps accounts, sessions, favorites, activity events, likes and
comments in PostgreSQL. This directory models it in TLA+, checks it with TLC on
small instances and proves the main results with TLAPS. Line numbers
below refer to files under `src/`.

## 1. Inventory

| Component | State it keeps | Operations | Talks to |
|---|---|---|---|
| `app`, `main` (`src/app/app.c`, `src/main.c`) | handles of config, database and server; signal mask | create, run, destroy | everything it owns, signals, the polling thread |
| `database` (`src/database/database.c`) | one `PGconn`, with the status libpq caches | create, destroy, is_connected, query | PostgreSQL |
| `http` (`src/http/http.c`, `request.c`) | per connection `*con_cls`: body, capacity, `response_queued` | access handler, completed callback, append, dispatch | libmicrohttpd (callbacks), routes |
| `authentication.c`, `routes/auth.c` | tables `users`, `confirmation_tokens`, `auth_sessions` | authenticate, register, confirm, login, logout | database |
| `routes/favorites.c` | `favorite_sections`, `favorite_tags` | list, put, delete | authenticate, database |
| `routes/activity.c` | `activity_events`, `content_likes`, `comments` | event, like, unlike, comment | authenticate, database |
| `routes/analytics.c` | none | top content | authenticate, database |
| `config.c`, `validation.c`, `response.c` | environment values; none; none | parse, validate, format | environment, libmicrohttpd |
| `db/init.sql` | constraints, ON DELETE rules | – | – |

How they interact. libmicrohttpd runs **one polling thread**
(`MHD_USE_INTERNAL_POLLING_THREAD`, http.c:206) that calls
`http_access_handler()` for each connection in turn. A handler runs to its end,
statements included, before the next one starts. All statements of a process
share one `PGconn`, so within a process requests are serial
(docs/architecture.md:34). Interleaving comes from four other places:

* the calls of the access handler for several connections, piece by piece;
* several API processes on one database: two deployments, or a PostgreSQL
  backend that still runs the statement of a process that died and was replaced
  (`restart: unless-stopped`);
* PostgreSQL, the network and the clock, between any two statements;
* the main thread and signals, beside the polling thread.

What is hard: results lost after a commit, answers lost after a statement,
tokens that expire or are revoked between two statements of a handler, a
connection status that is cached and never reset, a blocking call on the only
thread, size limits on bodies that come in pieces, a signal at any moment of
start and shutdown.

What makes each component correct:

* **accounts** – one account and one token per address; confirmed exactly when
  the token is spent, once, in time; sessions for confirmed accounts only; a
  success answer is true; a closed session never authenticates; the confirmation
  token stays secret when so configured.
* **database, health** – a lost connection is noticed and, once noticed, reported.
* **app** – nothing is used after release, nothing leaks, a signal ends the
  process and cuts no request.
* **bodies** – a handler sees the whole body of its own request, one answer is
  given, the buffer holds what is written to it.
* **favorites, activity** – PUT and DELETE are idempotent under retries and
  races; a like or a comment and its event come together; a 201 names a row that
  is kept; nobody acts under an identity it has not shown, nor under a session
  that had ended; only its actor undoes a like; no row names a deleted user.
* **routing, analytics, configuration** – each documented route reaches its
  handler and no other; the ranking is the documented one; settings are in range
  whatever the texts.

`PROJECT.json` lists the hazards at their lines, with the properties for each.

## 2. Modules

| Module | Models | Role |
|---|---|---|
| `Database` | database.c, PostgreSQL, the network | actions conjoined by `Accounts` and `Health` |
| `Accounts` | auth.c, authentication.c, three tables of init.sql | the core |
| `AccountLifecycle` | – | abstract specification that `Accounts` implements |
| `AccountsProofs`, `AccountsRefinement` | – | theorems about `Accounts` |
| `Engagement` | activity.c, favorites.c, authentication.c, their tables and the ON DELETE rules of init.sql | composed with `Database` and with `AccountLifecycle`, which stands for the account routes |
| `Feedback` | – | abstract specification that `Engagement` implements |
| `EngagementProofs` | – | theorems about `Engagement` |
| `Health` | `GET /health`, http.c:58-65 | composed with `Database` |
| `HealthProofs` | – | theorems about `Health` |
| `Requests` | `http_dispatch()` and its helpers, `parse_json()`, `portal_validation_key()` | operators and one step |
| `Analytics` | analytics.c | composed with `Requests`, over `Numerals` |
| `AnalyticsProofs` | – | theorems about `Requests` and `Analytics` |
| `Numerals` | `strtol()`, `strtoul()` as the code uses them | operators |
| `Config` | config.c | operators, over `Numerals` |
| `App` | app.c, main.c, server start and stop | the process, over `Config` |
| `AppProofs` | – | theorems about `App` and `Config` |
| `Upload` | access handler, completed callback, body append | the body of a request |
| `UploadProofs` | – | theorems about `Upload` |
| `Minima` | – | a lemma: sets of natural numbers have a least element |
| `MCAccounts`, `MCEngagement`, `MCAnalytics`, `MCApp` | – | constants and symmetry for TLC; `Health` and `Upload` need none |

### Database

`link[w]` is what process *w* believes of its connection against what is true:
`closed`, `good`, `stale` (libpq still says `CONNECTION_OK`, the far end is gone)
and `bad`. A statement has three outcomes: `QueryReturns`; `QueryLosesResult`,
where it committed and the caller sees an error; `QueryFails`, where it had no
effect and the caller sees an error: PostgreSQL refused it, the connection was
lost, or there was no memory for a result (database.c:64), in which case nothing
is sent and a loss stays unnoticed. No action leads from `bad` to `good`: the
code calls `PQconnectdb()` once (database.c:27) and never `PQreset()`.

### Accounts

A handler is cut before each statement and before its answer reaches the
client, and nowhere else, for between these points it touches only locals.
Each statement, CTEs included, is one autocommitted transaction and one step.
`task[w].stage` is `authenticate` (the SELECT of `portal_http_authenticate()`),
`statement` or `reply`. Each handler is one action: `Register`, `Confirm`,
`Login`, `Logout`. `Completed` splits every one of them into *result read* and
*result lost*; `Fail` is the statement without effect, with the status each
handler gives to it (401 in `authenticate`, 400 in `Confirm`, 500 elsewhere).
`Receive` is the validation before any statement.

* A table is a function from its key to a row or `NoRow`; a user's id is
  represented by its e-mail, which is unique and which no statement updates.
* `Lower` is `portal_validation_lowercase_copy()`, `PgLower` is `lower()` of
  PostgreSQL; they differ on capital letters outside ASCII, where the CHECK of
  init.sql:11 refuses the row and the answer is 500.
* A password stands for the passwords its bcrypt hash does not tell apart.
* `Bogus` is any 36-byte text that is no row's key, well formed or not; the
  statement finds no row or fails on the cast, and both give the same answers.
* `known` and `closed` are the clients: the tokens they have read, and those
  they have read a 204 for. Clients present tokens they have, or wrong ones.
  When the confirmation token is not exposed, `Mailed` stands for the mail
  provider README.md:83 asks for, which no code under `src/` implements.
* `now()` is constant within a statement. One that waits for a row lock
  commits later than the instant it writes; the model takes it at that instant.

### Engagement

The handlers of favorites.c and activity.c, cut as in `Accounts`: `Receive` goes
up to the first statement, `Authenticate` is the SELECT of
`portal_http_authenticate()` with what the handler does of its result, and each
route is one action for its one statement. `Completed` is the statement that
commits, its result read or lost; `Fail` the one without effect; `RefusedByKey`
the INSERT that the foreign key refuses.

* `defect` says which validation a request fails, the one before the SELECT of
  authentication or the one after it (activity.c:77 and :86, :146 and :154,
  :211; favorites.c:82), because a Bearer that is wrong wins over the second and
  not over the first.
* Accounts and sessions change beside the handlers by the steps of
  `AccountLifecycle`, which `Accounts` is proved to implement: any registration,
  confirmation, login, logout or expiry may come between two statements.
* `DeleteUser` is an operator's `DELETE FROM users`, which no code runs.
  Sessions and favorites go by CASCADE. The SET NULL of likes, comments and events
  would leave both actor columns NULL, since a row has exactly one of them; the
  CHECKs (init.sql:65, 84, 97) refuse that, so a user with any such row cannot be
  deleted.
* A user's id is a text that `portal_validation_anonymous_id()` accepts, so a
  visitor may use it as `anonymous_id`; `ActorKey` keeps the prefixes of
  activity.c:27 and :32.
* `likes` keeps the columns apart (`key` is `actor_key`, `by` the actor), so that
  the unique key and the actor can disagree. Comments and events are counted.
  The portal key, the component, the page and the event's data are no part of a
  property; the five event types are "view", "like" and "comment".
* `acked` counts the 201 answers clients have read. `lived` says whether the
  Bearer's session was live when the request came: a history variable.

### Requests, Analytics

A URL is the sequence of the texts between its slashes; a text is a member of the
constant `Text`, with a length and with whether `portal_validation_key()` accepts
its characters. `Url` is the set of the URLs that clients send: some 115 in the
runs (`MCAnalytics!UrlTried`), any in the theorems. `Dispatched` is `http_dispatch()`: the routes without body, the rule
of when a body is parsed, the JSON routes. HEAD, which libmicrohttpd passes on,
behaves like PATCH: no route has it.

`Analytics` takes the request that `Dispatched` sends to `top_content` through
authentication, validation and the query. `rows` is a set of events, each with its
content, its age in days and whether it is "noise": of another portal, of a type
that does not count or without content. `Selected`, `Groups`, `Ahead` and `Top`
are the WHERE, GROUP BY, ORDER BY and LIMIT of the statement; `TopIsTop` says what
the answer means without them, by counting the contents that beat each other.
Authentication and the statement may fail at each request; that the session is genuine is the
subject of `Accounts`. `Numerals` is `strtol()` and `strtoul()`: a text is the
number it starts with, whether it has digits and whether anything follows.

### Config

`Settings` is `portal_config_create_from_environment()` over an environment whose
variables are texts of `Numerals`; `ULong` wraps a negative number as `strtoul()`
does. So `-18446744073709551615` is accepted as 1, and `SettingsAreUsable` shows
that what is accepted is in range all the same.
`App` reads `Settings` when it creates the configuration.

### Health, App, Upload

`Health` adds to `Database` a probe that may wait for the thread and a handler
that may be inside a statement; `AnswerHealth` asks only `IsConnected`. `health`
and `data` are the last answers to a probe and to a data request. `LossIsReported`
and `AlarmIsTrue` are the two halves of what a 503 is worth: it always comes once a
statement has met a loss, and it comes for nothing else, so that no statement
succeeds after it.

`App` follows the main thread line by line through creation (each step may
fail), the signal mask, `sigwait()`, the stop and the release. The polling
thread inherits the mask at its creation; a signal that some thread does not
block kills the process, one that all block is pending.

`Upload` follows one connection per member of `Conn` through as many requests
as it carries. `FirstCall`, `Append`, `Reject`, `Discard` and `LastCall` are
the branches of `http_access_handler()`; `Completed` is the callback.
libmicrohttpd may refuse the 413 queued while the body is coming in (the
connection then closes), may send it early, and may abort at any time.

## 3. Runs

| Run | Bounds | Shows |
|---|---|---|
| `AccountsOne` | 1 worker; a, A, b and a non-ASCII address; 3 tokens; clock 0..2, confirmation 2 h, session 1 h | `TypeOK`, `OneAccountPerMailbox`, `ConfirmedByItsToken`, `SessionsOnlyForConfirmed`, `StrandedForever` |
| `AccountsTwo` | 2 workers; 1 address; 3 tokens; clock 0..1 | `AnswersAreTrue`, `Inductive`, `ClosedNeverAuthenticates`, `RowsAreFinal`, `ImplementsLifecycle` |
| `AccountsLive` | 2 workers, 1 address, 2 tokens, token not exposed, fair | `ConfirmationTokenIsSecret`, `EveryRequestEnds` |
| `AccountsBlamed` | 1 worker, 2 tokens | violated: a database failure answered as a bad token (section 6) |
| `Engagement` | 2 workers; 1 user, 1 session token, 1 visitor with the user's id as anonymous_id, 1 content, 1 favorite key; 2 events | `NoOrphans`, `FeedbackHasEvent`, `AcknowledgedIsKept`, `ActorIsProven`, `EndedSessionsDoNothing`, `OnlyItsActorUndoes`, `ImplementsFeedback` |
| `Analytics` | 6 methods, 115 URLs, 7 bodies; 3 contents, 0..2 events of each content and of ages 1 and 2 days, 8 texts for `days`, 7 for `limit` | `RoutedAsDocumented`, `TopIsTop` |
| `Routes` | the same | violated: an unknown URL answered `invalid_json` (section 6) |
| `Health` | 2 processes on one server, fair; no other bound | `AlarmIsTrue`, `LossIsReported`, `LossIsNoticed`, `ProbeIsAnswered` |
| `HealthWrong`, `HealthStuck` | 1 process | violated: stale 200, 503 for ever (section 6) |
| `App` | 21 environments: each number at 0, 1, the ends of the ranges, their successors, the ends of `unsigned long` (here 140001), negatives; fair | `SettingsAreUsable`, `NoUseAfterRelease`, `ReleasedInReverse`, `OrderlyReturn`, `NoRequestCut`, `SignalEndsProcess` |
| `Upload` | 2 connections, limit 5, first buffer 2, bodies 0..6, pieces 1..3, fair | `WholeBody`, `OneAnswer`, `BufferFits`, `OnlyTooLarge`, `EveryRequestCompletes` |

Why the bounds are enough. Two workers are the least that can interleave, and
a statement relates at most one token, one session and one account. Three tokens
let an account have its confirmation token and two sessions, or two accounts
a token each and one of them a session; when no token is left, registration
and login of the model stop, which happens after all the cases above. The clock
reaches, in `AccountsOne`, the last instant each kind of token is good and the
first it is not; in `AccountsTwo`, the same for sessions.
`MaxTime` is the only bound in the specification of `Accounts`; the theorems
hold for each value of it. In `Upload` the limit is not a multiple of the
first buffer, so that some bodies reach it without growing the buffer and some
do not; bodies end below, at and above the limit; pieces are smaller and larger
than the buffer. Memory may fail at each allocation. `App.cfg` and
`Analytics.cfg` switch off the check for deadlock because the process, or the one
request, ends.

`Engagement`: `MaxEvents` bounds the requests that insert; two of them are a
request and its retry, or a like by the user and one by the visitor. `asks`,
chosen at the start and never changed, says which routes clients use on which
worker: one worker that serves every route in any order, or two workers whose
statements meet on the same row (two likes, a like against its DELETE, two
events, a favorite against its DELETE). Reads of distinct rows commute, so
other pairs add nothing the single worker with a changing environment does not
show. The theorems about `Engagement` hold for every
`MaxEvents` and every use of the workers.

`Analytics` (constants in `MCAnalytics`): the table is varied only for a request that reaches the query, and
parameters likewise; with three contents, ties, a limit of 1 or 2 that cuts
them, and contents without a view occur. Events of age 2 are out of a window of 1
day and at the edge of one of 2 days. `LongMax` is 1023 there and 70000 in
`App`: only numbers around it and around the ranges behave differently.

Symmetry: workers and tokens are interchangeable in the two safety
runs of `Accounts` (`CHOOSE` occurs in a faulty variant only); no run with a
liveness property uses symmetry.

Definitions commented *Faulty variant* are what the code would be with a
plausible mistake (a dropped condition, an upsert, a missing join). They take no
part in the specifications. Each property of a passing run is paired in
`PROJECT.json` with one of them that violates it.

## 4. Fairness

* `Accounts!FairSpec`: weak fairness of what a worker does for the request it
  holds. The polling thread is never blocked by another thread, and libpq ends
  each call: with an answer, or with an error once the connection is found dead.
  The code sets no statement timeout, so the second rests on the keepalive and
  TCP timeouts of the system.
* `Health!FairSpec`: besides, clients keep asking for data and for health, and
  the thread goes round its connections, so a probe that waits gets its turn
  between two statements although it is disabled during each (strong fairness).
  Memory for a result (database.c:64) is not short for every statement, so one is
  sent at last over a connection that was lost (strong fairness of `FindLoss`).
  A process that has exited is started again (docker-compose.yml); nothing obliges
  one that is running to stop.
* `App!FairSpec`: the main thread runs, handlers end, and the polling thread
  looks at the shutdown flag between two rounds (strong fairness of `StopServer`).
  `sigwait()` owes nothing until a signal is pending.
* `Upload!FairSpec`: the thread goes round the connections and a client that
  does not give up goes on sending. The code sets no
  `MHD_OPTION_CONNECTION_TIMEOUT`, so a client that does neither keeps its
  connection; this is listed as a hazard.

## 5. Proofs

All theorems hold for every value of the constants that the named assumptions
allow, without the bounds of the runs.

### Accounts

`AccountsProofs` and `AccountsRefinement` hold for every set of workers,
addresses, passwords and tokens, for all lifetimes of at least an hour and both
settings of `EXPOSE_CONFIRMATION_TOKEN`. They assume `AccountsAssumption`
(weak passwords are not strong ones, special values are not tokens, `Lower` is
idempotent) and `NoRowAssumption` (`NoRow` is no row).

The inductive invariant is `Inductive`. `AnswersAreTrue` is not inductive alone:
that a 204 is true needs `AuthenticatedHasSession` (a logout past
`portal_http_authenticate()` finds its row), since the UPDATE that touches no
row is answered 204 as well; that it stays true needs that instants are never
rewritten. `ConfirmedByItsToken` needs `OneAccountPerMailbox`: with two tokens
for an account, spending the second would leave the two instants different.

The argument goes through `TableSteps`: each step writes in one of four ways
(`Registers`, `Confirms`, `Opens`, `Closes`) or not at all. Each part of the
invariant is then shown against five cases instead of sixteen actions, and so
is the refinement.

| Theorem | Property |
|---|---|
| `InductiveIsInvariant` | `Inductive` |
| `TypeCorrect`, `OneAccountCorrect`, `ConfirmationCorrect`, `SessionsCorrect`, `AnswersCorrect` | its parts |
| `RowsCorrect` | `RowsAreFinal`, from `RowsStep` |
| `LogoutCorrect` | `ClosedNeverAuthenticates`, from `ClosedAreRevoked` |
| `SecretCorrect` | `ConfirmationTokenIsSecret`, with `SecretInv`: no key names a row of both kinds, and what clients hold are sessions |
| `StrandedCorrect` | `StrandedForever`, with `StaysUnreachable` and `ConfirmedByRequest` |
| `LifecycleImplemented` | `ImplementsLifecycle`: each step maps to `Register`, `Confirm`, `Grant`, `End` or a stutter |

### Engagement

`EngagementProofs!Inductive` is the conjunction of the properties of states; what
makes it inductive is two lemmas about steps. `SessionsKept`: a token, once
granted, belongs to one user for ever, and no ended session lives again.
`ActorIsProven` is stable only because of the first half (the session may end while
the handler waits for its statement, but its owner does not change),
`EndedSessionsDoNothing` only because of the second. `WrittenByActor`: the rows a step
adds name users who are there. From it comes
`NoOrphans`, since each INSERT checks the foreign key in its own transaction and
`DeleteUser` is refused while a row names the user. `AcknowledgedIsKept` counts
answers on their way; `HeldFinite` and `CountKept` bound how the workers that hold
one change in a step, which is where the finiteness of `Worker` is used. The
theorems assume `EngagementAssumption`.

| Theorem | Property |
|---|---|
| `EngagementInvariant` | `Inductive` of `EngagementProofs` |
| `EngagementTypeCorrect`, `OrphansCorrect`, `FeedbackCorrect`, `AcknowledgedCorrect`, `ActorCorrect`, `EndedCorrect` | its parts: `EngagementTypeOK`, `NoOrphans`, `FeedbackHasEvent`, `AcknowledgedIsKept`, `ActorIsProven`, `EndedSessionsDoNothing` |
| `UndoneCorrect` | `OnlyItsActorUndoes`: the key of a like determines its actor |
| `FeedbackImplemented` | `ImplementsFeedback`: `Like` and `Unlike` map to their namesakes or, repeated, to a stutter |

### App and Config

`AppProofs!Inductive` adds to the types the order of the program: which
resources are live at each place of the main thread (`Order`), what is blocked
where (`Threads`) and what the local `result` says (`Results`). Only with the
first is the release in reverse order, and the absence of the thread after
`MHD_stop_daemon()`, a fact about `pc`. `SettingsUsable` is the lemma about
`Config`, for every environment and every width of `unsigned long` that holds a
port (`AppAssumption`, `NumeralsAssumption`).

| Theorem | Property |
|---|---|
| `AppTypeCorrect`, `UseCorrect`, `ReleaseCorrect`, `ReturnCorrect`, `SettingsCorrect` | `AppTypeOK`, `NoUseAfterRelease`, `ReleasedInReverse`, `OrderlyReturn`, `SettingsAreUsable` |
| `RequestsUncut` | `NoRequestCut` |

### Health and Upload

`HealthProofs`: `AlarmIsTrue` needs `AlarmOfLoss`, that a process whose last answer
to a probe was 503 has a connection that is `bad`, which no step but the end of the
process undoes. `LossIsReported` is about the step that answers a probe.

| Theorem | Property |
|---|---|
| `HealthTypeCorrect`, `LossCorrect`, `AlarmCorrect` | `HealthTypeOK`, `LossIsReported`, `AlarmIsTrue` |

`UploadProofs`: `WholeBody` needs `Received` (while nothing is answered, what has
been read is what is kept), `OneAnswer` needs `Unanswered` (`response_queued`
never lags behind an answer), `BufferFits` needs `Buffers` (`Fitting`, of every
body that is kept). All hold for every number of connections, limit, first buffer,
size of bodies and size of pieces (`UploadAssumption`).

The capacity comes from a loop of doublings (request.c:18), the recursive function
of `Doubled`. The library's induction theorems take a predicate as a parameter,
which the provers cannot instantiate, so `Minima!LeastNat` is used instead: among
the numbers that make a claim false one is the least. `DoublesExists` shows so that
the recursion has a solution, without which `Doubled` would mean nothing, and
`DoubledBounds` that the loop ends with enough and, where it ran at all, with less
than twice what is required. The induction in the second goes down, from capacities
that suffice to those half as large; that the first capacity is not 0 is needed
exactly here.

| Theorem | Property |
|---|---|
| `UploadTypeCorrect`, `BodyCorrect`, `AnswerCorrect`, `BufferCorrect` | `UploadTypeOK`, `WholeBody`, `OneAnswer`, `BufferFits` |
| `RejectionCorrect` | `OnlyTooLarge`, from `Received` |

### Routing and analytics

`AnalyticsProofs` holds for every set of texts with their lengths, every set of
URLs made of them, all bodies, every finite table, all texts of `days` and `limit`
and every `LongMax` of at least 365. It assumes `RequestsAssumption` (only the
empty text has length 0, a URL has a first text), `AnalyticsAssumption` (rows are
well formed, tables finite) and `NumeralsAssumption`.

*Routing.* `Routed` is the invariant: what was dispatched is `Dispatched(request)`.
The rest is about that operator. `DirectRoutes` treats the routes that need no
body, `ContentRoutes` those under `/content`, `PlainRoutes` the others; each
says which documented route a URL is, or why the key in it is not valid. That
rests on `KeyIsText`: a key with a slash, or an empty one, is refused by
`portal_validation_key()`, so `/me/favorite-tags/a/b` and `/content//like` reach a
handler that answers 400. `IdIsShort` shows that the 301 bytes of
`http_dispatch_content()` refuse no id the handler would take.

*Ranking.* `Answered` is the invariant: a list is `Top` of the table's groups, and
it is given for good parameters only. `RangeIsMeant` is the lemma about
`analytics_parse_range()`. The ranking is argued by places: the place of a group
is one more than the number of groups ahead of it. `AheadOrder` (the tie is
broken by an id, which no two groups share) makes places distinct
(`PlaceMonotone`); so they are the numbers from 1 on, so a sorted enumeration
exists (`SortedExists`), and any sorted enumeration has each group at its place
(`SortedPlaces`, by a bijection between the indices before and the groups ahead).
`PlaceOfContent` carries places from groups to contents, where those without
views beat nobody who has some.

| Theorem | Property |
|---|---|
| `RoutingCorrect` | `RoutedAsDocumented` |
| `RankingCorrect` | `TopIsTop` |

### Only model-checked

Every safety property of a passing run is proved. Liveness is not:
`EveryRequestEnds`, `LossIsNoticed`, `ProbeIsAnswered`, `SignalEndsProcess` and
`EveryRequestCompletes` rest on fairness, whose ENABLED is out of the prover's
reach.

## 6. Where the documentation and the code differ

1. **A failed database is reported as a bad token** (`AccountsBlamed`).
   auth.c:115 sends every outcome but one row to the 400 "The confirmation token is
   invalid or expired."; docs/wiki/API-TESTING.md:96 promises 400 for invalid,
   expired or reused tokens. Registration and login answer 500 in the same
   situation. The run stops at this, its shortest counterexample. The second half
   of the property disagrees in the same way: authentication.c:33 makes no
   difference between no row and no result, and API-TESTING.md:335 gives 401 to
   invalid, expired or revoked Bearers.
2. **/health says 200 while PostgreSQL is down** (`HealthWrong`).
   database.c:53 reads a status cached by libpq; API-TESTING.md:59 says the route
   verifies that the API can connect.
3. **/health says 503 for ever after PostgreSQL is back** (`HealthStuck`).
   There is no reconnection, and the process does not exit, so nothing restarts it.
4. **An unknown route may be answered 400** (`Routes`). http.c:126-134 parses the
   body of a POST, a PUT or a DELETE before any URL is compared, so a POST to a
   route that does not exist is `invalid_json` unless its body is an object;
   API-TESTING.md:337 has `404 not_found` for it.

Two observations that are no disagreement with a text the runs could refute: the
`ON DELETE SET NULL` of init.sql can never take effect for a row recorded signed
in, because the CHECK on its actor refuses it (see `DeleteUser`); and `strtoul()`
lets a negative number through when it wraps into the range.

## 7. Not modelled, and the plan

* The composition of `App`, `Upload` and `Health`: a shutdown with bodies in
  flight. Each is checked against the others' interface only (the polling thread
  is in a handler or not; a connection may be aborted at any time).
* Connection slots: the daemon sets neither a connection limit nor a timeout
  (http.c:206), so a client that stops sending keeps its connection and its buffer.
* The scans of characters in validation.c (the shape of an e-mail, of keys and of
  anonymous ids) and the reading of fields out of JSON: the constants and the
  defects of requests stand for their outcomes. A row the database accepts and
  the validation refuses, or the reverse, is modelled only for the case of letters
  in e-mails.
* Memory that is short inside the JSON parser (request.c:53-56), which the code
  answers like a body that is no object; memory failures of the body, of answers
  and of statements are modelled.
* More proofs: the steps of the liveness arguments that need no fairness (a measure
  that each step of a worker, a connection or the main thread decreases), as action
  properties with invariants of their own.

Left out for good: formatting of JSON answers and headers, logging, the Windows
branch of app.c (it waits for a key), build files, container and scripts, the
bodies of libmicrohttpd, libpq and PostgreSQL beyond what the code relies on.
