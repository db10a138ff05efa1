# TLA+ verification of the SafeAI platform

SafeAI is a personal-safety platform: a FastAPI backend (`src/backend`) over
PostgreSQL and a small Next.js frontend (`src/frontend`). Its heart is
`POST /emergency/sos`: store an emergency event, then tell the user's contacts,
exactly once however often a panicked user taps. This project models the parts
of the backend in which several requests, the database, failures and restarts
interact, checks them with TLC on small instances and proves the core of them
with TLAPS for every instance.

## 1. Inventory

| Component | State it keeps | Operations | Interacts with |
|---|---|---|---|
| SOS workflow (`trigger_sos.py`, `event_repository.py`) | rows of `emergency_events` | trigger (pre-check, insert, notify), replay | contacts (read), notifier, unit of work |
| Event lifecycle (`emergency_event.py`, `update_event_status.py`, `get_event.py`) | `status`, `updated_at` of a row | get, transition | unit of work |
| Emergency contacts (`add_contact.py`, `list_contacts.py`) | rows of `emergency_contacts` | add, list (paged) | read by the SOS workflow |
| Accounts (`register_user.py`, `authenticate_user.py`, `security.py`) | rows of `users`; tokens at the clients | register, login, look-up of the token's user | every authenticated request |
| Location history (`record_location.py`, `get_location_history.py`) | rows of `location_history` | record, list (paged, newest first) | unit of work |
| Unit of work (`deps.get_session`, `session.py`) | one transaction per request, the connection pool | commit, rollback, close | every handler |
| Error mapping (`errors.py`) | none | domain errors, 422, 401, 500 to the envelope | every handler |
| Notifier (`log_notifier.py`) | none; its effects cannot be undone | notify, one attempt per contact | SOS workflow |
| Health (`health.py`) | none | liveness, readiness | database, container orchestration |
| Migrations (`alembic/`) | schema version | upgrade at container start | database, configuration |
| Configuration, application factory (`config.py`, `main.py`) | the settings, the engine | load, validate, build, dispose | migrations, every request |
| Frontend (`client.ts`, `BackendStatus.tsx`) | component state | probe readiness | health |

The handlers are plain `def` functions: FastAPI runs each request in a thread of
a pool, with a database transaction of its own, so any two requests may overlap
at statement boundaries. PostgreSQL runs them at READ COMMITTED, where each
statement sees what was committed before it; writers of one row or one unique
key wait for each other until the earlier transaction ends.

What is hard, component by component (every item is a hazard of `PROJECT.json`
with its line):

* SOS: two requests of one key, retries after an error, a crash or a commit
  failure after the notifications, the order of commit and response.
* Lifecycle: a decision on a status that is no longer stored when it is written.
* Accounts, contacts: check-then-insert races.
* Location history: pages that shift under a walk, two statements per page.
* Pool: more threads than connections, each kept while waiting for the other; a
  liveness probe that needs a thread.
* Migrations: two containers at once, images of different age, a death halfway.
* Status line: answers that arrive after the component has gone, or for the
  first of two effects.

Correct means, for these components: at most one event per key; an answered
event is stored; all answers to a key agree; the contacts on record are told
before an event becomes visible, and twice only if a transaction was lost; nobody but the owner reads or moves an event;
a terminal event stays terminal; a walk over a list skips nothing that was
stored; nothing leaks from the pools; the schema is always that of one revision;
what the page displays was true; every request is answered.

## 2. Structure

| Module | Extended by | Implements | Proofs |
|---|---|---|---|
| `TriggerSos` | | `SosPromise` | `TriggerSosProofs` |
| `EventLifecycle` | `UpdateStatus` | `StatusRegister` | `UpdateStatusProofs` |
| `Accounts` | | `Register` | `AccountsProofs` |
| `Records` | | `Register` | `RecordsProofs` |
| `RequestPool` | `BackendStatus` | | `BackendStatusProofs` |
| `Deployment` | | `SchemaHistory` | `DeploymentProofs` |

The first four work on the transactions of requests over the tables, the fifth
on what a request needs to run at all, the sixth on what precedes the first
request. They are separate specifications because what one leaves open is an
environment step of the other: a failing statement (`Fault`) of the handlers is
a pool timeout or an outage of `RequestPool`, and a `Crash` is a `Kill` of
`Deployment`.

The abstract specifications know no threads, transactions, locks or look-ups,
only what a client or an operator may rely on. `SosPromise` and `StatusRegister`
belong to one component each; `Register` is a table with a unique name, which
the accounts and the contacts both are; `SchemaHistory` is the database as its
servers see it. To the plain lifecycle of `EventLifecycle`, where each write is a
transition of the status it replaces, `UpdateStatus` does *not* always keep (see
5): `StatusRegister` says as much as is true.

## 3. The modules

**`TriggerSos`** models `POST /emergency/sos`. A request is a process; an event
is named by the request that inserted it, and `row[r]` is the fate of that row:
`none`, `pending` (inserted, not committed), `durable`, `rolledback`, or `erased`
with its account. The program counter follows the code:

| `pc` | code |
|---|---|
| `auth` | `get_current_user` looks the account up |
| `check` | the pre-check of `execute` (lines 60-63) |
| `insert` | `add` (savepoint, flush); waits while another transaction holds the key |
| `replay` | `EventConflictError` was caught; `_replay_or_none` |
| `contacts`, `notify` | `all_for_user`; the loop of `LogNotifier.notify` |
| `commit`, `respond` | the teardown of `get_session` and the response, in the order of `CommitBeforeResponse` |
| `done`, `lost` | answered (or at least over); died with the server |

`Abort` is an exception leaving the handler: rollback, then an error response.
`Fault` is a failing statement anywhere in the handler, `CommitFails` a COMMIT
that raises, with the transaction applied or not. `Crash` ends every request in
flight and rolls back their transactions. `DeleteAccount` is an operator's
deletion of the user row (no endpoint does it, but the schema cascades and
`get_current_user` provides for it): a pending event row holds a key-share lock
on the user's row, so the deletion waits for it. `AddContact` is the commit of a
`POST /contacts`, at any time; `ReadContacts` sees the contacts committed by then
and no later one. `outreach` records what became of each notification, and, as
history, to whom it was `due`: the contacts on record when the event was inserted.

`CommitBeforeResponse` exists because `pyproject.toml` admits every FastAPI from
0.115 on: before 0.118 the teardown of a `yield` dependency ran before the
response was sent, from 0.118 on it runs after.

**`SosPromise`** is what a client may rely on when the commit precedes the
response: a register of events, at most one per key, that never grants what it
has not recorded. `TriggerSos` refers to it as `Promise`, with `asked` mapped to
the requests that have been sent, `recorded` to the rows that were ever durable
and `reply` to the answers; `KeepsPromise` says the refinement.

**`EventLifecycle`** is the transition table of the domain entity.

**`UpdateStatus`** models `GET /emergency/{id}` and
`PATCH /emergency/{id}/status` for several users and events: load, ownership
test, validation against the loaded status (`view`), a second load inside
`update_status` (`base`, from the identity map or the database: the map keeps
objects weakly, so both happen), the UPDATE by primary key, which waits for the
row lock (`holder`), commit and response. If the second load already shows the
requested status the flush emits nothing. `held` is a history variable: every
status an event has had. An event appears when an SOS transaction commits and
goes when its user is deleted.

**`StatusRegister`** gives each of these requests one moment of decision. There a
PATCH writes a status, or a request writes nothing, or it is refused, for a reason
that is true at that moment; a grant comes after it and names a status the event
has had. `UpdateStatus` maps `decided` to the requests past COMMIT or rollback
(`pc` in `respond`, `done`) and keeps the other variables. The register admits a
write if *some* status of the event's past allows it, not the present one: this
is what an overlap costs and all it costs.

**`Accounts`** models `POST /auth/register`, `POST /auth/login` and
`GET /profile`, which stands for every request behind `get_current_user`. The
requests are given as three disjoint sets, an account is named by the
registration that inserted it (primary keys come from a sequence), and `row` is
its fate as in `TriggerSos`. `Normal` is `normalize_email`: several spellings
have one stored form.

| `pc` | code |
|---|---|
| `check`, `insert` | `RegisterUserUseCase.execute`: look up, then hash and `add` |
| `find`, `issue` | `AuthenticateUserUseCase.execute`; `JwtTokenService.issue` after the slow bcrypt verification |
| `decode`, `load` | `get_current_user`: the token against the clock, then the account by its id |
| `commit`, `respond` | as in `TriggerSos` |

An expired or missing token is refused in `decode` without a statement. The
clock `now` counts whatever unit `exp` does; `expiry` is the `exp` claim and
`sent` the time a request was sent (a history variable). A client presents a
token some login has answered, or none that is valid. A crash is not modelled
here: to the database it is a `Fault`, and nothing else is lost.

**`Register`** has two steps that matter: `Enter`, at the COMMIT of an insertion,
and `RefuseTaken`, at which the name must be somebody else's. `Accounts` maps to
it as `Registry` (`entered` are the durable rows, `name` the stored form of the
email), `Records` as `Book` (the contacts by their number). What the mappings
say beyond uniqueness: a 201 is sent only for an entry made, a 409 only when the
name is taken at that very step, and no request that was refused has entered
anything or ever will, except that a client may be told of an error whose COMMIT
went through. They need the commit to precede the response.

**`Records`** models `POST` and `GET /contacts` and `POST /location/update` and
`GET /location/history` for one user (rows of different users share nothing but
the key sequence). A row is named by the write that built it; `id` is its
primary key, `stamp` the `recorded_at` of a sample, taken from the clock when the
flush builds the INSERT, before the row has an id. An INSERT of a contact draws
its key (`Key`) before it waits for another one of its number (`Wait`), and a key
drawn is never given again. The two lists have the two orders of the
repositories, `Before`: contacts by id, samples newest first with the id as
tie-breaker. The clock never goes back in the model; the code reads the wall clock,
which promises no such thing, so `ListedInRequestOrder` is conditional on it. A walk is a
client that asks for page after page; each page is a request of two statements,
`ListRows` (`OFFSET`, `LIMIT`) and `CountRows`, and the client stops when
`page * limit` reaches the total. `known` is a history variable: for a walk the
rows stored when it began, for a write the rows whose 201 was sent before it.

**`RequestPool`** models what every request competes for. A plain `def` endpoint
or dependency runs in a thread of a limited pool, one step at a time, and a
session keeps its connection from the first statement to its `close`:

| `stage` | code |
|---|---|
| `queued`, `asking` | waits for its first thread; in it, for a pooled connection |
| `querying` | the statement of `get_current_user`, or of `ping` |
| `between` | `get_current_user` is over: no thread, but the connection |
| `working` | the endpoint, in a thread again |
| `closing` | the teardown of `get_session`: commit, close; it has a limiter of its own |
| `failing` | the same teardown after an exception: rollback, close |

A request may be refused before any statement (`TurnedAway`: the token is missing,
malformed or expired, or the body of a public request does not validate) or by an
exception later (`Fails`: the token names no user, a domain error, a statement
that fails, or an input of a protected request, which FastAPI reports only when
all dependencies have been solved). It then still has its connection until
`Unwind`. `PingRefused` is `ping` catching the error itself.
The pool timeout (30 s) is a step that may be taken whenever no connection is
free. It ends a readiness probe with 503 "Database is not reachable", although the
database is; every other request with 500. The database is up, refuses, or hangs.

**`BackendStatus`** extends it with the browser: mounting the component sends a
readiness request per effect, StrictMode cleans the first effect up and runs it
again, unmounting clears `active`, and answers arrive or fail at any later time.
`instance` are the effects of the mounted instance (setting the state of a gone
instance does nothing), `by` remembers which effect set the state.

**`Deployment`** models the command of the container: `alembic upgrade head`, then
the server. `env.py` loads the settings (a malformed value ends the container)
but does not call `validate_runtime`; the migration compares the stored revision
with the scripts of the image, and runs all missing revisions in one transaction.
A table that another open transaction has created makes CREATE TABLE wait; if
that transaction commits, the statement fails and the container exits, as nothing
restarts it. Only then does `create_app` refuse an insecure production
configuration: the schema has been upgraded by then.

**`SchemaHistory`** is what remains for its users: `Upgrade` goes from one whole
revision to any later one in a single step, `Serve` relies on a revision that has
been reached. `Deployment` maps to it as `History`, with `serves` the image of a
container in stage `serving`.

The `MC...` modules only add the symmetry sets and the constants of the runs.

Definitions named `X_Y` and introduced as "Mutant" are variants of the
definition `X` that a bug in the code would produce. They occur in no
specification; substituted for `X` they show that a property can fail.

## 4. What the runs show

| Run | Instance | Shows |
|---|---|---|
| `sos_commit_first` | 3 requests, 1 key or none, 1 contact on record or added meanwhile, 1 crash, fair threads | types, one event per key, answers agree and are durable, whoever was on record at the insertion of a durable event has been told or tried, notifications repeat only after a rollback, 409 only without account, no re-creation after an answer, refinement of `SosPromise`, every request ends |
| `status_safety` | 2 requests, 2 users, 1 event, fair threads | types, owner only, refinement of `StatusRegister`, illegal writes only after an overlap, nothing becomes active again, every request ends |
| `accounts_register` | 3 registrations, 1 login, 2 mailboxes (one in 2 spellings), 1 fault, commit first | refinement of `Register`, refusals justified, login after a 201 |
| `accounts_tokens` | 2 registrations, 1 login, 1 profile request, time 0..2, lifetime 1, response first, fair threads | types, a token reaches its owner only and works exactly as long as it should, every request ends |
| `records` | any 3 of 2 contacts and 2 samples, 1 walk, pages of one row, time 0..1, 1 fault | a walk skips nothing, refinement of `Register`, refusals are justified, lists follow the order of requests |
| `server` | 1 protected, 1 public, 1 liveness, 2 readiness requests on 2 threads and 1 connection, 1 outage, fair server | nothing leaks however a request ends, only the last effect shows, a green status was true, every request and every loading state ends |
| `deployment` | 2 containers, 4 starts, fair processes | refinement of `SchemaHistory` (the schema is always of one revision and never goes back), who serves has its tables and a secure configuration, a lost race has a winner, every start ends |

A run that checks a refinement does not list again what the refinement implies:
`OneAccountPerEmail`, `OneContactPerNumber`, `AckedWasCommitted` and `SchemaWhole`
are proved (see 6), and follow, as far as committed rows go, from `KeepsRegistry`,
`KeepsBook`, `KeepsRegister` and `KeepsHistory`.

The other five runs (`sos_notified_once`, `sos_ack_lost`, `status_reopened`,
`accounts_duplicate`, `server_live`) end in a violation; see 5.

Bounds. Three requests are a winner, a loser that waits for it and a third that
arrives after either has ended; a retry is a request, so three also cover two
failed attempts and a successful one. One key and the absence of a key are the
two cases the code distinguishes: requests of different keys, like those of
different users, share no row and no lock. One crash separates "before" and
"after"; further crashes repeat it. One event suffices for the lifecycle because
a transaction locks one event row at most. Two registrations are an account and
the next owner of its mailbox after a deletion; time 0..2 with lifetime 1 holds
the instants before, at and after an expiry. For a walk, two rows of its list
and pages of one row are the least with a row before, on and after the current
page, and two instants the least with and without a tie. Any three of
the four writes are sent (`ThreeWrites`): rows of the two lists meet only in the
keys they draw, so both lists at their full length add states and no case. Two threads and one
connection are enough for a request that keeps the connection while others hold
all threads, which is the circle that matters; two effects are what StrictMode
makes of one instance, or two instances in turn. Two containers give every race
for a table, four starts each of them a restart after the race.

Fairness. The liveness runs assume weak fairness of the next step of each
request: the threads of the pool are scheduled and the database answers or
fails. Sending, faults, failing commits and crashes are never required to happen.
Waiting on the unique index needs no more than weak fairness because each
transaction the request can wait for is itself a request that ends. In `server`
the pool timeout is part of the fair steps, the browser delivers the answers
there are, and nothing makes the database recover: `EveryRequestEnds` and
`StatusSettles` therefore assume, in the formula, that it does not hang for ever
(the engine sets no statement timeout). In `deployment` a started process goes
on; starting one is left to whoever does it.

## 5. Where code and documentation disagree

* `sos_notified_once`: notifications precede the commit, so a retry after a lost
  transaction notifies again. The same trace refutes a second claim: "durably
  persisted *before* any notification is attempted" (`trigger_sos.py:5-6`) holds
  for the flush, not for the disk, and the contact has been told of an event that
  is then rolled back. No run repeats that.
* `sos_ack_lost`: with FastAPI 0.118 or later the client is sent a 201, then the
  COMMIT fails, and the event it names is rolled back (`AckedIsNeverLost`).
* `status_reopened`: two overlapping PATCH requests; both validate against
  `active`, one commits `resolved`, the other then commits `acknowledged`.
* `accounts_duplicate`: the loser of two overlapping registrations of one email is
  answered 500, not the documented 409, because only the look-up before the
  INSERT raises `EmailAlreadyExistsError`. `RefusalHasHolder` is what remains
  true: such a refusal, too, has an account behind it. `POST /contacts` has the
  same race and the same answer (`InsertRejected` of `Records`).
* `server_live`: with the database up, a request that has authenticated keeps the
  only connection and waits for a thread, the threads are held by requests that
  wait for a connection, and the liveness probe, a plain `def`, waits for a thread
  past the 5 s of the healthcheck ("No dependency checks; returns ``200`` whenever
  the process is serving", `health.py:5`). The circle lasts until the pool timeout
  breaks it; `EveryRequestEnds` shows that it always does.

The other side of the first point is `DurableIsFannedOut`: committing at the end
means that a stored event has been tried with every contact that was on record
when it was inserted, so that a replay, which notifies nobody, leaves none of
those out. Committing before notifying would trade one property for the other. It
does not say "every contact": one whose `POST /contacts` commits after
`all_for_user` has run hears nothing, of a replay neither. How often a contact can
hear of one key is what `RepeatedOnlyAfterRollback` says.

## 6. What is proved

Every invariant and every action property of the passing runs is a theorem, and
so is every refinement. The only assumptions are those named
`ConstantsAssumption`, and `CommitBeforeResponse` where it is said. The
components have one scheme: an inductive invariant `IInv` in named parts, one
lemma per part that shows that every action preserves it, `Invariance`, and then
the theorems of interest.

`TriggerSosProofs` proves, for every set of requests, keys and contacts, any
number of crashes and (unless said) both orders of the teardown: `TypeOK`,
`OneEventPerKey`, `DurableIsFannedOut`, `RepeatedOnlyAfterRollback`,
`ConflictOnlyWithoutAccount`; and, assuming `CommitBeforeResponse`,
`AckedIsDurable`, `AnswersAgree`, `RetryNeverRecreates` and the refinement
`KeepsPromise`.

None of these is inductive alone. The invariant `IInv` adds what the program
counter says of the row, the result and the answer of a request (`Stages`);
uniqueness over all rows ever recorded, erased ones included, so that an answer
given before the deletion of the account still agrees with the others
(`UniqueRecord`); that a result about to be sent as a replay names a committed
event (`ReplayNamesDurable`); that while an event is pending its account stays,
and whom it is due to is in the book, or in `todo` once that has been read
(`FanOut`); and that the loser of a race finds the winner (`LoserFindsWinner`).
`NotifiedOncePerKey` is false (see 5); `RepeatedOnlyAfterRollback` is how far it
fails, by the theorem `RepetitionNeedsRollback`: of two events of one key that a contact heard of, one was rolled back,
whatever overlaps, crashes and is retried. `NoRingOfInserts`: whoever holds a key
another request waits for is past every wait of its own.

`UpdateStatusProofs` proves `TypeOK`, `OwnerOnly`, `LegalUnlessOverlapped`,
`NeverReactivated` and, assuming `CommitBeforeResponse`, `AckedWasCommitted`.
Its invariant relates the history of a status, the decisions under way, the row
locks and the outcomes not yet answered. From it follows, with
`CommitBeforeResponse`, the refinement `KeepsRegister`: at its COMMIT the holder
of a row has decided by a status of the row's past (`Decisions`, `Locks`), which
is the witness `Write` asks for, and what `Respond` sends is in the history by
then (`Outcomes`). `TerminalIsFinal` is false (see 5); `ReopeningNeedsOverlap`
proves that only one thing breaks it: the commit of a PATCH decided by an earlier,
open status. `NoRingOfUpdates`: whoever holds a row another request waits for has
left its handler and waits for nobody.

`AccountsProofs` proves `TypeOK`, `OneAccountPerEmail`, `RefusalHasHolder`,
`TokenReachesItsOwner`, `ExpiredIsRefused`, `TokenHonoured` and, assuming
`CommitBeforeResponse`, `RegisteredCanLogIn`. The invariant follows a token from
the login to the profile request: the account a login has verified stays on
record with its mailbox and password (`LoginsMatch`), which holds through a
deletion because rows are named by their primary key and never reused; what a
profile request has read of its token stays true (`TokensHeld`); and a row is
worth its 201 (`Rows`). With `CommitBeforeResponse` the same invariant gives the
refinement `KeepsRegistry`. The step that needs care is the one COMMIT that
raises after the database applied it: in the register, an entry whose client is
told of an error.

`RecordsProofs` proves `TypeOK`, `OneContactPerNumber`, `RefusalHasHolder`,
`NoneSkipped` and `ListedInRequestOrder`, for lists of any length, any page size
and any number of walks and writers. What a walk has left to see is bounded by
counting: every row that was stored when it began and is still stored has been
seen or lies at a position not before the next page (`Walked`), because
a row that becomes visible, wherever it sorts, moves others towards later pages
only, and rows leave all at once with their user. The order of the lists rests on
the keys: they grow with every draw and are never reused (`Rows`, `KeysBounded`),
and a request that follows another has the later key and no earlier stamp
(`Follows`). For the refinement `KeepsBook`
(with `CommitBeforeResponse`) `Rows` also says what a request about to respond has
in the table: a durable row, or one erased with its user.

`BackendStatusProofs` proves `TypeOK`, `NothingLeaks`, `ShowsTheLatest` and
`OkWasTrue` for any number of requests, threads, connections and outages: the
holders of both pools are a function of the stages (`PoolInv`), and of the
effects of the mounted instance only the last one is active (`PageInv`).
`OneGridlock` proves what `EveryRequestEnds` rests on: while the database answers or
refuses, requests can stand still in one way only, all threads waiting for a
connection and all connections for a thread, and the threads are then at the step
that the timeout of the pool ends. It speaks of the guards of the steps
(`Moves`), as ENABLED is out of the prover's reach.

`DeploymentProofs` proves `TypeOK`, `SchemaWhole`, `ServesItsSchema` and
`ConflictMeansUpgraded` for any number of containers. The argument is in
`Upgrading` and `Exclusive`: a container that has created a table has created the
first one after the committed schema, no two open transactions have created the
same table, so whoever commits is the only one who could, and the revision it
read is still the stored one (`ReadyToCommit`). So a COMMIT is one `Upgrade` of
`SchemaHistory`, and all else that happens to the database is invisible: `Refinement` proves `KeepsHistory` without further assumption.
`NoRingOfMigrations`: a migration that waits for another has created nothing.

Only model-checked: `EveryRequestEnds`, `EveryStartEnds` and `StatusSettles`, as the
provers handle neither fairness nor ENABLED. The theorems on rings and gridlock
are the part of their argument that is not about fairness.

## 7. What is not modelled

Payloads, coordinates, wording and logging; the number `notified_contacts`,
which is the size of the set of delivered notifications of the event; the order
of the contacts in the notifier's loop; timestamps of events (`updated_at` is
computed before its UPDATE waits for the row, so the later commit may carry the
earlier time; nothing in the code promises otherwise). Request validation, except as a way to
end in `RequestPool`: elsewhere it precedes the handler and changes nothing. A
registration or login under the late commit: `RegisteredCanLogIn` is checked and
proved for the commit before the response. SQLite, the engine of the tests,
whose driver commits differently around savepoints and whose DDL is not
transactional in the driver's default mode. The delay with which PostgreSQL
notices a dead client: `Crash` and `Kill` roll back at once. The downgrades of
the revisions, which no command of the repository runs. Middleware (CORS, compression,
timing), pages, styles and layout, which keep no state.
