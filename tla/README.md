# Remodelator in TLA+

Remodelator prices remodeling jobs. A FastAPI server (`src/src/remodelator`),
a command line tool over the same service functions, and a React client share
one SQLite file. The server runs each request in a thread of a pool, and more
than one process may be at the file: several API workers, the CLI, scripts.

Nearly all of the program's logic sits in `application/service.py`: functions
that get an ORM session, read rows, decide, write rows and leave the commit to
the caller. They are correct when called one after another, and the test suite
calls them one after another. This project is about what happens when they are
not: between a read and the write that depends on it, between a write and its
commit, between a commit and the answer. The client adds its own versions of
the same question: between an answer and the refetch it causes, between what a
page shows and what a click on it means.

## 1. Inventory

What every component leans on (`infra/db.py`):

* `session_scope` (44-54): a session, one commit at the end, rollback on any
  exception. `autoflush=False`: a query does not see what the handler has only
  assigned. `expire_on_commit=False`.
* SQLite in its default isolation, through pysqlite: reads before the first
  write of a session each see the latest commit and keep no lock; the first
  INSERT, UPDATE or DELETE takes the database's only write lock, which is held
  to the commit. A caller that cannot get it waits for `busy_timeout` and then
  fails with an error that the API answers with 500.
* `foreign_keys=ON` (`_set_sqlite_pragmas`), UNIQUE columns, nothing else:
  no other rule is enforced by the store.
* DDL (`drop_all`, `create_all`, the migrations) commits statement by
  statement.
* `router_utils.handle` turns ValueError into 400 (401 and 404 for some), a
  lock timeout into 409 and everything else into 500 or 503.

| Component | State it keeps | Operations | Interacts with | What is hard | What makes it correct |
|---|---|---|---|---|---|
| Billing ledger and idempotency (`service.record_billing_event`, `simulate_billing_event`, `billing_policy`, `SimulationBillingAdapter`) | `billing_events`, `idempotency_records` | subscription, estimate-charge, refund, simulate-event, status | called by the billing routes, by the Stripe adapter and the webhook | look-up and insert are two statements; the lifecycle check precedes both; three forms of stored key; retries after lost answers | a key books once; answers name committed rows; errors leave nothing; a row and its record together; the event lifecycle |
| Admin and schema maintenance (`rebuild_demo_database`, `prune_audit_events`, `init_db`, `seed_catalog`, `operation_lock`) | every table; two lock files | demo-reset, audit-prune, migrate, seed | runs under ordinary requests | DDL step by step; file locks with a timeout; deaths inside | serialised as documented; whole database after success; no orphan rows; locks given up |
| Estimates and line items (`service.py` 550-1204, `recalc_estimate`) | `estimates`, `estimate_line_items` | add, edit, remove, reorder, group lines; apply template; update, status, unlock, recalc, version, delete | pricing; templates; LLM apply; restore | each session keeps the rows it loaded and writes only changed columns | totals match lines; locked means locked; no lost or orphan lines; numbering |
| Stripe webhook (`routes/billing.py` 227-357) | Stripe ids on `users`, ledger rows | one handler, five event types | Stripe; billing ledger | late, duplicated, reordered, premature events | ids reflect the latest event; each event booked once |
| Stripe adapter (`StripeBillingAdapter`, `stripe_service`) | customer id on `users`; state at Stripe | checkout, usage charge | Stripe; billing ledger | remote call between local reads and the commit | no charge without a row that a retry would find; one customer per user |
| Rate limiter (`infra/rate_limiter.py`, middleware of `app_factory.py`) | a deque of times per key | check | every request | boundaries of the window; rounding of the delay; it forgets what it evicts | never more than the limit per window; refusals justified; the advertised delay suffices |
| Authentication, password reset (`service.py` 347-476) | `users`, `password_reset_tokens` | register, login, request, confirm | signed session tokens | check-then-act on uniqueness and on single use; a login that rewrites an old hash | one registration per address; superseded tokens refused; logins follow the last reset |
| Pricing (`domain/pricing.py`) | none | price of a line | estimates | order of markups, discount cap, rounding | parts add up; never negative |
| Catalog (`service.py` 1314-1399, `CatalogPage.tsx`) | `catalog_nodes`, `catalog_items` | upsert, import, search | quickstart | uniqueness by look-up only; imports of several rows; the form knows less than the row holds | how far names are unique; the last writer decides; all or nothing |
| Templates, backup | `templates`, `template_line_items` | save, apply, export, restore | estimates | copies of rows | restore reproduces what was exported |
| LLM suggestions (`infra/llm/openrouter.py`) | none | suggest with retries | OpenRouter; estimates (apply) | retry loop with an exit per failure | bounded requests; error kind preserved |
| Schema migrations (`db.py` 155-255) | `users` | de-duplicate emails and Stripe ids, add columns and indexes | admin | runs on data of older versions | idempotent; no user lost |
| Proposals, PDF, share links; admin queries; activity; serializers | none of their own | rendering, reports | read estimates | formatting | - |
| Web client: query cache (`lib/queryClient.ts`, the pages' `useQuery` and `useMutation`) | cached answers, running requests | visit, fetch, retry, invalidate, reload | every API route | answers out of order, lost answers, invalidation of a running fetch, pages that are left | valid data contain every acknowledged write; pages catch up |
| Web client: estimate page (`EstimateDetailPage.tsx`, `LineItemEditor.tsx`) | the lines as fetched, selection, editor | move, edit, add, delete, move selected | estimates | indices and snapshots of an older page; hasty clicks; bulk moves that fail halfway | what a user who waits submits, and nothing else, is done; the page ends up right |
| CLI, configuration, scripts, legacy reconciliation, archives | session file | - | call the above | - | - |

`PROJECT.json` lists each with its status, and under `hazards` the places in
this code that are hard to test, each at its line, with the properties that
cover it or the reason why none does yet.

## 2. Plan

In the order of what matters most. All modules named here are written and
model-checked, and every component has its proofs.

| Module | Composes | Abstract specification | Theorems |
|---|---|---|---|
| `BillingPolicy`, `BillingLedger` | policy in ledger | `IdempotentLedger` | `BillingLedgerProofs`: type, all six invariants, refinement |
| `AdminOps` | - | - | `AdminOpsProofs`: type, all four invariants |
| `Estimates` | - | - | `EstimatesProofs`: type, `NoOrphanLines`, `AcknowledgedLines`, the three action properties of an undisturbed call |
| `StripeBilling` | the adapter and the webhook with Stripe as environment; `record_billing_event` as in `BillingLedger` | - | `StripeBillingProofs`: type, all five invariants |
| `EstimatePage` | the page with the line operations of the server, each as one step | what the page submitted should do, as the history variable `expected` | `EstimatePageProofs`: type, both invariants |
| `WebClient` | the query cache with every page's operations | - | `WebClientProofs`: type, `ValidDataAreCurrent` |
| `Accounts` | - | - | `AccessProofs`: type, all three invariants |
| `Catalog` | the API with the web form | - | `CatalogProofs`: type, all three invariants |
| `RateLimiter` | the limiter with the middleware | the log of all admissions | `AccessProofs`, too: type, all three invariants |

Left for later: the amounts of Stripe's events (`StripeRefunds`), the schema
migrations on rows of older versions, and a pricing module, if the decimals can
be made to fit.

## 3. Modules

### Billing: `BillingPolicy`, `BillingLedger`, `IdempotentLedger`

`BillingPolicy` is `billing_policy.py`: the event types and the predecessors
each may have, as a predicate on the last lifecycle event; and
`SubscriptionStatus`, the status that `subscription_state` reports.

`BillingLedger` is one call per member of `Requests`, from the HTTP endpoint
through `SimulationBillingAdapter` to `record_billing_event`. Its program
counter `pc` stands before the next database statement:

| Action | Code |
|---|---|
| `Start` | the request arrives: its user, command and key are fixed, the set of calls already committed is remembered in `seen` |
| `Admit`, `Reject` | `simulate_billing_event`: the last lifecycle event is read, the transition is checked |
| `Replay`, `NoReplay` | `_lookup_idempotent_billing_event` over `_billing_idempotency_candidate_keys` |
| `Stamp`, `InsertEvent` | the event row gets its `created_at` when the object is made, and takes the write lock when it is flushed |
| `BusyTimeout` | the lock did not come: 500 |
| `InsertKey`, `KeyConflict` | the UNIQUE column takes or refuses the record: 500 and rollback |
| `Commit`, `Respond` | `session_scope`'s commit, then the answer: two steps, since a process can die in between |
| `Crash` | the server stops: open transactions vanish, callers in progress learn nothing |

`ledger` and `keys` are the committed tables; what the writer has flushed is
implied by its `pc` and is visible to nobody. `Legacy` are rows of older
program versions with their records in one of the two older key forms, which
`CandidateKeys` still accepts. `seen` and `answer` are what a client could
know; nothing in the program reads `seen`.

`IdempotentLedger` is what a client is promised, without statements, locks or
key forms: `Book` at most once for each user and key, answers that name booked
entries, refusals that book nothing, `Conflict` only for a key that is booked.
`BillingLedger!ImplementsPromise` maps `call`, `ledger`, `answer`, `reply` to
themselves.

### Administration: `AdminOps`

One operation per member of `Procs`: `rebuild` (demo reset, `db reset`),
`prune` (with and without `dry_run`), `migrate` (start-up, `/db/migrate`),
`seed` (`/db/seed`) and `use` (any user request that reads its user and writes
an audit row). `tables` are the tables that exist, `rows` their committed rows,
named by the process that wrote them, `held` the holder of each lock file,
`writer` SQLite's write lock. `DropScan`/`DropTable` and
`CreateScan`/`CreateTable` are SQLAlchemy's `drop_all` and `create_all`: one
look at what exists, then a statement per table. `CannotRun` names, statement
by statement, why one raises; `Fail` is the rollback and the `finally` of
`operation_lock`; `Crash` is a process death at any point.

### Estimates: `Estimates`

One estimate and its lines; one call, in a session of its own, per member of
`Sessions`. `db` is the committed store and `txn` what the writer's
transaction has made of it; `base[s]` is what session `s` has loaded, `mem[s]`
what its handler has assigned. The steps are the points where other calls can
come in:

| Action | Code |
|---|---|
| `Begin`, `Load` | `session.get(Estimate, ...)`, the status check, and for calls on the estimate row alone the assignment |
| `AddLine` ... `CascadeDelete` | the handler's reads of lines and its assignments, one action per handler |
| `LineNotFound` | the line is gone: 400 |
| `Flush` | the `session.flush()` with which `recalc_estimate` starts: takes the write lock if there is anything to write |
| `Price` | `recalc_estimate`'s loop: rows the session already knew keep their remembered values, others are read |
| `Commit` | the flush of the new total and the commit |
| `Fail` | an UPDATE that matches no row, a violated foreign key, or a wait in vain for the lock: rollback, 500 |

`Written` is the unit of work: a column is written if it differs from the value
as loaded, so a total recomputed to its old value is not written at all. Line
ids are fresh in the code; here a line bears the name of the session that
added it.

### Live billing: `StripeBilling`

The calls that `StripeBillingAdapter.execute` serves (`Calls`) and the
deliveries that `billing_webhook` receives (`Hooks`), over the two Stripe ids
in `users`, the ledger, and what exists at Stripe. `users` and `ledger` are
committed; `txn` is what the write lock's holder, `writer`, has made of
`users`. A row in the ledger is named by the call or delivery that wrote it.

| Action | Code |
|---|---|
| `Begin` | `session.get(User)`: the user's customer id is known from here on |
| `FindCustomer`, `CreateCustomer` | `get_or_create_customer`: `Customer.list` by email, then `Customer.create` |
| `LinkCustomer` | the id is taken from another owner, if there is one, and flushed to the user's row: takes the write lock |
| `OpenCheckout`, `Charge`, `Unsupported` | the three branches of `execute` |
| `RemoteFails` | an exception from Stripe, whether or not what was asked for was done: rollback |
| `Deliver`, `Ignore` | the handler looks the user up by customer, then by subscription, and assigns; or answers 200 "ignored" |
| `Lookup`, `Book` | `record_billing_event`: the flush and look-up of the key, then the insert of row and record |
| `Commit`, `Reply` | `session_scope`'s commit, then the answer |
| `Fail`, `Crash` | a busy timeout or a UNIQUE column: 500; the server dies |
| `Pay`, `Invoice`, `Cancel`, `Refund` | what happens at Stripe: each creates one event |

Two things follow from how the code is run. The handler is `async` and does
not wait for anything after it has the body, and the documented deployment has
one worker (`deploy/api/README.md` 21), so deliveries are served one at a time;
calls run in the thread pool and in the CLI beside them. And a delivery is
repeated by Stripe until it is answered 2xx, so `Deliver` may take any event
that exists, any number of times.

`orderly` is a history variable: every delivery so far came after all older
events were answered for, and before its own was. Nothing but properties reads
it.

### The query cache: `WebClient`

One browser tab. Queries of the cache do not affect one another, so a
behaviour follows one query, `key`, chosen at the start, and its data are the
number of writes to it that the server had performed when it read them:
`version` at the server, `cache` in the tab, `fetch.at` on the way. The tables
`Mounts`, `Offers`, `Touches` and `Invalidates` are the pages: which queries a
page keeps mounted, which operations it offers, which queries' answers an
operation changes at the server, which its `onSuccess` invalidates.

| Action | Code |
|---|---|
| `Visit`, `Reload` | a route of `App.tsx`; the window reloads, or comes back from a checkout page |
| `ServeFetch`, `FetchOk`, `FetchFails` | `api/client.ts`, with the one retry of `queryClient.ts` |
| `Age`, `Collect`, `Reconnect` | `staleTime`, `gcTime`, the network is back |
| `Start`, `Perform`, `Fail`, `Succeed`, `Deleted` | a mutation: pressed, performed by the server, refused or lost, answered; a deleted estimate leaves the cache |
| `OtherWriter` | another tab, another user, a webhook |

`owed` and `overtaken` are history: the latest write acknowledged to this tab
that the query should show, and that an earlier read was on its way when the
answer came, in the one case in which `invalidateQueries` leaves it alone
(there are no data yet, or no page shows them).

### The estimate page: `EstimatePage`

`server` is the estimate's lines in order, `view` what the page has of them,
`requests` the operations on the way, `editor` the snapshot that the line
editor works on, `bulk` the requests behind one "Move Selected". A line is its
group and one value, which stands for any of its other fields. The server serves a request in one
step, since `Estimates` has its steps; what matters here is that the page sends
indices and snapshots of the lines as it last saw them.

| Action | Code |
|---|---|
| `Move` | the buttons of a row (1009-1030): the index of the neighbour in the group's list |
| `OpenEditor`, `CloseEditor` | `LineItemEditor`: the form keeps the line as it was and shows it rounded (`Shown`) |
| `Save` | the form is sent as a whole, with any of its fields changed or emptied (`Blank`); `parse...OrUndefined` (72-84) and `\|\| undefined` leave an emptied one out of the request (`OrUndefined`), and `edit_line_item` then keeps what the line has |
| `Add`, `Delete` | the catalog picker and the form; the dialog |
| `MoveSelected`, `BulkAnswer`, `BulkSucceed`, `BulkFail`, `Unheeded` | `Promise.all` over one request for each line (150-164) |
| `Perform` | the handlers of `service.py` on the current lines |
| `Succeed`, `Fail` | `onSuccess`: `invalidate` and, for a saved form, `onClose`; `onError`: a message |
| `ServeFetch`, `FetchOk`, `FetchFails` | the query `['estimate', id]` |

`expected` is what the user's last operation should make of the lines: of a
saved line, what was in the form, and what it had before where a field was
empty (`Filled`). It is kept as long as the operation met a page at rest and
current and nothing has failed since;
`unseen` says that the server changed without any answer telling the page.

### Accounts: `Accounts`

One email address and its user's row, one call for each member of `Calls`. A
call looks its user or token up, a request or confirmation then collects the
tokens that it makes useless, and all of it is written in one transaction
(`Write`): three steps, since reads before the first write take no lock. A
token is named by the call that made it. `before` is the order of calls that
did not overlap, `set` the password last set, `restored` that a login which had
verified an old-form hash wrote that password back.

### The catalog: `Catalog`

A call is an upsert, an upsert from the form of `CatalogPage` (which sends
`category`, a field that the API's models forbid), or an import of two rows.
`LookUp` is the query for one row's name, `Ambiguous` is `scalar_one_or_none`
finding two, `Write` flush and commit. `loaded` is what the session holds of a
row, since an UPDATE leaves out the columns that equal it.

### The rate limiter: `RateLimiter`

`Check` is the whole of `check`: the middleware is a coroutine of one event
loop and does not wait between the look at the clock and the answer, so that
the lock and the order of clock and lock never matter. `buckets` are the
deques; `admitted` and `refused` log every decision and are what the
properties compare the forgetful bucket with. Time is in ticks, `Second` of them
to a second, so that the rounding of the delay shows.

### Model-checking modules

The `MC` modules define the values of the
constants and the symmetries. The calls, processes, sessions, requests and
passwords are interchangeable before their arguments are chosen, so runs without liveness
use their permutations as symmetry; runs with liveness use none.

## 4. Runs

| Run | Instance | What it shows |
|---|---|---|
| `ledger_keys` | three calls, two users, one key or none, one row of an older version, two commands | `ExactlyOnce`; `AcknowledgedIsDurable`; `RefusedLeavesNothing`; `ConflictIsReplayable`; `RowHasItsRecord`; the refinement `ImplementsPromise` |
| `lifecycle` | three calls of one user, four commands, one key or none, crashes, fairness | `SerialCallsAreValid`: a call that overlapped no other cannot put the lifecycle out of order; `EveryCallEnds` |
| `retry_refused` | a call and its retry | *violated* `RetryIsReplayed` |
| `admin_all` | three operations of any kind, an existing or a new file, deaths, fairness | `RebuildsSerialized`; `RebuildIsComplete`; `NoOrphanAudit`; `SeededOnce`; `EveryOperationEnds` |
| `estimate_calls` | three calls of any kind, two at a time, one line at the start | `NoOrphanLines`; `AcknowledgedLines`; `UndisturbedTotalIsRight`; `LockHoldsUndisturbed`; `ReorderRestoresPositions` |
| `estimate_totals` | an add and a markup change | *violated* `TotalsMatch` |
| `stripe_all` | two calls of two users, two deliveries, two events, one customer from before or none, crashes and failed remote calls | `EventBookedOnce`; `AnswerNamesItsCharge`; `OneRowPerCharge`; `InOrderInSync`; `EventsFindTheirUser` |
| `estimate_page` | two lines at the start, two groups, two values of which the form rounds one, one field changed or emptied in an edit, three requests of the page or writes of others | `TypeOK`; `SubmittedTakesEffect`; `ViewCatchesUp` |
| `web_cache` | four queries, three pages, two operations under way, two writes, fairness | `ValidDataAreCurrent`; `AcknowledgedIsShown` |
| `accounts` | four calls of any kind, two passwords, with or without a user at the start | `OneRegistration`; `LoginFollowsReset`; `SupersededIsRefused` |
| `catalog` | three calls, two names, one of them seeded | `NamesAreUnique`; `AmbiguityStays`; `LastWriteStays` |
| `rate_limiter` | one address, limits 1 and 2, a window of three ticks, seven ticks | `WindowBounded`; `RefusedOnlyFull`; `RetryIsEnough` |

### Bounds, and why they are enough

* `Requests` (3), `Keys` (1), `Users` (2), `Legacy` (1): a race for a key needs
  a winner, a loser that looked before the winner committed, and a third that
  retries after the conflict; a second user shows that equal keys of different
  users do not meet; the older row can be in each of the older forms. Keys
  never interact with one another, so a second key adds nothing. The lifecycle
  runs have one user, since the check reads one user's rows only; three events
  reach every status (activate, fail or cancel, and what follows).
* `Procs` (3), `Ops`: any two operations interleave with a third before,
  between or after; each process makes one call, and starting over is another
  process that begins later.
* `Tables` are grouped into three by how foreign keys relate them; `Rank` is
  the order in which they are created.
* `Sessions` (3), `MaxOpen` (2), `Lines0` (1), `Prices` (2), `Markups` (2),
  `Groups` (2): two calls overlap while a third comes before, between or after
  them. With one line at the start and up to two added, an estimate has up to
  three lines, enough for a gap and a tie; two prices and two markups tell a
  fresh total from a stale one. `MaxOpen` bounds the overlap; larger values
  were beyond a few minutes.
* `Calls` (2), `Hooks` (2), `Users` (2), `Existing` (1), `MaxEvents` (2): a
  charge and its retry, or two first calls of one user, or calls of two users
  under one key; an event and its repetition, or two events in either order,
  with a call before, between or after. A customer from before may or may not
  exist and may or may not be linked. Charges in `stripe_all` carry a key: one
  without is never looked up, so it meets nothing. `MaxEvents` is the bound on
  what happens at Stripe.
* `web_cache`: the queries are one that all pages but one show, one that a
  deletion removes, one that an operation changes and does not invalidate, and
  one of another page; an answer and a read that it overtakes need one write,
  a second tells old data from older. `MaxWrites` is the bound.
* `estimate_page`: `Slots` and `MaxRequests` (3), `Given` (2), `MaxLines` (3):
  two moves of one line in haste and a third request, or a bulk move of two
  lines beside an edit; an added line can join. A line of the other group can
  stand between two of one group once it is added or moved. `MaxChanged` (1):
  an edit changes or empties one field or none, and sends the other as the form
  shows it; the fields do not meet, and with two (four million states) nothing
  new was found.
* `accounts`: four calls are a request, the request or reset that supersedes
  it, and two confirmations; or an old login around a reset.
* `catalog`: three calls are two that overlap to make a name ambiguous and one
  that begins later; an import of two rows repeats a name on its own.
* `rate_limiter`: `MaxTime` (6) is two windows, so that a bucket fills, empties
  and fills again; the proofs have no bounds.
* `clock` in `BillingLedger` grows by one per row, so it is bounded by
  `Requests`; `version` in `Estimates` is bounded by `Sessions`.

The number of calls is finite, so every behaviour ends with all of them
answered; `CHECK_DEADLOCK FALSE` says that this is where a run may stop, and
the liveness runs check that it is the only place.

### Fairness

`FairSpec` has weak fairness of each call's `Serve` (billing) and each
process's `Step` (administration), and of nothing else on the server: a thread or a process
that can take its next step is scheduled by the operating system. Weak is
enough, since waiting is not modelled as waiting: a caller that meets a held
lock may either go on later or give up, and giving up is what `busy_timeout`
(`db.py`) and the deadline of `operation_lock` guarantee. No fairness is
assumed of arrivals (`Start`) or of crashes. `WebClient`'s `Spec` has weak
fairness of `ServeFetch` and of `Answers`: the server answers, or the
connection breaks and the browser reports it. Nobody is assumed to press
anything, to stay on a page, or to succeed; a user who reloads or finishes
operations without end keeps starting the request anew, which
`AcknowledgedIsShown` says.

## 5. Proofs

`BillingLedgerProofs`, `AdminOpsProofs`, `EstimatesProofs`,
`StripeBillingProofs`, `AccessProofs` (accounts and rate limiter), `CatalogProofs`,
`WebClientProofs` and `EstimatePageProofs` are checked by TLAPS for every value of the
constants, from the assumptions declared with them: any number of calls, users, keys,
lines and processes.

**Billing** assumes `BillingConstants` (the markers `NoKey` and `NoOne` are no
keys or calls, older rows are no new calls, the commands are known ones) and
nothing about how many there are. `ExactlyOnce` is not inductive: it holds
because of what the writer knows while it holds the lock. The invariant `IInv`
adds

* `Progress`: who can be where, and that the lock belongs to the one call
  between its first insert and its commit;
* `Transaction`: the call about to commit a keyed row has checked, under the
  lock, that no record has its key;
* `RecordsAreTrue`, `RecordsAreUnique`, `EveryKeyedRowHasARecord`: `keys` is
  a faithful index of `ledger`, one record per storage key, so that a second
  row for a key would have to pass a unique index that already has it;
* `LegacyIsRespected`: a row in an older key form is found by the look-up of
  every call of its user and key, so such a call never gets as far as an insert;
* `AnswersAreTrue`: the answers given so far.

`Invariance` proves `Spec => []IInv`; `TypeCorrect`, `BookedOnce`,
`AcknowledgementHolds`, `RefusalIsClean`, `ConflictCanBeRetried` and
`RowAndRecordTogether` follow. `LedgerKeepsPromise` proves the refinement:
initial states map to initial states, `Commit` maps to `Book`, answers to
answers, `Crash` to `Crash`, everything else to a stutter; that `Book` is
allowed, no entry having the key yet, is where the invariant is needed.

`SerialLifecycleIsValid` needs a second invariant, `Lifecycle`: stamps are
distinct and a call's rows are later than what it saw (`Chronology`), a user
with lifecycle rows has a latest one (`LatestExists`), and a gateway call past
its check, if it overlaps no committed call, was admitted after the last event it saw
(`Admitted`). `AllowedIsPermitted` compares the transitions of the code with the
documented table event by event; `SerialIsValid` shows that what such a call saw
is all there was.

**Administration** assumes `AdminConstants`. The invariant `IInv` adds to the
type `Route` (which operation can be at which statement), `LocksExact` (a lock
file is held by exactly the process inside that section, whatever fails or
dies: the second half of `RebuildsSerialized`), `Writing` (the write lock is
held by exactly the process between its first write and its commit, a request
about to commit an audit row still has its user because `DropTable` needs the
write lock) and `Rebuilding` (what the rebuild in its section has established
up to each statement, and that nobody else drops or empties a table: only a
rebuild does, and it is alone). `AdminInvariance` proves it; `AdminTypeCorrect`,
`OneRebuildAtATime`, `ResetIsWhole` and `AuditNamesAUser` follow.
`CatalogIsSeededOnce` strengthens `SeededOnce` by `SeedsEmpty`: while only
rebuilds seed, the one about to do so, or to commit its seed, finds no row.

**Estimates** assumes `EstimateConstants` (finitely many calls and lines, the
commands are known ones, the markers are no call and no row) and, of pricing,
only that it is defined: `Priced` is any function of the markup and the lines'
prices. The invariant `IInv` adds

* `Shape`: what a session holds at each statement; every line it added has its
  own name, and it marks as removed only lines that a client was told of;
* `Transaction`: only a session about to price or commit is the writer, only
  the writer has inserted a line, and what it sees is the store less what it
  removed, with its own line, and without orphans;
* every stored line was there at the start or was acknowledged.

A removed line is not restored because a flush writes only rows that are still
there, and an added one only by the call it is named for. `EstimatesTypeCorrect`,
`NoLineIsOrphaned` and `AcknowledgedLinesStay` follow. That positions are Nat
needs the lines to be finite, which is why the assumption says so.

The three action properties speak of a call that was `alone`, whatever
overlapping calls had left before: the invariant `Calm` says what such a call
knows. `Faithful`: the rows it has read are those it would read again.
`Flushed`: after the flush nothing it did to the lines is left to be written.
`Neutral`: the calls that a locked estimate admits leave lines and markup alone
(recalculation among them, whose lines keep what they have). `Placed`: a reorder's numbers, which are places in a bijection between lines and
`0..n-1`, stay one when a line is taken out and put in elsewhere
(`PositionsFill`, `ShiftedFill`). `CommitsItsMemory` and `CommitsItsLines`
carry this to the commit; `UndisturbedTotalsAreRight`, `LocksHoldUndisturbed` and
`ReordersRestorePositions` follow.

**Stripe billing** assumes `StripeConstants` (the markers are nothing else,
calls and deliveries are different, and no client's key has the form
`stripe_evt:` of the webhook's keys: nothing in the code keeps a client from
choosing one, and a call that did would meet the event's row). The invariant
`IInv` adds to the type

* `Stages`: what an actor has and knows at each statement;
* `Links`: every customer id, stored, in the writer's transaction or remembered
  by a call, is of a customer of that user, and a call creates its own only;
* `Charged`: the charges at Stripe are one for each user and key, and a call
  past its charge has one under its own key, made by itself or by the call
  it repeats;
* `Lock`: an actor between its first write and its commit is the writer, and one
  that is about to commit a row knows, under the lock, that no row has its key;
* `RowsAreUnique` and `Recorded`: one row for each user and key, and a keyed
  call or a delivery that was answered with success has its row.

`StripeTypeCorrect`, `EventsAreBookedOnce`, `ChargesHaveOneRow` and
`AnswersNameTheirCharge` follow. `EventsAreNotIgnored` needs a second one,
`NoLinkIsLost`: the user of a call that has found or made its link has one, in
`users` or, before the call's commit, in `txn`: the one write that clears a link, taking a customer from another
user, never finds one, by `Links`.

`InOrderEventsDecide` needs a third, `Sync`. Its parts: events are numbered and
a subscription belongs to one customer (`EventsNumbered`); a user's subscription is
one that an event of an own customer told of (`SubscriptionsHeld`), so that
deleting another one does not clear it; what a delivery has computed, from which
row, and whether it has written it (`HooksInStep`); only its transaction shows
another subscription than the store (`View`); while deliveries are orderly, the
one being served is later than those that were (`ServedInOrder`), and the last
one served decides (`LastDecides`). A crash between the write and the commit
takes the delivery out of `Serving`; its repetition computes the same from the
row as it was.

**Rate limiter** assumes that limits, window and `Second` are positive. The
bucket has forgotten what it evicted, so that no property about windows follows
from it alone; the invariant ties it to the log of all admissions:

* `BucketIsEndOfLog`: a bucket is the end of its key's log;
* `EvictedIsOld`: what the log has and the bucket has not is no longer within
  the window;
* `DelayOutlastsFirst`: a delay that was advertised, and that nobody has been
  admitted since, lasts until the first request of the bucket is old.

A log is non-decreasing because its times are the clock's, so the entry `limit`
places before a new one is evicted or the bucket would be full: that is
`WindowIsBounded`. `RefusalIsJustified` and `AdvertisedDelaySuffices` follow in
the same way; the latter needs `DelayRoundsUp`, the arithmetic of
`int(...) + 1`.

**Accounts** assumes that `None` is no call, password or user. The three
properties are about which call came before which, so the invariant says what
`before` is worth: what has ended changes nothing any more.

* `Ordered` and `TokensIssued`: a call in `before` has ended, only a call that
  has ended has a token, and no call names a token that was not issued;
* `HasLookedUp`: what the first look-up found is still so at the write, users
  being never removed; with `EmailIsFree` this gives `RegisteredOnce`;
* `Collected`, `TokensSuperseded`, `ConfirmsLive`: a live token of an earlier
  call is among the rows that a request or a reset is about to use up, hence
  dead when it has succeeded, hence refused from calls that begin later;
* `PasswordIsSet`: a login that all resets precede was answered by `set`.

`AccountsTypeCorrect`, `OneUserPerAddress`, `ResetTakesEffect` and
`OldTokensAreRefused` follow.

**Catalog** assumes finitely many calls, rows that are rows, and a seed without
repeated names. What a call found is stale by the time it writes; the invariant
says what it is still worth:

* `Origins`: rows never go and their names never change, so that a row stays the
  seeded one, or the one its call added under the name it had looked up;
* `Targets`, `LoadedRows`: what a call will write to is new or a row of that name;
* `LooksUp`: if a row of the name is seeded, or its call had ended when this one
  began, then it is the one that was found, and there is only one;
* `Fresh` and `Stay`: a row that was loaded, and later one that was written,
  is as the call knows it unless a call on the name has written that was
  not over when this one began.

`CatalogTypeCorrect`, `NoSecondName`, `AmbiguousNamesStay` and `LastWriteWins`
follow, for imports of two rows (`Job`).

**Web client** assumes that the list page is among those visited and that
`NoData` is no number. The theorem is for all sixteen queries and eleven pages,
where the run has four and three, and for any number of operations and
writes. `ExpectedIsInvalidated` computes, from the tables of what pages show,
offer, change and invalidate, that an operation other than a deletion owes
nothing to a query it does not invalidate; `AnswerIsCurrent`, that an answer on
its way has every write that is owed unless it is marked as overtaken, is what
makes `ValidDataAreCurrent` inductive. `WebTypeCorrect` and `CacheIsCurrent`
follow.

**Estimate page** assumes `EstimatePageConstants`: that the form's rounding is
idempotent, that `None` is no id, group or value, nor `Blank` a group or value,
and that the estimate starts with no more lines than are ever made.

`PageCatchesUp` rests on `PageInv`, which says which requests belong to a bulk
move (`RequestOf`) and, in `Catching`: unless an unseen change was made, the page
shows what the server has, or a request that was performed is still to be
answered, or a fetch is asked for, or one is answered with what the server has.
That a success starts a running fetch anew is what keeps it: an answer read
before the operation would otherwise be the last one.

`PageTypeCorrect` rests on `Kept`: no line is twice in an estimate
(`NoRepeats`), so that an id tells its place and an index never exceeds the
lines ever made (`FewLines`), and a request has what its operation is made with
(`Operands`). `WithoutIs`, `MovedIs`, `EditedIs`, `SwappedIs`, `AppendedIs` say what the
operators on lists return.

`SubmittedIsDone` rests on `Promise`. The property speaks of a page at rest;
the invariant says what holds until then, as long as the action is judged:

* `UnderWay`: one request is on its way, and what the server will make of its
  lines, or has made of them, shows the lists that are expected;
* `Regrouping`: a bulk move is on its way, and the lines that still wait are
  the only ones whose group is not as expected, so that its requests can be performed
  and answered in any order;
* `Delivered`: no request is on its way, and the lines shown, or on their way to
  the page, are the server's.

What a user sends does what is expected by an argument for each operation. For a move
it is `MoveSwaps`: taking a line out and putting it in at the index of its
neighbour in the group's list passes over lines of other groups, which changes
no list (`MoveIsExchange` is the arithmetic of places). For a form it is
`SubmittedLine`: a request that leaves out the emptied fields, applied to the
line as it was when the editor opened, makes of it what the form holds. For an
addition it is that the page knows no id yet, and none is taken.

The type invariants of the other modules are proved and not run again.

Only model-checked: `EveryCallEnds`, `EveryOperationEnds` and
`AcknowledgedIsShown`, which are liveness properties under fairness, out of the
prover's reach; and that the two findings' properties are violated, which takes
a run.

## 6. Findings

Two runs are expected to find a violation; each is a statement of the
repository's own documentation that the program does not keep when calls
overlap or are retried.

1. `retry_refused`: the lifecycle check comes before the key's look-up, so the
   retry of a booked `checkout_completed` is refused with 400 instead of
   being replayed. README, "billing idempotency replay via key".
2. `estimate_totals`: a total computed from a stale markup survives.
   ARCHITECTURE, "Totals are deterministic".

Several properties of passing runs carry a condition without which the run
fails; the conditions say where the code and its documents part:

* `SerialCallsAreValid` speaks of calls that overlap no other. Two that do
  both pass the lifecycle check (`service.py` 1966) and both commit.
  TECH_DECISIONS D12, "Prevents invalid subscription states from entering the
  ledger."
* `RebuildsSerialized` speaks of rebuilds. A prune takes a lock file of another
  name (`service.py` 2218) and runs beside one. ARCHITECTURE 122, "to prevent
  reset/prune races".
* `LockHoldsUndisturbed` likewise: a call that read the status before the
  locking committed changes a locked estimate (`service.py` 820).
* `InOrderInSync` needs events served in the order sent. A
  `checkout.session.completed` that comes after `customer.subscription.deleted`
  brings the subscription back (`routes/billing.py` 269). ACTION_PLAN 409.
* `EventsFindTheirUser` speaks of a user with one customer. Two overlapping
  first calls create two, and what is paid on the page of the overwritten one
  is ignored (`stripe_service.py` 60).
* `ValidDataAreCurrent` excepts `overtaken`. A first load of the ledger that
  is under way when a charge is answered is not restarted, and the page then
  shows a ledger without the charge and takes it for current
  (`BillingPage.tsx` 38). docs/FRONTEND_HANDOFF 54.
* `SupersededIsRefused` and `OneRegistration` order calls by `before`: two
  overlapping resets with one token both succeed, and the registration that
  loses the race is answered 500 and not 400.
* `LoginFollowsReset` excepts `restored`: a login that checked an old-form hash
  before a reset and commits after it puts the old password back
  (`service.py` 386).
* `SubmittedTakesEffect` speaks of what the page submits, which is not always
  what the user typed. A group, price or discount that is emptied in the editor
  is left out of the request (`LineItemEditor.tsx` 41-56), the server keeps it
  (`service.py` 891-933), and the page reports "updated" and closes the editor;
  a save of one field also rounds the others to two decimals. Hasty, stale and
  failed operations are left out: a second click sends an old index
  (`EstimateDetailPage.tsx` 1012), an editor writes back what others have
  changed, and a bulk move can be done in part.
* `RebuildIsComplete` speaks of rebuilds that were answered, `SeededOnce` of
  rebuilds alone: one that dies leaves tables missing (`service.py` 294), and
  `POST /db/seed` can insert the catalog twice (`service.py` 310).
* `AnswerNamesItsCharge` and `OneRowPerCharge` do not say that a charge has a
  row: a crash after the charge leaves one without (`billing_adapters.py` 134).
* `LastWriteStays` speaks of calls on a name that do not overlap; two that do
  can leave a mixture of both (`service.py` 1345). An item that the web form
  edits loses its category (`CatalogPage.tsx` 138), as submitted.
* `NamesAreUnique` and `AmbiguityStays` are what is left of a unique name
  (`service.py` 1331): an import that repeats a new name makes it ambiguous,
  and every later upsert of it answers 500.

## 7. What is abstracted, and what is not modelled

* Billing: amounts, currency, details and audit rows are left out, since no
  decision reads them. `created_at` values are distinct (microseconds in the
  code). The digest in a scoped key is one-to-one. The Stripe adapter and
  the webhook, which also call `record_billing_event`, are in `StripeBilling`.
* Administration: `_acquire_non_blocking` is polled every 50 ms; here a
  process waits, and may give up whenever the lock is held. The migrations are
  one step, which needs the write lock and the tables of the catalog and the
  users; audit events they leave alone. Busy timeouts are a
  choice that is open whenever another process is the writer.
* Estimates: a handler's reads after the estimate row are one step, its
  assignments included; between them no decision is made. `total_price`,
  labour, rates, discounts and tax are inside `Priced`, a constant operator.
  Moving a line up or down is a reorder to an index. Applying an LLM
  suggestion is an edit. The audit row is part of the commit. Creating,
  duplicating and versioning an estimate write rows of another estimate; of
  these only the version's write lock and its foreign key matter here.
  Crashes are left out: one that strikes before the commit is a `Fail`.
* Live billing: amounts, currencies and details are left out, and with them the
  cumulative sums of refunds. A customer has one subscription at a time at
  Stripe. The two `checkout.session` events that the handler treats alike are
  one. Row and idempotency record are inserted in one step, since both happen
  under the write lock; `BillingLedger` takes them apart. The search for
  another owner of a customer and the update that takes it away are one step:
  Stripe finds customers by email, so only mocked data has such an owner.
  Stripe's own idempotency keys are its environment's promise, as its
  documentation gives it: one charge per key, and an error if the same key
  comes with another customer.
* Web client: one tab, and one query of its cache at a time; data are a
  version number. An abandoned request and a render change nothing. TanStack
  Query is external: what it does on mounting, invalidating, removing and
  retrying is modelled as version 5.90 does it under `queryClient.ts`. The cache
  survives a logout, its keys naming no user; login is left out. `Touches` is
  about what pages show: `audit_events_count`, for example, changes with every
  operation and is shown nowhere.
* Estimate page: the other forms of the page (details, status) are operations of
  `WebClient`. Lines of one `sort_order`, which a removal followed by an add
  leaves behind, come in the order of insertion, as SQLite returns them. Groups
  are compared as named; the page lists an unnamed group under "General".
* Accounts: hashes are the password they are of and whether their form is
  old; hashing and the signing of session tokens are functions of a library.
  Demo reset, which deletes users, is in `AdminOps`. The token of a request is
  in its answer in development only, and in a mail elsewhere that the program
  does not send yet.
* Catalog: a payload is a name, a price for all the data, and a node. Items are
  never deleted but by a demo reset.
* Rate limiter: the middleware's exempt paths and headers are left out. Times are
  floating-point numbers in the code and ticks here.
* Not modelled: **pricing**, a chain of decimal multiplications with a rounding
  after each and no state, whose interesting values need more digits than the
  32-bit integers of TLC; **templates, backup, LLM suggestions**, which copy
  fields or call out in one thread; **migrations** on rows of older versions;
  rendering, reports and configuration, which hold no state. In the client,
  `QuickstartDialog` and `LlmAssistPanel` are mounted by no page (though
  docs/FRONTEND_HANDOFF 55 and 57 list them), and saving a template and
  importing a catalog have no form.
* `archive/`, `_original_/` and `_notes_/` hold more than half of the
  repository's TypeScript and JavaScript: the superseded client and its
  predecessor's page scripts. Nothing of it is built or run, so there is no
  system there to be faithful to, and it stays outside of this project.
