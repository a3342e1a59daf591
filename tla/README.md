# A formal model of the Nova inventory service

TLA+ modules, TLC runs and TLAPS proofs about the service in `src/`: a FastAPI
application that keeps stock of menu items, takes orders through a small state
machine, keeps an audit trail of every stock movement in PostgreSQL and a
write-through copy of each item's stock in Redis.

Contents: [inventory](#inventory) · [modules](#modules) ·
[the model and the code](#the-model-and-the-code) · [runs](#runs) ·
[findings](#findings) · [bounds](#bounds) · [fairness](#fairness) ·
[proofs](#proofs) · [not modelled](#not-modelled) · [plan](#plan)

## Inventory

| Component | State it keeps | Operations | What makes it correct |
|---|---|---|---|
| Order state machine, `app/domain/enums.py` | none | `can_transition_to`, `terminal_states`, `stock_holding_states` | the table is the only way an order changes |
| Order service, `app/services/order_service.py`, `app/repositories/order_repo.py` | `orders` (status, version) | place, confirm, ship, deliver, cancel, detail, list | lifecycle followed under races; stock deducted and restored exactly with the status; rejected only when short |
| Item service, `app/services/item_service.py`, `app/repositories/item_repo.py` | `menu_items` (stock_quantity, version) | create, adjust, get, list | stock never negative or lost, names unique |
| Audit trail, `app/repositories/stock_repo.py` | `stock_movements`, append-only | insert, list | every stock is the sum of its movements |
| Stock service, `app/services/stock_service.py` | none of its own | stock of an item (cache first), movements, low-stock list | a read is a read |
| Stock cache, `app/core/cache.py` | Redis `nova:stock:<id>` with a TTL | `get_stock`, `set_stock`, `invalidate_stock` (no caller) | agrees with the database, or is empty |
| Session, `app/db/session.py` | one transaction per request, a pool of 10 + 20 connections | `get_db` | a request's writes happen together or not at all |
| Analytics, `app/services/analytics_service.py` | none | stock, order and movement summaries | the figures agree with each other and with the trail |
| API key middleware, `app/middleware/auth.py` | none | the decision about a request | a write without a valid key reaches no session |
| Startup and shutdown, `app/main.py`, `docker-entrypoint.sh`, `docker-compose.yml` | one process | upgrade, schema check, drain, disposal, restart | serves on the whole schema only; loses nothing it acknowledged when it is shut down; comes back |
| Migrations, `migrations/` | the tables and `alembic_version` | upgrade, downgrade | all or nothing |
| Seed script, `scripts/seed.py` | none | orders driven to given states | its scripts end as announced |
| Rate limiter, schemas, configuration, maintenance scripts | small or none | | |

How they interact. Every HTTP request is an asyncio task with its own session.
The router calls a service, the service calls repositories on that session and
the cache, and `get_db` ends the transaction after the handler: commit when it
returns, commit when it raises `HTTPException`, rollback on anything else. The
routers turn `NotFoundError`, `InvalidTransitionError`, `InsufficientStockError`
and `ConflictError` into `HTTPException`, so all of these commit. Requests share
only the database (READ COMMITTED) and Redis.

What is hard: several requests for one order or one item between whose awaits
anything may run; pessimistic (`SELECT FOR UPDATE` on the item) and optimistic
(`WHERE version =` on the order) locking in one transaction, in this order; a
cache written before the commit; a request that fails or dies between two
steps; stock read from the cache finding its way back to the database; a Redis
command executed after its client gave it up; a process killed in the middle of a
migration, or between its answers and their commits, and restarted. The
hazards are listed, each with its line and the properties that cover it, in
`PROJECT.json`.

## Modules

| Module | What it is |
|---|---|
| `OrderStatus` | the enums: statuses, transition relation, movement types |
| `OrderLifecycle` | abstract specification of the `orders` table: place, then one allowed transition at a time, each adding one to the version |
| `OrderService` | the write paths with their awaits, locks, flushes, transactions and the cache; the main properties |
| `StockAccounting` | properties that relate orders to the movements made for them; no behaviour of its own |
| `Inventory` | abstract specification of stock and orders together: every operation is one step; `LeakySpec` adds the two steps that a committed 409 makes |
| `StockService` | `GET /stock/{id}` beside the writers, with its write-back, and Redis commands executed late |
| `OrderClient` | clients that call one request after the other (seed script, lifecycle tests) over `OrderService`, and when they are answered |
| `Timestamps` | `created_at` of orders and movements beside the tables of `OrderService`, and the clock they are read from |
| `Reports` | `GET /orders/{id}` and `GET /analytics/summary`, statement by statement beside the writers; the lists of orders and of movements, and how they go out of date |
| `ItemCatalog` | `POST /items`: the API key, the unique index, the failed session, the pool; its end is where `OrderService` starts |
| `Server` | the life of the process around `ItemCatalog`: entrypoint and migration, schema check, drain, disposal, kill, restart |
| `MCOrderService`, `MCStockService`, `MCOrderClient`, `MCReports`, `MCItemCatalog` | instances for TLC |
| `OrderServiceProofs` | type correctness; the audit trail is a ledger, and the cache follows it while Redis answers; proved |
| `LifecycleProofs` | `OrderService` implements `OrderLifecycle`, proved |
| `InventoryProofs` | `OrderService` implements `Inventory`, proved |
| `AccountingProofs` | sums over sets; orders and their stock part by a committed 409 only; with rollbacks every unit is accounted for; proved |
| `ClientProofs` | clients only restrict `OrderService`; what they are told and what is committed; proved |
| `ServerProofs` | `ItemCatalog`: unique names, opening movements, the bound of the pool; `Server` implements it; the schema a server serves on; what a shutdown keeps; proved |
| `ReadsProofs` | what a GET can write, and that nothing else breaks the ledger, proved |
| `ReportsProofs` | lists that stand while they are looked at, times in the order of the trail, answers of several statements that agree with each other; proved |

`OrderStatus` is extended by `OrderLifecycle`, `OrderService` and `Inventory`;
`OrderService` by `StockAccounting` (and through it `Timestamps` and `Reports`),
`StockService` and `OrderClient`. `Server` extends `ItemCatalog`. Operators whose comment starts with "mutant" are wrong versions of
the definition below them: each names a plausible mistake that one of the
properties excludes, and no specification uses them.

## The model and the code

`OrderService` has one worker per request in flight. A worker's program counter
names the await it is before:

| pc | next step | code |
|---|---|---|
| `idle` | `PlaceOrder`, `ReadOrder`, `StartAdjust` | `place_order`; `get_by_id` and the checks of confirm, ship, deliver, cancel; start of `adjust_stock` |
| `lock` | `FlushMovement`, `FindTooLittle`, `FlushFails` | `get_by_id_with_lock`, the arithmetic, `create_movement` and `save` |
| `cache` | `SetCache`, `SetCacheFails` | `CacheService.set_stock` |
| `update` | `TransitionStatus`, `TransitionConflicts` | `OrderRepository.transition_status` and the `ConflictError` |
| `done` | `Commit`, `Rollback` | the end of `get_db` |

`Abort` may end a request at any await (process killed, task cancelled, an
unexpected exception); `Expire` is the TTL. State:

* `menu_items`, `orders`, `stock_movements` are the committed rows. A movement
  and an item update that are flushed but not committed are `flushed[w]`, a
  written status is `target[w]`; nobody else sees them until `Commit`.
* `snap[w]` is the order row as the request read it, without a lock. The checks
  and `should_restore` are about this row, the UPDATE about its version.
* `itemLock` is the `FOR UPDATE` lock. An order row is locked by the transaction
  that has a `target` for it. `place_order` takes a KEY SHARE lock on the item
  through the foreign key; it excludes `FOR UPDATE` and is represented by the
  uncommitted insert (`PlacedOn`).
* An UPDATE whose version matches a row locked by another transaction waits for
  it; one whose version is already wrong returns no row at once, as READ
  COMMITTED does.
* `outcome[w]` is the answer. `Commits` says which answers are followed by a
  commit. `OnHttpError = "commit"` is `get_db`; `"rollback"` is the session of
  `tests/integration/test_concurrent_orders.py`, which calls the services
  directly and rolls back on any exception.

Reading the item row under the lock and flushing the movement are one step: the
row is locked, so no other transaction can see or disturb what is between them,
and a request that dies there leaves what one that dies just before the lock
leaves. `get_by_id` after the update only builds the answer. Items are created
before the model starts (`Init` is the state `create_item` leaves, with the
cache primed or the key gone). Order ids and item ids in requests that do not
exist are refused reads, like an illegal transition (`refused`).

`StockService` adds readers with two awaits, the Redis GET and the SELECT, and
the end of their session. The row object belongs to the session, so assigning
the cached quantity makes it dirty when it differs from the value read, and the
commit of `get_db` writes it (`EndRead`) as soon as no writer holds the row. The
Redis client gives a command up after `socket_timeout` (two seconds), `set_stock`
swallows the exception and the request goes on; the command may be with Redis all
the same. `SetCacheTimesOut` keeps its value in `late`, from where `LateWrite` may
take it at any later time, over newer values, or never.

`OrderClient` adds callers. The commit of `get_db` is the code after a `yield`;
with the FastAPI version of `uv.lock` that code runs after the response of a
success has been sent, while an `HTTPException` passes through it first. So a
success is answered (`AnswerSuccess`) before `Finish`, an error by `Finish`. The
ASGI transport of the tests returns when the application has returned and sees
none of this. A client sends its next call after any answer, as
`transition` and `post` of the seed script do. A `Script` is made of the
sections of `seed.py`.

`ItemCatalog` has one request per creation, which stands for the item's uuid. An
INSERT waits while another transaction has the name uncommitted, and fails once
it is committed. A failed flush leaves a SQLAlchemy session on which only
`rollback` works; the router turns the `IntegrityError` into an `HTTPException`,
so `get_db` calls `commit`, which raises, and the client is told 500
(`CommitDuplicate`). This behaviour of the library is modelled from its
documentation; the end-to-end test of the case accepts 500. Any value that no
INTEGER holds fails the flush with another exception (`InsertFails`). Before all
this `ApiKeyMiddleware` answers a write without a valid key with 401 or 403
(`Refuse`); such a request never has a session.

`Server` puts a process around these requests. Its `phase` goes through the lines of
`docker-entrypoint.sh` and of `lifespan`: `upgrading` executes the statements of
revision 0001, tables and indexes, in one transaction (`RunStatement`, `CommitUpgrade`; PostgreSQL's DDL
is transactional), `validating` is `_validate_migrations`, which compares revisions
only, `draining` is uvicorn waiting for its tasks after SIGTERM, `disposed` the state
between `close_engine` and `close_redis`. `RunUvicorn` is the way of `main.py` and of
the README's development instructions, without the upgrade. `Crash` kills the process
in any phase. Its pool is gone with it (`LosePool`), but the transactions of its requests
are not over: their INSERTs stay in the index until PostgreSQL notices
(`ConnectionLost`), and the next process, with a pool of its own, meets them there.
The drain is modelled without a limit of its duration, as the
entrypoint sets no `--timeout-graceful-shutdown`; that a container may be killed
while it drains is `Crash`.

`Timestamps` adds `created_at`. Both columns have a default in Python, which reads the
clock when the row is flushed: `stamp[w]` is that reading, and the commit moves it to
`placed_at` or `moved_at`. The `server_default` of the migration, PostgreSQL's `now()`,
is the start of the transaction and is never used; a mutant (`HasBegun`) shows what
it would do. The clock may tick between any two steps, also between a flush and its commit.

`Reports` adds a reader whose program counter names its next statement. Each
statement sees what is committed when it runs. Prices are constant, so values
are counted in units. `get_order_analytics` and `get_movement_analytics` compute the
bound of their window each for itself (`ReadOrderClock`, `ReadMovementClock`, lines 44 and
94), the stock figures have none. So an order placed in the gap between the two bounds can be
counted while its deduction is not, and `net_stock_change` is what stock has changed by
since the later bound, not all of `total_units`: `DeductionsCoverCounts` and
`DashboardAgrees` state the answer as it is, with this edge. The two lists are one
statement each; what is asked of them is what holds while a client looks at them. A page of
movements is sorted by `created_at` (`Newest`), and not by anything that knows the order of
the commits; that the two agree is `PageIsGapless`. The write-back of a GET is not among
the writers of this module: it changes an item without a movement (`write_back`), and after
one neither a page nor the dashboard agrees with the stock.

## Runs

Passing runs:

| Run | Question | What it shows |
|---|---|---|
| `order_service` | two order requests with `get_db`, cache on, dying at any await | `Ledger` and `LifecycleSpec` hold; the service implements `Inventory!LeakySpec`, so an order is rejected only when stock is short at the commit, and the two lost steps are all that get_db's commit adds; orders and stock part only through a committed 409 (`OnlyConflictsUnbalance`); a commit leaves its stock in the cache, whatever a dead request left there; no deadlock |
| `progress` | does every request end, whoever dies and whether Redis answers or not | item and order row locks are always released and losers answer |
| `harness` | the same services with rollback on every exception | `InventorySpec`: confirm and cancel are atomic; `StockAccountedFor`: stock = received − promised to orders; one deduction, one restoration |
| `stock_reads` | two readers with the cache on, Redis losing and delaying commands | only a GET separates item and trail; what is cached for an item nobody holds, and what a GET writes, was once the committed stock |
| `seed_on_server` | sequential clients, a success answered before its commit | what is acknowledged takes effect; the first refusal of an order is due to the client's own uncommitted call, never to a committed state; every script ends |
| `catalog` | concurrent creations with and without a key, few connections, requests and processes dying, a server migrated, drained and restarted | names unique, item and opening movement together, connections returned; requests are taken on a complete schema only; what was answered with 201 is there unless it was killed; after the last disturbance the server serves again and again |
| `reports` | answers of several statements beside writers, and lists | an order shown as holding stock is shown with its deduction; totals include what the counts counted, and so do deductions but for orders placed before the later bound of the movements; units and net change of the window agree unless stock moved; a PENDING order with movements only if it moved on in between; terminal orders never leave a list; a page of movements sorted by `created_at` has no gap |

`order_service` and `harness` ask about the same actions in two environments;
together they place the cause of the lost balance: it appears with `get_db`'s
commit on `HTTPException` and in no other way. In `order_service` requests that
die leave stale values in the cache, so that its database properties also show
that no write path reads the cache; `stock_reads` and `progress`
have a Redis that loses writes, and `stock_reads` one that executes them late.

`CacheWasTrue` is about the commit of HTTP errors from its other side. A request
writes the cache before it knows whether its order will conflict; that the value is
committed even then is what keeps the cache to stocks the item has had. A `get_db`
that rolled back on a 409, which would mend `double_restore`, would leave the
restoration that never happened in the cache (its mutant, `CommitsSuccess`).

## Findings

Five runs check a statement of the repository that the code does not keep; TLC's
traces are short enough to read as a schedule.

| Run | Statement | What happens |
|---|---|---|
| `double_restore` | README.md:134, "2 concurrent cancels → exactly 1 succeeds, stock restored once" | both flush a restoration; the loser's `ConflictError` becomes a 409 and `get_db` commits it |
| `write_back` | cache.py:56, "DB is always the source of truth" | a GET flushes a stale cached quantity over a confirmed deduction |
| `happy_path` | test_order_lifecycle.py:30, "PENDING → CONFIRMED → SHIPPED → DELIVERED"; seed.py:168 prints "DELIVERED" | against the server the confirm may arrive before the placement commits and be refused |
| `duplicate_name` | extended requirements, line 149, "Duplicate item name → 409 Conflict" | `get_db` commits the session of the failed flush; the answer is 500 |
| `refunds` | analytics_service.py:70, "CANCELLED orders that had stock deducted" | orders cancelled while PENDING are counted too |

The cause of `double_restore` is `session.py:55-57` together with flushing stock
before the optimistic update. It has two other effects, which are the steps
`LostConfirm` and `LostCancel` of `Inventory`: a confirm that loses to another
confirm or a cancel commits its deduction, and a cancel that loses to a ship gives
the shipped order's unit to the next one. The integration test for concurrent
cancels does not use `get_db`, which is why it passes; `harness` is the model of
that test. In the same way the lifecycle tests do not meet `happy_path`, because
their transport returns after the commit.

Three divergences have no run. README.md:396 says that the cache is written "after
the DB commit"; `set_stock` runs before it (`SetCache` comes before `Commit`), so a
reader may be shown a stock that is not committed. And a request that dies between
the two leaves its value in the cache until the next write or the TTL. And
`schemas/analytics.py:70` says of `net_stock_change` "sum of quantity_delta across all
movements": the query has `.where(StockMovement.created_at >= since)`
(analytics_service.py:107), thirty days by default, beside a `total_units` of all time
(`RecentLines`, `NetChange`).

## Bounds

* `Workers`: two. Every race in the code is between a request and one other that
  moves the row in between; the proofs cover any number.
* `Orders`, `Items`: two orders on one item. The item is where requests meet;
  rows of different items share no lock. Quantities 1 and 2 of a stock of 2 cover
  "enough", "exactly enough" and "too little". `progress`, `stock_reads` and `reports` use one order;
  its requests still meet on the order and item rows.
* `IntMax` (1 to 3) stands for the largest INTEGER: adjustments and double
  restorations reach it, so the failing flush happens.
* `AdjustCap`: adjustments start only while the item has fewer movements than
  this; it bounds the audit trail, which nothing else lengthens without end,
  since every order has finitely many versions. 0 switches adjustments off.
* `Deltas`: adjustments are +1 (which reaches `IntMax`), in `harness` also
  −1, which makes adjustments fail as too little. `order_service` has none, to stay
  small beside deaths and the cache, and neither has `stock_reads`; adjustments meet
  `get_db` and dying requests in `progress` and `reports`.
* `GetCap` and `Readers`: two GETs, which may be in flight at once: one may corrupt
  the row, the other meets the corrupted row or corrupts it again. `stock_reads` has
  one order, a stock of 1 and no adjustments, so that the two readers, two
  writers and late commands fit; the proofs have any number.
* `PageLimit` is two movements: a page that is cut off and one that is not.
* `OrderClient`: three workers, since an answered request may still occupy one;
  two clients on one item. `Script` has a shipped order of the seed
  script, a rejection and, for another client, a cancellation of the same item.
* `ItemCatalog`, `Server`: two requests for one name, one that no INTEGER holds and
  one without a key; two connections, so that holders, waiters of the
  index and waiters of the pool occur together. Shutdowns, kills and restarts are
  not bounded. The database is empty at the start or has been migrated before.
* `Reports`: one item with one unit, one order and one reader. The reader writes
  nothing, so two readers are two runs of one; the order's own movements and an adjustment
  are what comes between its statements.
* `ClockCap`, `Days`: a window of one tick and a clock that stops after two, so that rows
  are in the window of the orders and not in that of the movements, in both, or in neither.
  Rows flushed in one tick stand for different microseconds, in the order of their
  flushes (`Newer`). The proofs have a clock and a window of any length.
* Worker symmetry is used in runs without liveness.

Deadlock is checked in every run of `OrderService`, `StockService` and `Reports`:
a worker that is idle can always read an order; and in `catalog`, where the process
can always be stopped or started. The runs of `OrderClient` have
`CHECK_DEADLOCK FALSE`, because scripts come to their end; `ScriptsEnd` says that they
stop nowhere else.

## Fairness

`FairSpec` assumes weak fairness of the steps that wait for nobody (the cache
write, the end of the transaction): an asyncio task that can run is run. It
assumes strong fairness of the two that wait for a row: PostgreSQL queues the
waiters of a row lock, so one that is granted again and again is eventually
granted to each. Starting a request, dying and expiring are not fair. A stream
of `place_order` calls could in principle keep KEY SHARE locks on an item
without a gap; the number of orders is finite here, so this is outside the model.

`OrderClient` makes the same assumptions about its workers, weak fairness of
answering, and strong fairness of sending, since the model's workers are few where
the server starts a task for every request. `FairServerSpec` assumes strong fairness
of the steps of a creation: the pool hands connections to its waiters in order of
arrival, a waiter of the unique index is woken by the end of the transaction
it waits for, and a process that is restarted again and again gets to run. It assumes
weak fairness of `Boot`, the steps of the entrypoint and of a shutdown that has begun
(`restart: unless-stopped` starts the container again whenever it has ended; one that an
operator stopped on purpose is taken to be started again at some time), and of
`ConnectionLost`. Accepting requests, pool timeouts, shutdowns, kills, failing startups
and starts by hand are not fair; `ServesAgain` assumes that the last three stop.

## Proofs

TLAPS checks, for any items, orders, quantities, number of workers and every
setting of the switches:

| Theorem | Statement |
|---|---|
| `OrderServiceProofs!TypeCorrect` | `Spec => []TypeOK`: no stock is ever negative or beyond its column |
| `LifecycleProofs!ImplementsLifecycle` | `Spec => LifecycleSpec`: the service implements `OrderLifecycle` |
| `LifecycleProofs!TerminalIsFinal` | a row in `TerminalStates` never changes again |
| `OrderServiceProofs!LedgerHolds` | `Spec => []Ledger` |
| `OrderServiceProofs!CommitsLeaveCacheRight` | `Spec => CommitLeavesCacheRight`, if `RedisFails = FALSE` |
| `InventoryProofs!KeepsLeakyPromise` | `Spec => LeakyInventorySpec`: order and stock move in one step, but for what a committed 409 adds |
| `InventoryProofs!KeepsPromise` | `Spec => InventorySpec`, if `OnHttpError = "rollback"` |
| `AccountingProofs!ConflictsUnbalance` | `Spec => OnlyConflictsUnbalance` |
| `AccountingProofs!DeductionIsConfirmation` | `Spec => DeductedOnlyOnConfirm`, if `OnHttpError = "rollback"` |
| `AccountingProofs!RestoresOnce` | `Spec => []RestoredAtMostOnce`, under the same |
| `AccountingProofs!AlwaysBalanced` | `Spec => []` every order is `Balanced`, under the same |
| `AccountingProofs!EveryUnitAccounted` | `Spec => []StockAccountedFor`, under the same |
| `ClientProofs!ClientsImplementService` | `ClientSpec => Spec` |
| `ClientProofs!ClientsKeepPromises` | `ClientSpec => []Ledger /\ LifecycleSpec /\ LeakyInventorySpec` |
| `ClientProofs!OneAnswerPerCall` | `ClientSpec => []ClientsOK` |
| `ClientProofs!AcknowledgedStands` | `ClientSpec => []` every `EffectOf`, if `LegalScripts` |
| `ClientProofs!FirstRefusals` | `ClientSpec => FirstRefusalIsOwnShadow`, if `LegalScripts` |
| `ServerProofs!NamesStayUnique` | `CatalogSpec => []UniqueNames` |
| `ServerProofs!ItemsOpenWithMovement` | `CatalogSpec => []OpeningMovement` |
| `ServerProofs!PoolIsBounded` | `CatalogSpec => []CatalogOK`: types, and no more connections than the pool has |
| `ServerProofs!ServerImplementsCatalog` | `ServerSpec => CatalogSpec` |
| `ServerProofs!NamesSurviveRestarts` | `ServerSpec => []UniqueNames` |
| `ServerProofs!OnlyMigratedIsServed` | `ServerSpec => []ServesOnlyMigrated` |
| `ServerProofs!AcknowledgedSurvives` | `ServerSpec => []AcknowledgedIsKept` |
| `ReadsProofs!ReadersTypeCorrect` | `ReadersSpec => []ReadersTypeOK` |
| `ReadsProofs!OnlyGetsBreakLedger` | `ReadersSpec => OnlyReadersBreakLedger` |
| `ReadsProofs!CachedStockWasTrue` | `ReadersSpec => []CacheWasTrue`, if `Aborts = FALSE` and `OnHttpError = "commit"` |
| `ReadsProofs!WrittenBackWasTrue` | `ReadersSpec => WriteBackWasTrue`, under the same two |
| `ReportsProofs!TerminalListsStand` | `ReportsSpec => []TerminalListStands` |
| `ReportsProofs!PagesAreGapless` | `ReportsSpec => PageIsGapless`, for pages of any length |
| `ReportsProofs!DetailsShowDeductions` | `ReportsSpec => []DetailShowsDeduction` |
| `ReportsProofs!TornDetailsAreRaces` | `ReportsSpec => TornOnlyByRace` |
| `ReportsProofs!TotalsCover` | `ReportsSpec => []TotalsCoverCounts` |
| `ReportsProofs!DeductionsCoverTheCounts` | `ReportsSpec => DeductionsCoverCounts`, for a window of any length |
| `ReportsProofs!DashboardsAgree` | `ReportsSpec => DashboardAgrees`, for the same |

Assumptions: `ConstantsAssumption` (types of the parameters, quantities at least
1 as the CHECK constraint has it), `NoWorkerAssumption` and `NoMovementAssumption`
(the two "none" values are none of the others); for clients
`ScriptAssumption` (a script is a sequence of calls); for the catalog and the server
`CatalogAssumption`; for readers `GetAssumption`; for lists `PageAssumption` (a page
has room for a movement); for summaries `WindowAssumption` (a window has a length); for counts and sums
`KeysAssumption` (finitely many items and orders). `CommitsLeaveCacheRight` assumes that Redis answers, since a
SETEX that fails leaves the old value. The two theorems about cached values
assume besides that no request dies, because a dead one leaves its stock in the cache
(see the findings), and that `get_db` commits its HTTP errors, for the reason given
under the runs. Four theorems of `AccountingProofs` and `KeepsPromise` are about sessions
that roll back, as `harness` is; what get_db's sessions do instead is
`ConflictsUnbalance`. Two theorems about clients assume `LegalScripts`: an order is
called for by one client, in an order of calls that the lifecycle allows, as in
`seed.py`; TLC checks it of the scripts it runs (`ScriptsAreLegal`).

*Type correctness* needs `Shape`: what a request looks like at each program
counter (a worker waiting for an item row has an item, a worker about to update
an order has an order operation), otherwise the row it writes is not known to
exist.

*The lifecycle* rests on `VersionInv`. A request decides on an unlocked
snapshot, so the invariant relates the snapshot to the row by the version: the
snapshot is at most as new as the row, and equal to it when as new
(`SnapshotOf`); what was read allows what will be written (`DecisionOf`); what
is written and uncommitted is a lifecycle step from the current row (`WriteOf`),
because a row has one writer (`OneWriter`). A commit makes all other snapshots
old, which keeps the invariant. The refinement mapping is the identity on
`orders`: a commit with a status is a `Place` or `Transition`, all else stutters.

*The ledger* rests on `LedgerInv`. A movement is computed from a stock read
earlier and committed later, so while it is flushed its request holds the item
row and the committed stock is the movement's `stock_before` (`PendingOf`);
`LedgerAppend` says that appending such a movement gives a ledger again. The claims of
the flushed movements hold whether or not the committed trail is a ledger
(`PendingInv`), which is what `ReadsProofs` needs. The cache is written before the
commit; from its SETEX on the request still holds the item, so nobody else writes the
key until the stock it names is committed (`CachedOf`, in `CacheInv`).

*Readers* write an item row, so `Ledger` is no invariant beside them, but `PendingInv`
is: the UPDATE of a GET waits for the row lock (`EndReadPending`), so it moves no
`stock_before` of a flushed movement. From a ledger, then, every step but a write-back
leads to a ledger (`LedgerStep`). Where values come from is `Origins`: whatever is in
the cache, in a late command, or in the hands of a reader has been committed, or is
flushed by a request that holds the row and will commit it (`WillCommit`). Such a value
stays known (`KnownStays`), and on a row nobody holds it is committed
(`FreeRowCommitted`).

*The promise* rests on `InventoryInv`. The order row is read first, the stock written
next, and whether the row is still the one that was read is known last; `TaskOf` relates
the three. `FlushedOf`: what is flushed is what was asked for, on a snapshot that
allowed it. `ProgressOf`: who needs the item has flushed when it comes to write the order,
unless it found too little, and then it holds the item and there still is too little
(so a rejection is right when it commits). `AnswerOf`: the order is written together with
its movement, and a conflict means that the row is newer than the snapshot. A version
says at which statuses a row can be (`Age`: each transition adds one), so after a
conflict the row is past the status that was read, which is what `LostConfirm` and
`LostCancel` say. The refinement mapping forgets versions, movements and requests: a
commit is a step of `Inventory`, all else stutters.

*Accounting.* Sums and counts are those of the community modules. The sum of a function
over a set is defined by taking out chosen elements; `AccountingProofs` shows that any
element may be taken out first, by a smallest set that would contradict it, since finite
subsets are well ordered. A commit then adds one line to a column or moves one order into or
out of a set, and a case analysis of commits (`TransitionKinds`, `MovementKinds` in
`InventoryProofs`) says which: the books of an order stand, confirm, cancel, or lose track
by a 409 (`StepBooks`). `BooksOf` is what get_db leaves of them, `SettledOf` what rollbacks
leave, and `CommitAccounts` weighs the stock against both sums.

*Times.* A movement is stamped while its request holds the item row and is committed
before the row is free again, so the stamp of a flushed movement is no older than any
line of its trail (`StampOf`) and every trail is sorted by time (`DatesOf`, in `TimesInv`;
`ServeDates` has the one step that matters). An order is committed before another request
can read it, so its time is no later than those of its movements (`OrderDatesOf`).

*Lists*: `ListsInv` adds to the invariants of the writers only what the reader has listed. A
row that is terminal is never written (`TerminalRowStands`). A page sorted by time is the
end of the trail, since times and trail have one order (`LinesOfPage`), and a page cut from
the end of a ledger is gapless (`PageOfLedger`).

*Details and summaries* are read in several statements, and the invariants say what a
statement that was read still bounds. Versions of a row only grow and its movements are
only added to (`RowsAge`, `MovesOnlyGrow`), so the deduction of a row that held stock is
still there (`DetailInv`), terminal orders are still in the set that is summed later, and
the orders that held stock still have their deductions (`SummaryInv`, with one conjunct for
each statement read: `StockSeen`, `CountsSeen`, `SumsSeen`). An order that is not older than
the bound of the movements has no deduction that is older (`DeductionsCover`, by
`OrderDatesOf`). That the dashboard agrees is a telescoping sum: the lines in the window are
the end of the trail (`EdgeOfWindow`), and the end of a ledger adds up to the difference of
its last line and the one before the edge (`LedgerTelescopes`, `NetSinceEdge`).

*Clients* choose which request starts next and nothing else, so a step of
`ClientNext` is a step of `Next` or leaves the service alone. The only fact needed
is that answers are sequences: the next call of a script is then one of its calls. `OneAnswerPerCall` needs who waits for whom: a request
that is waited for is under way (`WaitsOf`), so a client never sends on a worker that
another waits for. `FirstRefusals` needs what the database has of the answers
(`EffectInv`): a request nobody waits for has only its commit left (`LeftOver`), the one
that is waited for is the call whose turn it is (`ServesOf`), and after a success the
order has the status achieved or the request that was answered, the order's one writer, is
about to give it (`EffectOf`). A legal next call can then be refused by nothing else.

*The catalog* rests on `CatalogInv`. The index is what keeps names apart before
they are committed, so the invariant has it: requests between their INSERT and
their end have names of their own, which no committed item has (`Reserved`), and
who has ended with an item was told 201 (`Settled`). The bound of the pool is counted
with the cardinality of `connected` (`PoolInv`).

*The server* adds guards to the steps of the catalog and steps of its own that leave
it alone, so it implements it by the identity, and the catalog's theorems hold across
kills and restarts. For the schema the invariant says that the stamp of the revision is
committed with all tables and indexes or with none, which one transaction for the whole script
gives; for acknowledged items, that a request that ended without having been killed and
was told 201 has committed.

Only model-checked: liveness (`EveryRequestEnds`, `AcknowledgedTakesEffect`,
`ScriptsEnd`, `EveryCreateEnds`, `ServesAgain`), which is outside the prover's reach, as
is ENABLED. Every invariant and every action property of a passing run, and each refinement,
is a theorem.

## Not modelled

* The rate limiter. slowapi keeps the counts of `GET /stock/{id}` in the memory of the
  process (`stock.py:18`), in windows of the library; nothing else reads them. The
  limiter that `main.py:27` builds on Redis, which README.md:418 describes, decorates no
  route and so never counts, and `rate_limit_default` is used nowhere.
* `alembic downgrade` and the offline mode, which nothing in the service runs, and two
  processes on one database: compose starts one. A process that is killed and its
  successor do meet, in the transactions it leaves behind.
* That `OrderService` runs inside a process: its requests die one by one
  (`Abort`), which in the database is what a kill of all of them is, one after the
  other. Its requests have a connection each; the pool is in `ItemCatalog`.
* Counters of the analytics statements that say nothing of another statement
  (low stock, values).
* Plain reads that return the rows of one statement (`get_item`, `list_items`, low
  stock), validation and formatting in the schemas, logging, the maintenance scripts:
  they hold no state and race with nothing that they change.
* That the cache heals: the TTL ends any stale value, but a stream of GETs and late
  commands has no bound in time that the code gives.
* A clock that is set back, two processes with clocks of their own, and two movements of
  one item flushed in one microsecond: the order of `created_at` is modelled for the one
  process of compose and a clock that only goes forward. `updated_at` is shown and nothing else,
  and the time filters of `GET /orders` select rows of one statement.

## Plan

In this order, most important first.

1. Done: the modules and the proofs above.
2. Proofs: what get_db's commits leave of `StockAccountedFor` (the units that 409s lose, as
   a sum over the trail); `OrderClient` with clients that die between their calls.
3. `OrderService` inside `Server`, so that a shutdown drains order requests with their
   row locks; a second process, if the service is ever scaled out (its limiter and the
   order of `created_at` would then differ from what is said above).
4. A second item where locks of two items could matter to a reader.
