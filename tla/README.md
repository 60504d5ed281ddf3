# OrderFlow Scale: specifications and proofs

TLA+ modules of the OrderFlow Scale backend (FastAPI, PostgreSQL, Redis), the TLC
configurations that check them on small instances, and TLAPS proofs of what they
promise for every instance. Paths below are relative to the repository.

Run a model with `tlc -workers 2 -config <run>.cfg <module>.tla`, check the proofs of a
module with `tlapm <module>.tla`. `PROJECT.json` lists components, runs, mutants, the
code lines behind each definition, findings, hazards and theorems.

## The system

One FastAPI application runs in several worker processes (four in docker-compose).
Each request is a coroutine; it shares with the others the PostgreSQL tables, Redis (or
the memory of its worker), the connection pool of its worker, and nothing else.

| Component | State it keeps | Operations | What makes it correct | Module |
|---|---|---|---|---|
| Order placement (`services/orders.py`, `POST /orders`) | `products.stock`, `orders`, `order_items` | read rows, check stock, decrement, insert, commit | stock never negative, a unit is sold once, a basket is taken whole or not at all, billed in full at prices of one instant | `Orders`, `OrderBook` |
| Product edits (`services/products.py`, `PATCH /products/{id}`) | rows of `products` | read the row, set the fields named, commit | undoes nothing it does not name | `Orders` |
| Order reading and status (`services/orders.py`) | `orders.status` | list, set status | no order without its lines; a status that is answered was held | `OrderBook` |
| Product creation, registration (`services/products.py`, `services/users.py`) | unique `sku`, unique `email` | look, insert, commit, refresh | one row per name; 201 and 409 tell the truth | `Accounts` |
| Accounts (`services/users.py`, `core/security.py`, `api/deps.py`) | `users`, tokens | register, log in, current user | a token opens one account for ever | `Accounts` |
| Product cache (`core/cache.py`, `api/routes/products.py`) | entries with a TTL, in Redis or in each worker | get, set, `delete_prefix` | the right page, no page older than the last invalidation, none stale for ever | `ProductCache` |
| Rate limiter (`core/ratelimit.py`, `RateLimitMiddleware`) | one bucket of hits per client and path | purge, add, count, expire | no more than the limit in a window; who waits is let through | `RateLimit`, `DequeWindow` |
| Pipeline (`main.py`, `core/middleware.py`, `core/exceptions.py`) | headers of a reply | wrap each request | headers on the replies that are to have them | `Pipeline` |
| Metrics (`core/metrics.py`) | counters of each process | increment | counters agree with the replies | `Pipeline` |
| Sessions and pool (`core/database.py`) | connections | open, commit, roll back, close | no handler waits for ever | `Accounts`, `Pipeline` |
| Seed script (`scripts/seed_demo.py`) | tables | delete, insert | a service that runs meanwhile recovers, and loses no order | `OrderBook`, `Accounts`, `ProductCache` |
| `wait_for_db.py`, migrations, logging, settings, `/health` | | | | see "Not modelled" |

Interaction: a write handler commits and then invalidates the cache
(`routes/orders.py:23`, `routes/products.py:125,137`); a read handler looks in the
cache, reads the table and fills the cache; the limiter runs before both. No lock spans
two of these steps.

What is hard: handlers interleave at every `await`; numbers are computed in Python from
rows that others may have rewritten; row locks are taken one by one; a name is looked up
in one statement and inserted in another; connections are given back and taken again;
Redis is changed one command at a time while SCAN runs; a handler may die, or Redis may
fail, after the commit; clocks are read before the command that uses them, and may be set;
entries and buckets expire or are evicted; rows are deleted under a running service.

## Modules

| Module | Contents |
|---|---|
| `StockLedger` | abstract: what the storefront promises about stock |
| `Orders` | the handlers that write `products`, as database transactions |
| `OrderBook` | orders, lines, prices and statuses, and the seed script against the foreign keys |
| `Directory` | abstract: what registration promises about names |
| `Accounts` | handlers with their sessions and pools: names, tokens, orders and PATCHes; implements `Directory` |
| `Pipeline` | the middleware stack; extends `Accounts` and calls its handlers |
| `ProductCache` | cache backends and the handlers around them |
| `RateLimit` | the sliding window of one client |
| `DequeWindow` | that window as a worker keeps it in memory; implements `RateLimit` |
| `MCOrders`, `MCOrderBook`, `MCPipeline`, `MCProductCache`, `MCRateLimit`, `MCDequeWindow` | values for TLC |
| `OrdersProofs`, `OrderBookProofs`, `PipelineProofs`, `ProductCacheProofs`, `RateLimitProofs`, `DequeWindowProofs` | theorems (`PipelineProofs` also about `Accounts`) |
| `FiniteIntegers`, `Sums` | lemmas the proof modules share: extremes of finite sets, induction, folds |

Definitions named as variants "with a fault" (`CoversOffByOne`, `HitRenews`, ...) are not
used by any specification. Each stands before the definition it would replace and breaks
one of the properties, which shows that the property can be broken.

The modules are split by what may interfere. Stock and cache meet in the table's
version only: `ProductCache` takes any commit for a change of every page. `Orders` has the
numbers of the rows and `OrderBook` what is written beside them; both have the row
locks. `Pipeline` treats the limiter's decision as a choice, which `RateLimit` computes.

### Orders

A handler is one SQLAlchemy session, that is one READ COMMITTED transaction.

| Model | Code |
|---|---|
| `stock`, `price` | committed columns of `products` |
| `sold` | sum of `order_items.quantity` over committed orders |
| `newStock`, `newPrice` | columns the session's flush will write: changed ones only, with the number Python computed |
| `held` | rows this transaction has updated and so locked |
| `PlaceOrder` | `create_order` from the aggregated payload to the decrement: one SELECT, the 404, the 409, the order |
| `PatchProduct` | `update_product` up to its commit |
| `UpdateRow` | one UPDATE of the flush, waiting for the row |
| `Commit`, `Rollback`, `Respond` | `session.commit()`; any end without it; what follows a commit |

SELECT, check and decrement are one step: they touch the database once, with the one
SELECT of `get_products_by_ids`, and nothing between it and the flush depends on the
database. The flush is split into its UPDATEs because each may wait. SQLAlchemy sorts
the UPDATEs of a table by primary key (`NextToLock`) and PostgreSQL makes the later
writer of a row wait and then write its number over the new one, since READ COMMITTED
re-evaluates `WHERE id = ...` only. Both come from libraries and are marked external.
`supplied`, `stale` and `raced` are history: units ever put on the shelf, rows rewritten
behind a handler's back, and rows for which an order committed nevertheless.

Left out: orders' totals, price snapshots and status (`OrderBook` has them); columns other
than stock and price; `POST /products`, which makes a row nobody reads yet.

### OrderBook

Orders are numbered as they are committed; `quotes` is the sequence of all states the price
column ever had, so an instant is an index of it.

| Model | Code |
|---|---|
| `Needed`, `Total` | the dictionary `needed` and the sum `total` of `create_order`, as folds over the payload |
| `PlaceOrder`, `ReadRows`, `InsertOrder`, `LockRow`, `CommitOrder`, `Respond` | `get_current_user`, the one SELECT, `flush()` of the order, the UPDATEs of the second flush, COMMIT, the last SELECT |
| `ListOrders`, `ListLines` | the two SELECTs of `list_orders` |
| `ReadStatus`, `WriteStatus` | `change_order_status`; no UPDATE if the status is the one it read |
| `Reprice`, `CreateProduct` | PATCH of a price, POST of a product, each one commit |
| `SeedBegin`, `DeleteProduct`, `NextDelete`, `DeleteUser`, `CommitDeletes`, `CommitInserts` | `seed_demo.py` row by row; each DELETE has the rows its snapshot sees |
| `Referenced`, `Passes` | foreign keys of the migration: a line keeps its product from being deleted, the orders of a user go with the user |
| `Fail`, `SeedFails` | every end with an error: too little stock, a total NUMERIC(10,2) does not take, a deadlock PostgreSQL breaks, a crash |

A payload is a list of lines of any length: what `OrderCreate` admits (quantities of 1 to 1000)
is `PayloadsAssumption`. `since`, `seen` and `placed` (which keeps deleted orders) are history. `seen` is kept by
`Observe`, a conjunct of `Next` beside every step: what the status column of the order a handler changes holds after the step,
if the order is still there, whoever wrote it.
Left out: stock (see `Orders`), `GET /orders/{id}` (one SELECT with a JOIN), columns nothing is said about.

### Accounts and Directory

Registration and the creation of a product are the same protocol: look the name up, INSERT,
commit, refresh. `LookUp`, `Insert`, `Commit`, `Refresh` are its four statements. The unique
index makes an INSERT wait for another INSERT of the same name that is not committed, and fail once
it is (an exception nobody handles, so a 500). `Login`, `Me`, `Expired` are
`authenticate_user` and `get_current_user`; `PageHit`, `PageMiss`, `CacheCall` the
catalogue's way through cache and table, in as far as it takes a connection.

`POST /orders` and `PATCH /products/{id}` are here with one row each, for what they do to connections, tokens and row
locks: `Identify` (the user, in the transaction that writes the order), `ReadRow` (404, 409), `LockRow` (the flush, which waits for
the row), `CommitWrite`, and `Refresh` again: `refresh()` of the product, or the SELECT of the order, whose absence is
an `AppError` with status 500 (orders.py:66). What several rows and numbers do is in `Orders` and `OrderBook`.

A handler ends with a status (what it returned, or an `AppError` it raised) or `Unhandled`: any other exception.

`connected` holds the handlers whose session has a connection of the worker's pool: from the
first statement to the commit, from the refresh until the session is closed (`Close`). An exception
leaves the session's block at once (`Raises`). `Break` is any failure while a handler runs,
`Die` the end of a worker, `SeedDeletes` the script's effect on the rows of a running service; it waits for rows that
are locked or referred to by a transaction in progress (`InUse`).
A token has the id it was made with; `account`, whom it was given to, is history.

Left out: hashes and signatures (a wrong password and an expired token are
choices), log-in attempts that fail validation; of the other routes, `GET /products/{id}` (which does as a page does),
`GET /orders`, `GET /orders/{id}` and `PATCH /orders/{id}/status`.

`Directory` is what a client may rely on: a name is entered in one step, 201 means
"entered by this request", 409 "it was there", and after a 500 nothing is known. `InDirectory`
maps the rows to their names, and each handler to how far its claim is.

### Pipeline

`Stack` is the list in which `create_app` adds the middlewares, reversed, as Starlette puts each in
front of those before it: limiter, request context, CORS, from the outside in. `Layers` and
`BeyondLimit` follow from it: what passes all of them, and what passes only those outside of the limiter (none).

| Model | Code |
|---|---|
| `Arrive` | a request reaches the limiter |
| `Deny`, `LimiterFails` | its 429; an exception of its store |
| `Handle` | `call_next` down to the handler, a `Begin` of `Accounts` |
| `Leave` | the handler's result, or what `app_error_handler` makes of an `AppError` (be it a 500), passes the layers (`Replied`); any other exception does (`Raised`), and Starlette makes a bare 500 of it |
| `Dress`, `Record` | headers added, and counters incremented, on the way |
| `Send` | the reply is out; the session may still be open |
| `Restart` | a worker dies, with its requests, connections and counters |

`sent` is history: the replies of each worker's life.
Left out: log lines, latency histogram, cache hit ratio, preflight requests, which header values.

### ProductCache

The table is known by the number of its committed writes (`version`), so a cached page
is as old as the version its SELECT saw. `cache[s]` maps keys to entries; `Stores` has one
element for Redis and one per worker for the memory backend (`cache_backend`).

| Model | Code |
|---|---|
| `Key` | `list_key`, `item_key`, including `category or 'all'` |
| `Hit`, `Miss`, `Load`, `NotFound`, `Store` | the awaits of `list_products` and `get_product` in `api/routes/products.py` |
| `Commit`, then `InvalidateMemory`, or `BeginScan`, `DeleteKey`, `FinishScan` | a write handler: commit, `cache.invalidate()` |
| `FailRead`, `FailInvalidate` | Redis or database error, cancelled request, dead worker |
| `Tick`, `Alive` | TTL: `_alive` of the dictionary, `EX` of Redis |
| `Evict`, `Restart`, `Reseed` | allkeys-lru, a worker that stops and starts, `seed_demo.py` |

A SCAN is guaranteed to return the keys that are there from its beginning to its end;
`todo` holds those it still owes, and it may return any other key, so `DeleteKey` may
delete any. `late` is history: a write was committed between an entry's SELECT and its SET.

Left out: page contents and ETags (functions of the page), hit and miss counters, and the
reply. Every commit counts as a write that may concern every page.

### RateLimit and DequeWindow

One bucket; buckets of different clients and paths share nothing. Time is relative
(ages, countdowns). `time.time()` has fractions and Retry-After has not, so a second is `Second` ticks:
windows are whole seconds (`WholeSeconds`), hits come at any tick, and `RetryAfter` rounds up (`RoundedUp` is `math.ceil`). `Check` reads the clock, `Record` is the store's
`record` with the decision of `check` and the branch of `RateLimitMiddleware` it leads to
(`LetThrough`, `Deny`). On Redis the pipeline runs up to `MaxLag` ticks after the clock was
read, all at once (MULTI/EXEC); it may not reach Redis (`Fail`), or run and lose its reply (`LoseReply`); in memory there is no await in between, hence
`LagAssumption`. `Expire` is EXPIRE; `Lose` is an eviction or a restarted worker, and may
happen at any moment.

`DequeWindow` has the deque itself: `Remaining` is the popleft loop, which stops at the first young
reading, `Pushed` the append, whatever the order of the readings. Its clock may be `ahead` of
the true time by up to `slack` ticks and `SetClock` changes by how much, so readings may be
out of order. `slack` is chosen at the start; where it is 0, the deque implements `RateLimit`
(`WindowOf` maps it to the set of its hits).

Left out: the dictionary of all buckets, and the sum over workers of the memory backend.

## Runs

| Run | Module | Properties | Result |
|---|---|---|---|
| `orders_shared` | `MCOrders` | `TypeOK`, `StockNeverNegative`, `LedgerUnlessRaced`, `UnitsNeverVanish` | pass, 2.0 million states |
| `orders_locks` | `MCOrders` | `NoWaitCycle`, `FlushEnds` | pass, 107 thousand |
| `orders_apart` | `MCOrders` | `LedgerSpec` | pass, 90 thousand |
| `orders_oversold` | `MCOrders` | `NeverOversold` | violated |
| `cache_redis` | `MCProductCache` | `TypeOK`, `StaleOnlyIfRaced`, `RightPage`, `StaleFades` | pass, 1.3 million |
| `cache_settles` | `MCProductCache` | `EventuallyCoherent` | pass, 245 thousand |
| `cache_race` | `MCProductCache` | `NoStalePrices` | violated |
| `orderbook` | `MCOrderBook` | `TypeOK`, `BilledTogether`, `BilledInFull`, `ListedWhole`, `AnsweredStatusHeld`, `SeedSparesOrders` | pass, 2.3 million |
| `ratelimit_redis` | `MCRateLimit` | `TypeOK`, `LetThroughBound`, `WaitIsNeeded`, `Forgives` | pass, 150 thousand |
| `ratelimit_memory` | `MCDequeWindow` | `TypeOK`, `BoundDespiteSteps`, `NoneOverstays`, `WindowSpec` | pass, 411 thousand |
| `ratelimit_retry` | `MCRateLimit` | `RetryAfterIsEnough` | violated |
| `pipeline` | `MCPipeline` | `TypeOK`, `WireTypeOK`, `TokensArePersonal`, `WaitsEmptyHanded`, `SomebodyProceeds`, `CountersAgree`, `HeadersUnlessCutShort`, `DirectorySpec`, `RequestsEnd` | pass, 304 thousand |

What they show:

- **Stock.** Orders and PATCHes never write a negative stock, whatever their order, since
  each writes a number computed from a non-negative row. They may well sell a unit twice
  (`orders_oversold`): two orders read the last unit, both pass the check, both write 0.
  `LedgerUnlessRaced` says exactly when the books of a row can go wrong, and
  `UnitsNeverVanish` in which direction. As long as no two handlers are about to write the stock of
  one row at once (`UncontendedSpec`), the code implements `StockLedger`: a basket of several rows leaves the
  shelf whole, or comes back whole if its transaction fails. That COMMIT shows all its rows at once is PostgreSQL's part.
- **Locks.** With three handlers that name three rows in any combination there is no circle of
  waiting handlers, and each flush ends.
- **Orders.** A customer pays prices that were in the table together, even if they change
  while the order is written, and every line of the payload counts. A list shows no order
  without its lines, a status that is answered was in the table after the handler's SELECT (another request may
  overwrite it at once, or the script delete the order), and the script's deletes take no order with a product it deletes.
- **Names.** Looking first and inserting later is as good as one atomic step, thanks to the
  index: nobody is told 201 in vain, nor 409 for a free name. The loser of a race gets a 500, as
  does a client whose row was committed and could not be refreshed.
- **Tokens.** A token whose user is gone opens nothing and orders nothing; ids are never given twice.
- **Pool.** With one connection per worker nobody waits for a connection with one in hand; the pools, the
  unique index and the row locks of orders and PATCHes together never leave everybody waiting; and every
  request (of the routes `Accounts` has) ends even if no pool ever times out.
- **Replies.** Each reply is counted once, under the status the client sees, except the 500 of a
  failing limiter, which nobody counts. The 500 of an order that disappeared has its headers as any other reply
  of a handler; which replies have none: see finding 5.
- **Cache.** A finished invalidation leaves no entry of before its commit, except those
  stored by a fill that straddled a commit (`cache_race` shows one: an old price lives for
  a TTL after the PATCH was acknowledged). Nothing but the fill itself makes
  a stale page live longer (`StaleFades`), so expiry repairs whatever goes wrong. A hit is the
  page that was asked for, with one exception: finding 3.
- **Window.** The limit holds for overlapping requests and late pipelines. Nobody is told to wait in
  vain for a second or more (less than a second is what rounding up costs), but waiting as told is not enough (`ratelimit_retry`): denied hits are
  recorded too, and Retry-After looks at the oldest hit only. A whole window of silence
  is enough, even if the bucket was lost. A clock that is set weakens the limit of the deque
  by no more than the step.

### Bounds

`MaxQuantity`, `MaxStock`, `MaxSold`, `MaxVersion`, `Members`, `MaxLag`, `MaxStep`, `MaxOrders`,
`MaxQuotes` and `MaxRequests` bound the traces and say so where they are declared.

- `Orders`: two units, two rows and two handlers are enough for a race on
  one row beside a harmless step on another, partial flushes and a PATCH of either column;
  one row has an editable stock and one has not, which is the case distinction of the
  invariants. `orders_apart` has both rows in one basket and in both menus. Three handlers on three rows can form waiting circles of length two and three.
- `OrderBook`: two handlers and the script; a basket with a product on two lines, and one with a product that
  has yet to be created; two changes of price, so that a basket could mix three states of
  the column; `MaxTotal` lies between the totals of that basket at different prices.
  One order is enough: no property relates two.
- `ProductCache`: two readers, two writers and two versions let a fill straddle a commit while another
  invalidation runs; a TTL of two ticks lets an entry age without expiring.
- `RateLimit`, `DequeWindow`: ticks of half a second and a window of three seconds (two for the deque), so that hits
  fall between whole seconds and Retry-After is rounded; a limit of two gives a full
  bucket, denied hits in it, and hits purged one by one; steps of the clock are smaller than the
  window and larger than one tick.
- `Pipeline`: the INSERT race needs two requests of different workers when a pool has one
  connection, and two of one worker are needed to wait for it. Two requests in all are also enough
  for a token that outlives its user, since a user and a product are there at the start (`OneOfEach`), and for an order and a
  PATCH of one row.

The theorems do not depend on any of these numbers.

Symmetry is declared only where handlers (and names of hits) are interchangeable and
no liveness is checked.

`CHECK_DEADLOCK FALSE`: clients need not send anything, and a trace that has used up
its bounds may stop.

### Fairness

- `Orders`: weak fairness of `Commit` and `Respond`, strong fairness of `UpdateRow`. A running
  handler goes on by itself; PostgreSQL queues the waiters of a row, so one that is again
  and again the turn of somebody gets its turn. Requests and failures are not fair.
- `Pipeline`: strong fairness of `Progress(r)` for each request, its next regular step. Coroutines go
  on by themselves; a pool and a row lock serve their waiters in turn, so a wait that is
  possible to end again and again ends. Arrivals, refusals of the limiter, failures,
  restarts and the script are not fair.
- `ProductCache`: weak fairness of `Tick` alone. Time passes; no reader, writer, invalidation or
  eviction has to happen.
- The others: none, all their properties are safety properties.

## Theorems

All of them hold for every value of the constants that satisfies the named assumptions.

**Orders.** `BooksInv` is the inductive invariant: types; sessions that do not write are
empty (`Quiet`); stocks, also those about to be written, are non-negative; a session writes
the rows of its basket, or an editable one (`Wishes`); what it is about to write plus its
basket is the committed stock, unless the row is `stale`, and plus what was sold it is never
less than the supply, unless the row is editable (`ReadBefore`). The last part is why a
stronger invariant is needed: whether the books will balance cannot be seen from the
committed rows, only together with what the sessions are about to write.
From it follow `Typed`, `NeverNegative`, `Balanced`, `NothingVanishes`. `LockOrder` proves that
held rows lie below pending ones and rows have one holder; `NoDeadlock` follows: in a circle the
greatest row waited for would be held by a handler that waits for a greater one
(`FiniteIntegers!Greatest`). For the same reason one of those who write always has its next row, or
all of them: `FlushesProceed`, the safe part of `FlushEnds`.

What is true of the code although it oversells is said under hypotheses on the behaviour, each of which
excludes one kind of overlap and nothing else. A row is `Alone` while at most one session is about to write its stock;
then no session's row is stale and none was raced (`Intact`), whatever happens on other rows: `SoldOnce`.
With every row alone (`Uncontended`), `NeverOversoldUncontended` gives what `orders_oversold` refutes
without, and `LedgerUncontended` maps `Commit` to `Buy` or `Restock` of `StockLedger`, every other
step to a stutter (`LedgerStep`). Nothing is assumed of the constants: menus may overlap. `UncontendedSpec` is `Orders` with that
condition in its next-state relation, the specification `orders_apart` checks, and `ImplementsLedger` is about it.

**OrderBook.** Four invariants, each on top of the types. `PriceInv`: the prices a handler has read are
those of one instant since it began, so `PaysOneInstant` survives the commit. `ReadInv`: an
order that is listed shows the lines it was placed with, as long as it is in the table: `ListsWhole`. `SeenInv`: what
a handler that changes a status has read, and what it has written, was observed in the column since; `AnswersHeld` follows, for a
reply without an UPDATE from the SELECT, and for one with it from the row that was still there. `SpareInv` ties the script to
the foreign key and the row locks: the lines of orders in the table name products in the table, no handler holds
a row that is gone or being deleted, and once the first DELETE has passed the foreign key no order
names a row it deleted, hence `ScriptSparesOrders`. `FullInv` adds to `PriceInv` that the total of every order is the
fold of its payload at its own prices (`Totalled`). `PaysInFull` then compares two folds, one over the lines and one over
the products `needed` has added them up to. Both are unfolded in `Sums`: a fold over a finite set is a
recursive function (`Folding`), a sum does not depend on the order its elements are taken in, and the induction over
the length of the payload goes through `Upwards`: a set of numbers that has 0 and successors is `Nat`.

**Accounts.** `AccountsInv`: types, tokens whose subject is their account, handlers at statements
their task has, and ids of orders' users that are their tokens'. `NamesHeld`: a name that is inserted and not
committed is in no row and has one handler. With it `Implements` maps `Commit` (and a connection
lost during COMMIT) to the entry in the `Directory`, the 409 to `Refuse`, the reply to `Confirm`, failures to `Fail`,
`Die` and `Finish` to `Leave`, the script to `Remove`, and all other steps to a stutter. `HandsEmpty` needs in
addition that a handler that begins has no connection left from the one before. `NeverAllWaiting` follows: who
waits for a pool waits for somebody who has a connection, who waits at most for an INSERT or for a row, whose session waits for nothing.
`AtMostOneWins` is proved from `Directory` alone and carried over by `Implements`: as long as nobody deletes rows
(`NamesStay`), of all requests for one name, however they overlap, one at most is told 201.

**Pipeline.** `Composed`: a behaviour of the pipeline is one of `Accounts`, so the theorems above hold behind
the middlewares. `PipeInv` adds to `AccountsInv` the types of the wire, that a request inside asks for
what may be asked and has no headers yet, that a reply has a status, and that a request and its handler belong to
one worker (`Linked`), so that a handler's result stays until its reply is sent. `HeadersHold` and
`CountersHold` follow, the latter by counting the replies under way (`OneMore`, `OneLess`), with
finitely many slots (`SlotsAssumption`).

**ProductCache.** `CacheInvariant`: types, no version beyond the table's, every entry under
its key. `HitsTheRightPage` needs nothing more.
`OnlyRacesLeaveStale` assumes one store and adds `ScanCovers`: while a scan runs, an
entry older than its commit is `late` or still in `todo`. It fails for a store per
worker, as it must: a write invalidates one of them.
`EntryStep` is what the rest goes by: an entry there is after a step was stored by it (`Filled`), or was there
with at least as long to live (`Kept`). `StaleOnlyFades` follows for any number of stores. If no fill straddles a
commit (`FillsAreCurrent`), `NoStalePricesUnlessRaced` gives for one store what `cache_race` refutes
without, and `AgreementLasts` says for any stores that agreement with the table ends only with a write.

**RateLimit.** `WindowInv`: types, names of hits are unique, EXPIRE and the age of the youngest hit
add up to a window (`Kept`). `StartsAfresh` follows. `Bounded` adds
`Remembered`: whatever was let through less than a window (and `MaxLag`) ago, and since the bucket
was last lost, is still in the bucket. The grants map one to one into the hits a check counts, so there are fewer of them
than it counts. `WaitsForAReason`: as long as a patient client has a second or more to wait, more than `Limit` hits are young
enough; rounding up adds less than a second to the time the oldest of them has left.

**DequeWindow.** `DequeInv`: types, names are unique, the reading of a hit differs from its true age by at most
`slack`, hits stand in the order they came, and grants of the last window less `slack` are in the deque.
`StepsShortenTheWindow` and `Prompt` follow from the first reading that stays (`FiniteIntegers!Least`). Where
`slack` is 0 the ages are sorted, so the loop pops what `RateLimit` purges: `Implements`.

Only model-checked: `FlushEnds`, `EventuallyCoherent` and `RequestsEnd`, since liveness under fairness is out of
the prover's reach. What they rest on is proved: somebody can always go on (`FlushesProceed`, `NeverAllWaiting`), and nothing
but a fill brings a stale page back (`StaleOnlyFades`, `AgreementLasts`).

## Findings

1. `services/orders.py:46`: overlapping orders oversell (`orders_oversold`); the tests
   place one order after another.
2. `api/routes/products.py:67`: a fill may store a page older than a finished
   invalidation (`cache_race`), against README.md:32.
3. `core/cache.py:151`: the category 'all' and the unfiltered list share a key
   (`cache_redis`, the exception in `RightPage`).
4. `core/ratelimit.py:43`: Retry-After is not enough once denied hits are in the bucket
   (`ratelimit_retry`): hits at 0 and 0.5 s, denied at 1 s and told to wait 2 s, denied again at 3 s.
5. `main.py:38`: the comment calls the middleware that is added first the outermost; it is the
   innermost. A 429, a limiter's failure and an exception nobody handles leave without
   X-Request-ID and CORS headers (`pipeline`, `HeadersUnlessCutShort`), against README.md:36.

6. `core/cache.py:95`: the comment at cache.py:115 wants no request brought down by the cache, but only
   `ping()` handles errors; a Redis failure turns a page already read and a product already committed into a 500
   (`pipeline`, which takes such failures and shows what a 500 leaves true: `DirectorySpec`).

## What could be added

- `Storefront`: `Orders` and `ProductCache` composed, with a register that readers see at most one
  TTL late as the abstract specification. Today the two meet in the version number only.
- A client that walks the catalogue page by page.
- The catalogue of all buckets and workers of the rate limiter.

## Not modelled

- Password hashing, token encoding, ETags: pure functions of libraries.
- Log formatting, Grafana and Prometheus configuration, latency histogram and cache hit ratio: no step depends on them.
- `wait_for_db.py`, running the migrations, start-up and disposal: sequential I/O before and after the service runs.
- `/health`: a constant. Settings: the models' CONSTANTS.
- Validation of payloads (pydantic), among it the explicit `null` of a PATCH: one request, no state.
- `GET /orders/{id}`: one SELECT with a JOIN that changes nothing.
