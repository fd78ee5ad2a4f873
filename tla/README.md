# The Store, in TLA+

TLA+ models of the store's core logic, the TLC runs that check them on small
instances, and TLAPS proofs that hold for every instance. Paths are relative to
the repository root.

The store exists twice: as a modular monolith (`monolith/`) and as three
services (`services/`). Each program is written in six languages that are meant
to behave alike. A module models what the six do; where they differ, a constant
says which one is meant. The map in `PROJECT.json` names, for each definition,
the lines of one of the six that it translates: the Python program, and another
one where that one behaves differently.

Contents: 1 inventory, 2 modules and their correspondence to the code,
3 runs, 4 fairness, 5 proofs, 6 what the code does that the documents do not
say, 7 what is not modelled, 8 plan.


## 1. Inventory

### Payments service (`services/payments/`)

* **State.** An in-memory table from idempotency key to the answer that key got.
  A restart loses it (`server.py:46-57` says so). The money that was taken is
  state of the outside world.
* **Operations.** `Charge`: look the key up and replay its answer; otherwise wait
  for the injected latency (`PAYMENT_LATENCY_MS`), refuse an amount that is not
  positive, decide against the limit, answer, remember. `WatchStatus` is
  unimplemented in all six.
* **Hard.** The lookup and the recording are two critical sections under one
  lock; calls run on a pool of threads (ten in Python and Ruby), or, in
  TypeScript, on an event loop that gives up its turn only to wait. Callers hang up. A
  retry may arrive while the first call is still at work.
* **Correct when** answers are never exchanged or invented, nothing above the
  limit is taken, a key is charged once, answers do not change, and every call
  is answered.

### Orders service (`services/orders/`)

* **State.** PostgreSQL: `orders`, `order_lines` (primary key
  `(order_id, sku)`), `idempotency_keys` (primary key `key`). A handler keeps
  only its local variables.
* **Operations.** `checkout`: validate; look the key up (one transaction) and
  replay its order; price each line at catalog over REST; charge at payments
  over gRPC, under the client's key or else the order id; insert order, lines
  and key in one transaction. `cancel`: read the order, check its status, update
  it. `get_order`: read.
* **Interaction.** Calls catalog and payments, without deadline and without
  retry; its clients retry with the same `Idempotency-Key`.
* **Resources.** Every endpoint, `GET /health` too, is a plain `def` that holds one
  of a limited number of worker threads until it returns; a local transaction holds
  one of ten pooled connections.
* **Hard.** Requests with one key at once; a failure, a lost acknowledgement or a
  crash between the charge and the insert; broken connections; prices that
  change between a try and its retry; a status that is stale when cancel writes;
  a dependency that hangs, with everything that waits for it.
* **Correct when** the two tables agree, no order is unpaid, a 201 is true, a
  problem document left no order, a rejection and a late retry are free, a decline
  is final, what is committed stays, every checkout ends, calls to others hold no
  connection, and what needs nobody else is served while a dependency hangs.

### Monolith (`monolith/`)

* **State.** One SQLite file: `products` with `stock`, `orders`, `order_lines`,
  `payments`; one writer lock.
* **Operations.** `checkout`: in one transaction reserve each item, write the
  order and its lines, charge. `cancel`: read and check the order, then release
  its stock and update it in a transaction. Four implementations (Python, Go,
  C#, Ruby) read before the transaction begins; Java and TypeScript do not.
* **Hard.** Two requests for the last unit; rollback at every point; locks that
  time out; a crash with a transaction open; a restart that resets the database
  (`RESET_DB`); cancel's stale read; in C# and Ruby, one connection shared by all
  threads.
* **Correct when** stock is conserved and never negative, orders are whole and
  paid, answers are true, an order is cancelled once, and the lock always comes
  back.

### Catalog service (`services/catalog/`)

* **State.** The `products` table, which the service only reads. What a client
  knows of its walk is in the client: the cursor and the products it has seen.
* **Operations.** The listing: up to `limit` products beyond the cursor, in the
  order of their skus, and the next cursor if there are more. `get_product`: the
  answer that prices a line of an order. The monolith's listing is the same code.
* **Hard.** Products come and go between two pages.
* **Correct when** no product comes twice, none that is there all along is missed,
  pages are no longer than asked for, and the walk ends.

### The rest

* **Contracts** (`contracts/`): the documents the properties quote.
* **Conformance suites and smoke tool** (`conformance/`, `tools/`): black-box
  tests over HTTP. The client that walks the listing is part of `Catalog`, the
  outages that `resilience.py` brings about are part of `Capacity`.
* Exercises, slides, diagrams: no running code.


## 2. Modules

| Module | What it is |
|---|---|
| `Payments` | the payments service: callers, workers, table, restart |
| `Orders` | the orders service over its database; instantiates `Payments` and adds catalog's answers, crashes and failures |
| `OrderBook` | what the orders service promises, without handlers or failures; `Orders` implements it |
| `Monolith` | the monolith: handlers, one lock, the committed database and the open transaction |
| `Shop` | what the monolith promises: whole sales and whole returns; `Monolith` implements it |
| `Catalog` | the listing and a client that walks it while the shelf changes |
| `Capacity` | what orders runs on: worker threads, pooled connections, and dependencies that hang, stop and recover |
| `PaymentsProofs`, `OrdersProofs`, `MonolithProofs`, `CatalogProofs`, `CapacityProofs` | theorems about each |
| `OrdersMoneyProofs` | theorems about totals and amounts in `Orders`; extends `OrdersProofs` |
| `OrdersPaymentsProofs` | theorems about `Orders` and `Payments` together; extends `OrdersProofs` |
| `MCPayments`, `MCOrders`, `MCMonolith`, `MCCatalog`, `MCCapacity` | the small sets TLC uses |

### Payments

| Here | In the code |
|---|---|
| `call`, `reply` | `ChargeRequest` (key, amount), `ChargeResponse` (status, payment id) |
| `st[c]` | where the server stands with call `c`: sent, working (looked up, not decided), decided (not yet recorded), answered |
| `charges` | the table: `_charges`, `charges`, `Charges` |
| `ledger` | history: the calls that took money |
| `Replay`, `Begin` | the first critical section (`server.py:64-70`) |
| `Decide`, `Record` | building the response and the second critical section (`server.py:92-118`) |
| `Settle` | `settle` of `server.ts:96-141`, decision and record in one turn |
| `Abandon` | the wait for the latency notices that the caller has gone |
| `Restart` | the table is empty again, calls in flight are gone |

A payment id is the name of the call that made it. With `EventLoop` and without
`Latency` the whole handler is one step (`OneTurn`); with latency it is two, with
other calls in between. For threads `Workers` bounds the calls between lookup
and record: ten in Python and Ruby; Go, Java and C# serve as many at once as
arrive, so there `Workers` is at least the number of calls in flight.

### Orders

A checkout is an element of `Requests`, which also names the order it would
create (a fresh `uuid4`) and its RPC. A retry is another request with the same
key. `pc` is the handler's place in `checkout`, `draft` its priced lines and
total, `orders` and `idem` the committed tables; each transaction is one step,
since PostgreSQL makes it one and the constraints that may refuse it are guards
(`Conflict`). `Lookup`, `Replay`, `PriceLine`, `StartCharge`, `ChargeAnswered`,
`Persist` are the lines of `checkout` in order; `LookupFails`, `ReplayFails`,
`ProductMissing`, `CatalogFails`, `ChargeLost`, `PersistFails`, `CommitUnacknowledged`
are the ways out. `CancelRead` and `CancelWrite` are `cancel`, `CancelReadFails` and
`CancelFails` its ways out. `Faults` chooses what may go
wrong: catalog, connection to payments, database, a lost commit acknowledgement,
a crash of orders, a restart of payments, and re-pricing.
`ErrorMeansNoRow` is Go's reading of the database, which takes every error for "no
row": a failed lookup of a key for an unseen key (`repository.go:43-53`), and a failed
read of an order for an order that does not exist (`repository.go:110-130`, a 404).
Elsewhere both are a 500 (`ReadError`). `Allowed` is what the instance's clients observe of the contract:
waiting for the last try to end (`Patient`), and sending the same body again
(`SameBasket`).

`OrderBook` is the abstract specification: a payment is taken under a key; an
order is placed together with its key in one step and only for a payment under
that key; a placed order is cancelled at most once. The refinement maps the
`orders` status column, `idem`, and the keys of `ledger`.

### Monolith

`db` is what is committed, `work` what the open transaction sees, `holder` the
handler whose transaction is open. `Begin`, `Commit`, `Fail` are
`db.transaction`; `Reserve`, `WriteOrder`, `Charge` and their failures are
`checkout`; `ReadOrder`, `Release` are `cancel`. `ReadInTx` says whether cancel
reads inside its transaction. `Busy` is a lock that does not come within
`busy_timeout`, or a commit that readers keep from happening. `Crash` loses the
open transaction and, with `ResetDb`, the database.

### Catalog

`products` is the table. `Ask` is the client's request, with the cursor it was given
and any limit; `Refuse` the validation of the limit; `Serve` the one `SELECT` and
the page made of its rows; `Take` the client that adds the page to what it has;
`Insert` and `Withdraw` whoever else writes the table. Rows come as sets: of
`ORDER BY sku LIMIT n` matters which rows it returns (`IsFirst`), and that the last
of the page is the next cursor. Skus are numbers, because they are only compared.
`there` is history: the products on the shelf without a break since the walk began.

### Capacity

The same handlers as in `Orders`, seen from what they hold. `pc` is the place of a
request: queued for a thread (`GetThread`), in one of the local transactions
(`Acquire`, `PoolTimesOut`, `Transact`), or in a call to catalog or payments
(`CallReturns`, `CallFails`). Every step ends in any way its code can, so what the
requests are about needs no data here; that is the business of `Orders`. `Hang`, `Stop`
and `Recover` are what `resilience.py` does to payments with `pause`, `stop` and
`up`. A hung service ends no call: the code has no deadline. `channel` is the gRPC
channel to payments, built once for the life of the process: it fails when payments
stops, calls fail as long as it does (`NoLink`), and it is ready again some time after
payments is (`Reconnect`, the library's part). Clients ask again when they have been
answered, as often as they like. The pricing of all
lines is one call. It is the Python service; where the other languages serve a
request on a thread or an event loop without such a limit, `Threads` is at least the
number of requests.

### Definitions marked "Mutant"

Next to some definitions stands a variant marked `\* Mutant:`, with one mistake
of the kind a change to the code could make: a dropped guard, a swapped value, a
missing reset. No specification uses it. Put in the place of the definition
after it, it makes TLC report the property that guards against it, which shows that
the property can fail.


## 3. Runs

Every run checks for deadlock: the only states without another step are those where
all requests are over, where `Idle` stutters (a shelf always changes, and the clients of
`Capacity` always come back). Symmetry is used
in `PaymentsEventLoop`, in `MonolithTwoCancels` and in the runs of `Orders` without a
liveness property, whose sets are interchangeable model values.

| Run | Instance | Shows |
|---|---|---|
| `PaymentsThreads` | 3 calls, 2 keys, 2 threads, latency, hang-ups; amounts 3 and 9 with limit 5 | answers are real and never those of the other key; a key is charged at most once per worker; every call is dealt with, so no abandoned one keeps a worker |
| `PaymentsEventLoop` | 3 calls, 2 keys on an event loop with latency, restarts and hang-ups; amounts 0, 3, 9 with limit 5 | answers stay real across turns given up and tables lost; nothing above the limit or free is taken |
| `OrdersFaults` | 3 checkouts, 1 key or none, 2 baskets (two lines that the card covers, one line that it does not), threaded payments with 2 workers and latency, every fault but re-pricing | the tables agree, an order's total is the sum of its lines and its payment is of that amount, 201s are true, a failure leaves no order unless the request's own commit went unacknowledged, rejections and late retries are free, the order book is implemented |
| `OrdersCancels` | 2 checkouts, 2 cancels, event-loop payments, keys used again for other baskets, re-pricing, broken connections, database failures, crashes | a cancel after an acknowledged one is refused or fails to read, nothing else of an order changes; no try of a declined key is confirmed; the table of payments knows every payment, a key is charged once and its answer never changes |
| `OrdersLiveness` | 2 checkouts, 2 skus that may be free or missing; baskets of two lines, a sku twice, nothing, a quantity of 0; 1 worker, latency, connections that may break, database failures, crashes, restarts of payments | every checkout that arrives ends or dies with its process |
| `MonolithAtomic` | 2 checkouts, 2 cancels that read in their transaction, 7 baskets, lock timeouts, crashes | stock is conserved and never negative, orders are whole and paid, answers are true, one cancel per order, the shop is implemented, every request ends |
| `CatalogWalk` | 1 client, 5 skus of which 3 are on the shelf at first, limits 0 to 3 of which 1 and 2 are served | no page is too long, nothing comes twice, nothing that stays is missed, the walk ends |
| `CapacityOutages` | 2 checkouts, a cancel or read and a health probe; each asks again and again; 2 threads, 1 connection, 2 outages | calls hold no connection, the pool refills, what needs no other service is served while a thread is left, and once both dependencies are back every request ends and none is told any more that one of them is unavailable |
| `PaymentsRace`, `OrdersSameKey`, `OrdersGoLookup`, `MonolithTwoCancels` | the smallest instances | violations, section 6 |

**Why the bounds are enough.** The mistakes these programs can make need two
requests of one key, or for one shelf, and a third to meet what the two left
behind: so two requests where cancels or odd baskets multiply the states, three
elsewhere. One key shared by all requests is the hard case, requests without a key
are there too, and two keys appear in both runs of `Payments` to catch answers that
cross. Amounts and baskets hold one representative of each verdict: refused, approved, declined; valid,
invalid, repeated sku, missing product, free product. The shelf holds three of one
product and one of another, so that two checkouts can empty it. Two workers make
the pool both a limit and a race.

In `CatalogWalk` one client is enough: clients share the table and do not write it, so
another one would only repeat the walk. Five skus give pages before, at and after
whatever is inserted, with a page of two full and one row over. In `CapacityOutages`
there are as many checkouts as threads, so that they can all hang, and fewer
connections than threads, so that the pool is what they fight for. `MaxOutages` is
two: both dependencies away at once, or one that is away, back, and away again.

Nothing is cut off inside a run: requests (in `Capacity` those under way at once) are
finite in number and every counter is bounded by them, but for `outages`, whose bound is
`MaxOutages`.


## 4. Fairness

* `Payments`: weak fairness of `Serve(c)` for every call. gRPC servers run every
  call they have accepted and serve their queue in turn. Callers owe nothing.
* `Orders`: weak fairness of what a handler that has started does next once catalog,
  payments and the database have answered it (`Proceed`), of payments' work, and of the
  update of a cancel. Threads and event loops run what is ready. Nothing that fails is
  owed to anybody: a catalog or database failure, a lost commit, a crash and a broken
  connection may happen at any time and need not, and a client need not send anything.
  With one exception: a handler that waits for a payments process that has died is told
  so by the transport (`ToldOfDeath`), as the kernel or the restarted container resets
  the connection. Otherwise a waiting checkout ends only because payments, which lives,
  gets to its call; one that hangs is the business of `Capacity`.
* `Monolith`: weak fairness of every handler, but not of its lock timeouts: nobody is
  owed one, and every request ends all the same. That is enough for the lock, for
  which strong fairness might be expected: every handler that takes it gives it
  back, and finitely many handlers take it once each.
* `Catalog`: weak fairness of the service's answer, and of a client that goes on with
  a walk it has begun, as the loop of `smoke.py` does. Nobody need insert or withdraw
  anything, and a walk ends even if somebody always does.
* `Capacity`: weak fairness of every request that can move: threads run and the
  database answers. Strong fairness of `GetThread`: requests stand in a queue for a
  thread, so one that finds the threads taken now and then, by clients that keep coming,
  gets one all the same. Weak fairness of `Reconnect`: the channel "reconnects on its own
  after a failure" (`payments_client.py:49-53`), which is the gRPC library's promise and
  not this code's. There is none for `Recover`: nothing makes a hung service come
  back, so `RecoversByItself` is about behaviours in which both come back for good, and
  `ServedWhileThreadsLast` about those in which the stuck calls leave a thread.
  What `RecoversByItself` then checks is that nothing in orders itself remembers the
  outage. That a checkout after it is a 201 is not claimed: the card or the database may
  still refuse it, which is the business of `Orders`.


## 5. Proofs

All for arbitrary sets of requests, keys, baskets and prices, any pool size and
any choice of faults, stock, shelves and limits; assumed are only the named `ASSUME`s of
the modules (sets are disjoint, switches are Booleans, amounts are integers, the shelf is
finite at first), and what a theorem states besides.

**Payments.** `PInv` is inductive. That approvals are real
(`ApprovalsAreReal`) is not inductive alone: a decided call may still put any
answer into the table, so one has to know that its answer is the fresh one, and
that money is taken in the step that decides (`StagesAreSound`). The proof has
one lemma per action (`ReplayInv`, `DecideInv`, `RecordInv`, ...). Theorems
`PTypeCorrect`, `ApprovalsReal`, `LedgerWithinLimit`, `StagesSound` follow.
`OneChargePerKey` proves the claim of `server.ts:43-45` under the conditions it
needs: event loop, no latency, no restart. Its invariant is `TableKnowsPayments`:
nothing is between lookup and record, and the table holds every payment; from it
follow `TableKnows` and, step by step, `AnswersStable`.
`ChargesBounded` is the bound for threads: no more payments per key than workers, as long
as the process lives. As long as the table does not know a key, every call that may have
charged it still sits on a worker, so there are no more of them than workers; once
the table knows the key, no other call joins them (`WorkersHoldChargers`, with the
cardinality theorems).

**Orders.** `Inv` joins the types, `P!PInv` (the lemmas of `PaymentsProofs`,
instantiated), `HandlersAreSound` and the four invariants of the tables and
answers. That an order is paid needs what `persist` knows of the approval it
holds, hence `HandlersAreSound`; that needs what payments guarantees of approvals,
hence `P!PInv`; that a rejection stays free needs that a rejected handler has no
RPC left which could still charge. Theorems: `TypeCorrect`, `KeyRowsMatch`,
`OrdersPaid`, `ConfirmationsTrue`, `RejectionsFree`, and `HandlersSound`: the approval a
handler holds when it persists is of a payment that was taken under its own key. Of
the amount it says nothing, since a retry may come with another basket or price.
`FailuresLeaveNothing`, `CommittedStays` and `LaterCancelsRefused` are action properties,
proved table step by table step. The first excuses one request only, the one whose own
`CommitUnacknowledged` it is; a constraint or a database that fails is not excused. The
third rests on the invariant that an acknowledged cancel has marked its order
(`CancelsAreMarked`): a later cancel never cancels again, it is refused, or its own read
fails.
`ImplementsBook` maps every step to one step of the order book or none: only
`Persist` and `CommitUnacknowledged` place, `CancelWrite` and a lost
acknowledgement of it cancel, and `Decide` and `Settle` pay.
`LateRetriesFree` holds where a failed lookup is an error (not for Go), or the database
does not fail. `PaymentsBoughtOnce` is what the primary key of `idempotency_keys` buys: no
payment stands behind two orders, under every fault.
`LateRetriesGetTheOriginal` says what such a retry is told: the original order, unless its
basket is invalid or its own lookup or read fails.
`PatientTriesFindKeysFree` is the other side of the violation `OrdersSameKey`: if clients
wait for one try to end before they send the next, whoever charges or persists finds its
key without an order (`KeysAreFree`), so that the second try never runs into the primary
key. Its invariant says that one handler at most is under way with a key.

**Money (`OrdersMoneyProofs`).** `OrdersAreWhatWasAsked`: the lines of a committed order are
those of a basket that was sent, and its total is the sum of its lines, under every fault.
The invariant `Carried` follows the basket through the draft, the call and the order.
`PaymentsOfTotals` adds that the payment behind it is of that total, even one taken for
an earlier try: where prices stand still and a key keeps its basket, two tries of one
key come to the same sum. Sums are a recursive function. Induction over data cannot be
applied here (its theorem takes an operator), so what an induction would show is shown
from a least counterexample: a set of naturals that is not empty has a least member
(`LeastNumber`, from the well-foundedness of finite subsets), and there the defining
equation, or the agreement of two sums, cannot fail first.

**Orders with payments (`OrdersPaymentsProofs`).** `OrdersIsACaller`: whatever orders, its
clients and its faults do, payments sees nothing but steps of its own module, or connections
that all break at once when orders dies (`Disconnect`); without crashes that is
`ImplementsPayments`, the refinement of `Payments` by `Orders`. What is proved of
payments by itself carries over, crashes included: `AnswersStay` for an event-loop payments
without latency; `KeyChargedOnce` and `PaymentsAreKnown` if it is not restarted either;
`KeyChargedWithinWorkers` for threads that are not restarted; each of them however orders,
its database and its connections fail. `DeclinesStay` needs both sides: whoever has a verdict
of payments has what the table holds for its key (`VerdictsAreRemembered`), a declined
checkout has heard a decline and an order an approval (`VerdictsAreHeard`), and the table
cannot hold both.

**Monolith.** `MInv` adds to four invariants of the runs what is true inside an open
transaction: it undoes nothing that is committed (`WorkExtends`), a checkout has no
committed order before its commit and one after it (`CheckoutsAreSound`), and a
cancel that is about to answer has cancelled its order (`CancelsAreSound`). From it come
`MTypeCorrect` (no stock below zero), `WritersAlone`, `OrdersWhole`, `AnswersTrue`, also for
a cancel that reads before its transaction and for a boot that resets the database,
which no passing run has.
`TxInvariant` says that before the commit the open transaction is the committed database
plus exactly the effect of one order so far (`TxIsAShop`), and that whoever finds an order
cancelled finds it so because a cancel of that order has committed
(`CancelsAreTraced`). From it:

* `ImplementsShop`: every step is a whole sale, a whole return or nothing. That fails if
  cancel reads before its transaction, so it assumes `ReadInTx`, as Java and TypeScript
  have it, and `~ResetDb`. `OneCancel` likewise: a cancel commits on an order that is still
  confirmed, and whoever was accepted before has left it cancelled.
* The stock. The units that confirmed orders hold of a product are counted as a set of pairs
  (`SoldUnits`), which is finite at every step although the set of requests need not be;
  a sale adds a block of pairs, a return takes one out (`SaleCounts`, `ReturnCounts`,
  `AddUnits`, with the cardinality theorems). `StockConserved`: with `ReadInTx`, what is on the
  shelf and what is sold is what there was, at any crash and even over a reset.
* For the other four languages, whose cancel reads first: `LoneCancelsConserve`, the
  same as long as no order has been sent two cancels, so that the stale read which
  `MonolithTwoCancels` shows is the only way to lose count; and `StockNeverLost`,
  however many cancels there are: units can be made up, but none is ever lost.

**Catalog.** `CInv` joins the invariants of `CatalogWalk`, `CursorsSplitTheShelf`, and that
the shelf is finite. That a walk
misses nothing needs what the page being sent holds (`CursorsSplitTheShelf`), since
the shelf changes between the `SELECT` and the arrival of the page.

**Capacity.** `KInv` is the types and limits with `CallsHoldNoConnection`, and that the
sets counted are finite. The limits need the cardinality theorems: a request that
enters a set finds it below its limit.

`StagesAreSound`, `HandlersAreSound` and `CursorsSplitTheShelf` strengthen the properties of
their modules until they are inductive; being proved, they are in no run.

**Only model-checked:** all liveness (`CallsAreAnswered`, `CheckoutsEnd`,
`HandlersEnd`, `WalksEnd`, `PoolRefills`,
`ServedWhileThreadsLast`, `RecoversByItself`), which is out of the prover's reach. Every
invariant and every action property of a passing run has a theorem; one that needs
conditions states them.


## 6. Where code and documents differ

Shown by runs that expect a violation:

* `PaymentsRace`: two concurrent calls of one key both miss the table and both
  take money. `server.py:61-63` promises that a repeat charges nothing, and
  `server.py:54-55` names concurrent retries as what the lock is for.
* `OrdersSameKey`: two concurrent tries of a key pass the lookup together; the
  second is answered 500 although `orders.v1.yaml:84` promises the original order.
* `OrdersGoLookup`: `repository.go:49-51` takes any database error for an unseen
  key; a late retry can be charged again.
* `MonolithTwoCancels`: two concurrent cancels both put the stock back.

Seen while modelling, with no run of their own:

* With `PAYMENT_LATENCY_MS` above zero the TypeScript server gives up its turn
  between get and set, contrary to `server.ts:43-45`, and behaves as the threaded
  ones do.
* A 503 after a broken connection says "No charge was made"
  (`payments_client.py:168`); payments may have taken the money before the
  connection broke.
* A client that retries after that 503 can overtake the record of its first
  try, and threaded servers charge it again.
* Two concurrent cancels in the orders service are both answered 200.
* A database that fails while an order is read makes Go answer 404 for an order that
  exists, on `GET`, on a cancel and on a replay (`repository.go:127-130`); the other five
  answer 500.
* A retry after a price change, or with another basket, is answered with the payment of
  the old amount, and the order stores a total that was not paid.
* A basket that names a sku twice is charged before the primary key of
  `order_lines` refuses it; a basket of free products is refused by payments and ends
  as a 500.
* `GET /health` of the Python service is a plain `def` and needs a worker thread like
  every other request. Once as many checkouts hang as there are threads, it waits
  with them, although `payments_client.py:30` says that it keeps answering 200 and
  `docker-compose.yml:189-190` relies on it. `resilience.py` hangs only a few
  checkouts at a time. `ServedWhileThreadsLast` states what does hold.


## 7. Not modelled

* HTTP and JSON: bodies, headers, wording. Which problem a request ends with is
  modelled.
* Catalog's different failures are one failure, and a `limit` that is not a number is
  just an invalid limit.
* Deadlines and retries inside orders: the code has none yet, the exercises add
  them.
* The connection shared by all request threads of the C# and Ruby monoliths.
  `Monolith` gives every handler a connection of its own, or the only one of a pool.
  In C# the `finally` of one handler can dispose of and clear another's transaction
  (`Db.cs:68-88`); what two threads do to one `SqliteConnection` is decided inside a
  library that does not allow it, not by this source. In Ruby a `BEGIN` inside another
  thread's transaction is refused, which is `Busy`; reads that see what another thread
  has not committed are left out.
* That a thread pool, a driver or a gRPC channel gives up by itself after a time: the
  code sets no such limit, and the libraries differ (`payments_client.py:20-24`).
* What a driver does after a lost connection beyond the two outcomes of a commit.
* Widths of integers: nothing bounds a quantity from above, and in Java, Go and
  C# the total is a 64-bit product and sum that wraps silently. The models count as
  Python does, and the theorems about totals are about Python's.


## 8. Plan

Done, in this order: `Payments` (the race at the heart of the system), `Orders`
composed with it and `OrderBook` above, `Monolith` and `Shop`, their proofs;
`Catalog` and `Capacity` with theirs; the money, the composition of orders with
payments, and the count of the stock.

Left:

1. The monolith's refinement where cancel reads before its transaction: a shop that may
   take a return twice, which Python, Go, C# and Ruby would implement. `TxInvariant` already
   covers them.
2. For `Catalog` and `Capacity`, an abstract specification like `OrderBook`.
3. Totals of 64 bits in `Orders`, with the wrap-around of Java, Go and C#.
4. The deadline, the retries and the circuit breaker of `payments_client.py`, once the
   exercises that add them are solved in the source.
5. The shared connection of the C# and Ruby monoliths, if it is replaced by one per
   request: then `Monolith` covers it as it stands.
