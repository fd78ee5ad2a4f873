------------------------------ MODULE Monolith ------------------------------
(***************************************************************************)
(* The store as a modular monolith (monolith/): catalog, orders and        *)
(* payments in one process over one SQLite file.  A checkout is a single   *)
(* transaction over all three; so is a cancel, except that four of the six *)
(* implementations read the order before the transaction begins            *)
(* (ReadInTx = FALSE: Python, Go, C#, Ruby; TRUE: Java, whose method is    *)
(* @Transactional, and TypeScript, whose handler never yields).            *)
(*                                                                         *)
(* SQLite has one writer: BEGIN IMMEDIATE, or the only pooled connection,  *)
(* is the lock, and what a transaction wrote is seen by nobody until it    *)
(* commits.  Where all handlers share one connection (C#, Ruby), a BEGIN   *)
(* inside another's transaction is refused, as a lock that times out is;   *)
(* the sharing itself is not modelled here.                                *)
(***************************************************************************)
EXTENDS Integers, FiniteSets, Sequences

CONSTANTS
    Checkouts,  \* checkout requests, which are also order ids (uuid4)
    Cancels,    \* cancel requests
    None,       \* nobody holds the lock
    Products,   \* the skus in the products table
    Price,      \* price_cents of each product
    Seed,       \* the stock that db/seed.sql puts on the shelf
    Baskets,    \* the item lists clients may send
    Limit,      \* PAYMENT_DECLINE_OVER_CENTS
    AlwaysDecline,  \* PAYMENT_ALWAYS_DECLINE
    ReadInTx,   \* cancel reads the order inside its transaction
    MayBusy,    \* the database may answer "locked" (busy_timeout)
    MayCrash,   \* the process may die and be restarted
    ResetDb     \* RESET_DB: a restart starts from an empty database

Handlers == Checkouts \cup Cancels

ASSUME MonolithAssumption ==
    /\ None \notin Handlers
    /\ Checkouts \cap Cancels = {}
    /\ Price \in [Products -> Nat] /\ Seed \in [Products -> Nat]
    /\ \A b \in Baskets : b \in Seq([sku : {b[i].sku : i \in DOMAIN b}, qty : Int])
    /\ Limit \in Int
    /\ {AlwaysDecline, ReadInTx, MayBusy, MayCrash, ResetDb} \subseteq BOOLEAN

VARIABLES
    pc,      \* pc[h]: where handler h stands
    basket,  \* basket[q]: the items of checkout q
    cart,    \* cart[q]: how many of them are reserved, and total_cents
    target,  \* target[x]: the order cancel x names
    seen,    \* seen[x]: that order as cancel x read it
    answer,  \* answer[h]: what h answered
    db,      \* the committed database: stock, orders with lines and payment
    work,    \* the same as the open transaction sees it
    holder   \* the handler whose transaction is open, or None

hvars == <<pc, basket, cart, target, seen, answer>>
mvars == <<pc, basket, cart, target, seen, answer, db, work, holder>>

\* An orders row with its order_lines and the amount of its approved payment.
NoRow == [status |-> "none", lines |-> <<>>, total |-> 0, paid |-> 0]
Empty == [stock |-> Seed, orders |-> [o \in Checkouts |-> NoRow]]
NoCart == [n |-> 0, total |-> 0]

Valid(b) == b # <<>> /\ \A i \in DOMAIN b : b[i].qty >= 1
Repeats(b) == \E i, j \in DOMAIN b : i # j /\ b[i].sku = b[j].sku

\* The quantity of s on an order; PRIMARY KEY (order_id, sku) makes it one line.
Units(b, s) ==
    IF \E i \in DOMAIN b : b[i].sku = s
    THEN b[CHOOSE i \in DOMAIN b : b[i].sku = s].qty ELSE 0

InTx == {"reserving", "charging", "reading", "releasing", "commit"}
Ended == {"done", "crashed"}

Init ==
    /\ pc = [h \in Handlers |-> "idle"]
    /\ basket = [q \in Checkouts |-> <<>>]
    /\ cart = [q \in Checkouts |-> NoCart]
    /\ target = [x \in Cancels |-> None]
    /\ seen = [x \in Cancels |-> NoRow]
    /\ answer = [h \in Handlers |-> "none"]
    /\ db = Empty
    /\ work = Empty
    /\ holder = None

-----------------------------------------------------------------------------
(***************************************************************************)
(* db.transaction: BEGIN IMMEDIATE, COMMIT, ROLLBACK.                      *)
(***************************************************************************)
Goto(h, step) ==
    /\ pc' = [pc EXCEPT ![h] = step]
    /\ UNCHANGED answer

\* Mutants: what was written is committed all the same; the lock is kept.
FailCommits(h, kind) ==
    /\ pc' = [pc EXCEPT ![h] = "done"]
    /\ answer' = [answer EXCEPT ![h] = kind]
    /\ holder' = IF holder = h THEN None ELSE holder
    /\ db' = IF holder = h THEN work ELSE db
    /\ UNCHANGED work
FailHolds(h, kind) ==
    /\ pc' = [pc EXCEPT ![h] = "done"]
    /\ answer' = [answer EXCEPT ![h] = kind]
    /\ work' = IF holder = h THEN db ELSE work
    /\ UNCHANGED <<db, holder>>

\* The handler ends; a transaction it has open is rolled back.
Fail(h, kind) ==
    /\ pc' = [pc EXCEPT ![h] = "done"]
    /\ answer' = [answer EXCEPT ![h] = kind]
    /\ holder' = IF holder = h THEN None ELSE holder
    /\ work' = IF holder = h THEN db ELSE work
    /\ UNCHANGED db

FirstStep(h) ==
    IF h \in Checkouts THEN "reserving"
    ELSE IF ReadInTx THEN "reading" ELSE "releasing"

\* Mutant: BEGIN does not wait for the writer before it.
BeginAtOnce(h) ==
    /\ pc[h] = "waiting"
    /\ holder' = h
    /\ Goto(h, FirstStep(h))
    /\ UNCHANGED <<basket, cart, target, seen, db, work>>

Begin(h) ==
    /\ pc[h] = "waiting"
    /\ holder = None
    /\ holder' = h
    /\ Goto(h, FirstStep(h))
    /\ UNCHANGED <<basket, cart, target, seen, db, work>>

Commit(h) ==
    /\ pc[h] = "commit"
    /\ db' = work
    /\ holder' = None
    /\ Goto(h, "committed")
    /\ UNCHANGED <<basket, cart, target, seen, work>>

Reply(h) ==
    /\ pc[h] = "committed"
    /\ pc' = [pc EXCEPT ![h] = "done"]
    /\ answer' = [answer EXCEPT ![h] = IF h \in Checkouts THEN "confirmed"
                                                          ELSE "cancelled"]
    /\ UNCHANGED <<basket, cart, target, seen, db, work, holder>>

\* The lock is not to be had within busy_timeout, or readers keep the commit
\* from happening: an internal error.
Busy(h) ==
    /\ MayBusy
    /\ \/ pc[h] = "commit"
       \/ pc[h] = "waiting" /\ holder # None
    /\ Fail(h, "internal-error")
    /\ UNCHANGED <<basket, cart, target, seen>>

-----------------------------------------------------------------------------
(***************************************************************************)
(* POST /v1/orders.                                                        *)
(***************************************************************************)
Arrive(q) ==
    /\ pc[q] = "idle"
    /\ \E b \in Baskets :
        /\ basket' = [basket EXCEPT ![q] = b]
        /\ IF Valid(b) THEN Goto(q, "waiting") /\ UNCHANGED <<db, work, holder>>
           ELSE Fail(q, "validation-failed")
    /\ UNCHANGED <<cart, target, seen>>

Item(q) == basket[q][cart[q].n + 1]
Unreserved(q) == pc[q] = "reserving" /\ cart[q].n < Len(basket[q])

\* Mutants: more is taken than there is; the shelf is changed on a connection
\* of catalog's own, outside the transaction.
ReserveUnguarded(q) ==
    /\ Unreserved(q)
    /\ LET s == Item(q).sku  n == Item(q).qty IN
        /\ s \in Products
        /\ work' = [work EXCEPT !.stock[s] = @ - n]
        /\ cart' = [cart EXCEPT ![q] = [n |-> @.n + 1, total |-> @.total + Price[s] * n]]
    /\ UNCHANGED <<pc, answer, basket, target, seen, db, holder>>
ReserveOutside(q) ==
    /\ Unreserved(q)
    /\ LET s == Item(q).sku  n == Item(q).qty IN
        /\ s \in Products /\ work.stock[s] >= n
        /\ work' = [work EXCEPT !.stock[s] = @ - n]
        /\ db' = [db EXCEPT !.stock[s] = @ - n]
        /\ cart' = [cart EXCEPT ![q] = [n |-> @.n + 1, total |-> @.total + Price[s] * n]]
    /\ UNCHANGED <<pc, answer, basket, target, seen, holder>>

\* catalog.reserve of the next item.
Reserve(q) ==
    /\ Unreserved(q)
    /\ LET s == Item(q).sku  n == Item(q).qty IN
        /\ s \in Products /\ work.stock[s] >= n
        /\ work' = [work EXCEPT !.stock[s] = @ - n]
        /\ cart' = [cart EXCEPT ![q] = [n |-> @.n + 1, total |-> @.total + Price[s] * n]]
    /\ UNCHANGED <<pc, answer, basket, target, seen, db, holder>>

ReserveFails(q) ==
    /\ Unreserved(q)
    /\ LET s == Item(q).sku IN
        \/ s \notin Products /\ Fail(q, "product-not-found")
        \/ s \in Products /\ work.stock[s] < Item(q).qty /\ Fail(q, "insufficient-stock")
    /\ UNCHANGED <<basket, cart, target, seen>>

\* Mutant: no PRIMARY KEY (order_id, sku).
WriteOrderAnyway(q) ==
    /\ pc[q] = "reserving" /\ cart[q].n = Len(basket[q])
    /\ work' = [work EXCEPT !.orders[q] = [status |-> "CONFIRMED", lines |-> basket[q],
                                           total |-> cart[q].total, paid |-> 0]]
    /\ Goto(q, "charging")
    /\ UNCHANGED <<basket, cart, target, seen, db, holder>>

\* The orders and order_lines rows are inserted.
WriteOrder(q) ==
    /\ pc[q] = "reserving" /\ cart[q].n = Len(basket[q])
    /\ ~Repeats(basket[q])
    /\ work' = [work EXCEPT !.orders[q] = [status |-> "CONFIRMED", lines |-> basket[q],
                                           total |-> cart[q].total, paid |-> 0]]
    /\ Goto(q, "charging")
    /\ UNCHANGED <<basket, cart, target, seen, db, holder>>

\* A sku twice breaks PRIMARY KEY (order_id, sku).
WriteOrderFails(q) ==
    /\ pc[q] = "reserving" /\ cart[q].n = Len(basket[q])
    /\ Repeats(basket[q])
    /\ Fail(q, "internal-error")
    /\ UNCHANGED <<basket, cart, target, seen>>

\* payments.charge; what is recorded of a decline is rolled back with the rest.
Declined(amount) == AlwaysDecline \/ amount > Limit

Charge(q) ==
    /\ pc[q] = "charging"
    /\ ~Declined(cart[q].total)
    /\ work' = [work EXCEPT !.orders[q].paid = cart[q].total]
    /\ Goto(q, "commit")
    /\ UNCHANGED <<basket, cart, target, seen, db, holder>>

Decline(q) ==
    /\ pc[q] = "charging"
    /\ Declined(cart[q].total)
    /\ Fail(q, "payment-declined")
    /\ UNCHANGED <<basket, cart, target, seen>>

Checkout(q) ==
    \/ Begin(q) \/ Reserve(q) \/ ReserveFails(q) \/ WriteOrder(q)
    \/ WriteOrderFails(q) \/ Charge(q) \/ Decline(q)
    \/ Commit(q) \/ Reply(q) \/ Busy(q)

-----------------------------------------------------------------------------
(***************************************************************************)
(* POST /v1/orders/{id}/cancel.                                            *)
(***************************************************************************)
CancelArrive(x, o) ==
    /\ pc[x] = "idle"
    /\ target' = [target EXCEPT ![x] = o]
    /\ Goto(x, IF ReadInTx THEN "waiting" ELSE "reading")
    /\ UNCHANGED <<basket, cart, seen, db, work, holder>>

\* What h sees: its own transaction's writes, or what is committed.
Sees(h) == IF holder = h THEN work ELSE db

\* Mutant: a cancelled order is cancelled again.
ReadOrderAgain(x) ==
    /\ pc[x] = "reading"
    /\ LET row == Sees(x).orders[target[x]] IN
        \/ /\ row.status = "none"
           /\ Fail(x, "order-not-found") /\ UNCHANGED seen
        \/ /\ row.status # "none"
           /\ seen' = [seen EXCEPT ![x] = row]
           /\ Goto(x, IF ReadInTx THEN "releasing" ELSE "waiting")
           /\ UNCHANGED <<db, work, holder>>
    /\ UNCHANGED <<basket, cart, target>>

\* get_order and the check of its status.
ReadOrder(x) ==
    /\ pc[x] = "reading"
    /\ LET row == Sees(x).orders[target[x]] IN
        \/ /\ row.status = "none"
           /\ Fail(x, "order-not-found") /\ UNCHANGED seen
        \/ /\ row.status = "CANCELLED"
           /\ Fail(x, "order-not-cancellable") /\ UNCHANGED seen
        \/ /\ row.status = "CONFIRMED"
           /\ seen' = [seen EXCEPT ![x] = row]
           /\ Goto(x, IF ReadInTx THEN "releasing" ELSE "waiting")
           /\ UNCHANGED <<db, work, holder>>
    /\ UNCHANGED <<basket, cart, target>>

\* Mutant: only the first line goes back on the shelf.
ReleaseFirstLine(x) ==
    /\ pc[x] = "releasing"
    /\ work' = [stock |-> [work.stock EXCEPT ![seen[x].lines[1].sku] =
                              @ + seen[x].lines[1].qty],
                orders |-> [work.orders EXCEPT ![target[x]].status = "CANCELLED"]]
    /\ Goto(x, "commit")
    /\ UNCHANGED <<basket, cart, target, seen, db, holder>>

\* catalog.release of every line as it was read, and the UPDATE.
Release(x) ==
    /\ pc[x] = "releasing"
    /\ work' = [stock |-> [s \in Products |-> work.stock[s] + Units(seen[x].lines, s)],
                orders |-> [work.orders EXCEPT ![target[x]].status = "CANCELLED"]]
    /\ Goto(x, "commit")
    /\ UNCHANGED <<basket, cart, target, seen, db, holder>>

Cancel(x) ==
    \/ Begin(x) \/ ReadOrder(x) \/ Release(x)
    \/ Commit(x) \/ Reply(x) \/ Busy(x)

-----------------------------------------------------------------------------
\* The process dies and is started again: an open transaction is gone.
Crash ==
    /\ MayCrash
    /\ \E h \in Handlers : pc[h] \notin {"idle"} \cup Ended
    /\ pc' = [h \in Handlers |-> IF pc[h] \in {"idle"} \cup Ended THEN pc[h]
                                                                  ELSE "crashed"]
    /\ db' = IF ResetDb THEN Empty ELSE db
    /\ work' = db'
    /\ holder' = None
    /\ UNCHANGED <<basket, cart, target, seen, answer>>

Idle ==
    /\ \A h \in Handlers : pc[h] \in Ended
    /\ UNCHANGED mvars

Next ==
    \/ \E q \in Checkouts : Arrive(q) \/ Checkout(q)
    \/ \E x \in Cancels : (\E o \in Checkouts : CancelArrive(x, o)) \/ Cancel(x)
    \/ Crash
    \/ Idle

Spec == Init /\ [][Next]_mvars

\* Handlers that have started keep running; that a lock times out is never
\* due.  The lock needs no more: a finite number of requests leaves it free in
\* the end.
Fairness ==
    /\ \A q \in Checkouts : WF_mvars(Checkout(q) /\ ~Busy(q))
    /\ \A x \in Cancels : WF_mvars(Cancel(x) /\ ~Busy(x))
FairSpec == Spec /\ Fairness

-----------------------------------------------------------------------------
(***************************************************************************)
(* Properties.                                                             *)
(***************************************************************************)
Row == [status : {"none", "CONFIRMED", "CANCELLED"}, lines : Baskets \cup {<<>>},
        total : Int, paid : Int]
Database == [stock : [Products -> Nat], orders : [Checkouts -> Row]]
Kinds == {"none", "confirmed", "cancelled", "validation-failed",
          "product-not-found", "insufficient-stock", "payment-declined",
          "order-not-found", "order-not-cancellable", "internal-error"}

\* The types of the handlers' state, of the database and of the transaction:
\* no product is ever sold below zero (catalog.py:74-80, CHECK (stock >= 0)).
MTypeOK ==
    /\ pc \in [Handlers -> InTx \cup Ended \cup {"idle", "waiting", "committed"}]
    /\ basket \in [Checkouts -> Baskets \cup {<<>>}]
    /\ cart \in [Checkouts -> [n : Nat, total : Int]]
    /\ target \in [Cancels -> Checkouts \cup {None}]
    /\ seen \in [Cancels -> Row]
    /\ answer \in [Handlers -> Kinds]
    /\ db \in Database /\ work \in Database
    /\ holder \in Handlers \cup {None}

Placed(o) == db.orders[o].status # "none"

\* Whoever writes holds the lock, one handler at a time, and with no
\* transaction open nothing is pending: what a handler that failed had
\* written is gone (db.py:47-68).
OneWriter ==
    /\ \A h \in Handlers : pc[h] \in InTx \ {"reading"} => holder = h
    /\ holder = None => work = db
    /\ holder # None => pc[holder] \in InTx

\* Nothing of the stock is lost or made up: what is on the shelf and what
\* confirmed orders hold, unit by unit, is what the shop was seeded with, however
\* checkouts, declines, cancels, crashes and lock timeouts interleave
\* (orders.py:64-89, 114-134, catalog.py:62-86).
SoldUnits(d, s) ==
    UNION {{o} \X (1..Units(d.orders[o].lines, s)) :
              o \in {o \in Checkouts : d.orders[o].status = "CONFIRMED"}}
StockIsConserved ==
    \A s \in Products : db.stock[s] + Cardinality(SoldUnits(db, s)) = Seed[s]

\* An order that exists is whole and paid: its lines are products on sale, no
\* sku twice, and an approved payment of its total stands behind it
\* (orders.py:64-89, payments.py:48-91).
OrdersAreWholeAndPaid ==
    \A o \in Checkouts : Placed(o) =>
        LET row == db.orders[o] IN
        /\ row.lines = basket[o] /\ ~Repeats(row.lines)
        /\ \A i \in DOMAIN row.lines : row.lines[i].sku \in Products
        /\ row.paid = row.total /\ ~Declined(row.total)

\* A 201 means that the order is in the database, a 200 to a cancel that it
\* is cancelled there, and any problem document answered to a checkout that no
\* order exists: "every step here either happens or does not happen,
\* together" (orders.py:43-47).  A restart that resets the database voids it.
AnswersAreTrue ==
    /\ \A q \in Checkouts : answer[q] \notin {"none", "confirmed"} => ~Placed(q)
    /\ ~ResetDb =>
        /\ \A q \in Checkouts : answer[q] = "confirmed" => Placed(q)
        /\ \A x \in Cancels : answer[x] = "cancelled" =>
               db.orders[target[x]].status = "CANCELLED"

\* Of several cancels of one order at most one is accepted.
OneCancelIsAccepted ==
    \A x, y \in Cancels :
        answer[x] = "cancelled" /\ answer[y] = "cancelled"
          /\ target[x] = target[y] => x = y

\* Every request that arrives is answered, or its process has died: nobody
\* waits for a lock that is never given back, even if no wait for it ever times
\* out (db.py:47-68).
HandlersEnd == \A h \in Handlers : pc[h] # "idle" ~> pc[h] \in Ended

\* The monolith implements the shop: no step of it shows more, or less, than
\* a whole sale or a whole return.
Shop == INSTANCE Shop WITH OrderIds <- Checkouts,
            stock <- db.stock,
            status <- [o \in Checkouts |-> db.orders[o].status],
            lines <- [o \in Checkouts |-> db.orders[o].lines]
ShopSpec == Shop!Spec
=============================================================================
