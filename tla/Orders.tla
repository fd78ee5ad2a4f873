------------------------------- MODULE Orders -------------------------------
(***************************************************************************)
(* The orders service with what it talks to: its own database (orders,     *)
(* order_lines, idempotency_keys), the catalog it prices lines against and *)
(* the payments service it charges through (module Payments).              *)
(*                                                                         *)
(* Handlers run concurrently and share nothing but the database.  A        *)
(* checkout is a sequence of steps - look the key up, price each line,     *)
(* charge, persist - and any step of any other handler, of payments, a     *)
(* crash or a broken connection may come between two of them.              *)
(*                                                                         *)
(* A checkout request is one element of Requests, used once; a client's    *)
(* retry is another request with the same key.  order_id is a fresh        *)
(* uuid4(), so an order is named by the request that creates it, and the   *)
(* Charge RPC by the request that makes it.                                *)
(***************************************************************************)
EXTENDS Integers, FiniteSets, Sequences

CONSTANTS
    Requests,   \* checkout requests, which are also order ids and RPCs
    Cancels,    \* cancel requests
    Keys,       \* Idempotency-Key values clients use
    NoKey,      \* no Idempotency-Key header
    None,       \* no order, no payment
    Skus,       \* the skus clients may name
    Prices,     \* the price_cents a product may have
    Baskets,    \* the item lists clients may send
    Patient,    \* a client retries a key only after its last try is over
    SameBasket, \* a retry carries the basket of the first try
    Faults,     \* what may go wrong, a subset of FaultKinds
    ErrorMeansNoRow,  \* TRUE for Go: a read that fails has found no row
    Limit, AlwaysDecline, Latency, EventLoop, Workers   \* see Payments

FaultKinds == {"catalog", "connection", "database", "lost_commit", "crash",
               "payments_restart", "reprice"}

Item == [sku : Skus, qty : Int]

ASSUME OrdersAssumption ==
    /\ NoKey \notin Keys \cup Requests
    /\ None \notin Requests
    /\ Keys \cap Requests = {}
    /\ Prices \subseteq Nat
    /\ Baskets \subseteq Seq(Item)
    /\ Faults \subseteq FaultKinds
    /\ {Patient, SameBasket, ErrorMeansNoRow} \subseteq BOOLEAN
    /\ {AlwaysDecline, Latency, EventLoop} \subseteq BOOLEAN
    /\ Limit \in Int
    /\ Workers \in Nat \ {0}

VARIABLES
    pc,       \* pc[q]: where the handler of checkout q stands
    ask,      \* ask[q]: the request; late: its key had an order on arrival
    draft,    \* draft[q]: the lines priced so far and total_cents
    answer,   \* answer[q]: what the handler answered
    cpc,      \* cpc[x]: where the handler of cancel x stands
    target,   \* target[x]: the order cancel x names
    canswer,  \* canswer[x]: what it answered
    orders,   \* orders[o]: the orders row and its order_lines
    idem,     \* idem[k]: the idempotency_keys row of k
    price,    \* price[s]: catalog's price, -1 for no such product
    call, st, live, reply, charges, ledger   \* payments, see Payments

DownKeys == Keys \cup Requests

P == INSTANCE Payments WITH
        Calls <- Requests, Keys <- DownKeys, Nobody <- None, Amounts <- Int,
        MayRestart <- "payments_restart" \in Faults,
        MayHangUp <- "connection" \in Faults

hvars == <<pc, ask, draft, answer>>
cvars == <<cpc, target, canswer>>
dvars == <<orders, idem>>
pvars == <<call, st, live, reply, charges, ledger>>
vars  == <<pc, ask, draft, answer, cpc, target, canswer, orders, idem, price,
           call, st, live, reply, charges, ledger>>

-----------------------------------------------------------------------------
(***************************************************************************)
(* Data.                                                                   *)
(***************************************************************************)
NoRow   == [status |-> "none", total |-> 0, lines |-> <<>>, auth |-> None]
NoAsk   == [key |-> NoKey, basket |-> <<>>, late |-> FALSE]
NoDraft == [lines |-> <<>>, total |-> 0]
NoAnswer == [kind |-> "none", order |-> None]

Line   == [sku : Skus, unit : Int, qty : Int]
Ask    == [key : Keys \cup {NoKey}, basket : Baskets \cup {<<>>}, late : BOOLEAN]
Draft  == [lines : Seq(Line), total : Int]
Row    == [status : {"none", "CONFIRMED", "CANCELLED"}, total : Int,
           lines : Seq(Line), auth : Requests \cup {None}]
Steps == {"idle", "lookup", "replay", "pricing", "charging", "persist",
          "done", "crashed"}
Kinds == {"none", "confirmed", "validation-failed", "product-not-found",
          "catalog-unavailable", "payment-declined", "payments-unavailable",
          "order-not-found", "internal-error"}
Outcome == [kind : Kinds, order : Requests \cup {None}]
CancelKinds == {"none", "cancelled", "order-not-found",
                "order-not-cancellable", "internal-error"}

Placed == {o \in Requests : orders[o].status # "none"}
Over(q) == pc[q] \in {"done", "crashed"}

Valid(basket) == basket # <<>> /\ \A i \in DOMAIN basket : basket[i].qty >= 1

\* The key handed to payments: the client's, or else the order id.
DownstreamKey(q) == IF ask[q].key = NoKey THEN q ELSE ask[q].key

\* The handler of q ends with an answer.
Finish(q, kind, o) ==
    /\ pc' = [pc EXCEPT ![q] = "done"]
    /\ answer' = [answer EXCEPT ![q] = [kind |-> kind, order |-> o]]

Goto(q, step) ==
    /\ pc' = [pc EXCEPT ![q] = step]
    /\ UNCHANGED answer

Init ==
    /\ pc = [q \in Requests |-> "idle"]
    /\ ask = [q \in Requests |-> NoAsk]
    /\ draft = [q \in Requests |-> NoDraft]
    /\ answer = [q \in Requests |-> NoAnswer]
    /\ cpc = [x \in Cancels |-> "idle"]
    /\ target = [x \in Cancels |-> None]
    /\ canswer = [x \in Cancels |-> "none"]
    /\ orders = [o \in Requests |-> NoRow]
    /\ idem = [k \in Keys |-> None]
    /\ price \in [Skus -> Prices \cup {-1}]
    /\ P!PInit

-----------------------------------------------------------------------------
(***************************************************************************)
(* POST /v1/orders.                                                        *)
(***************************************************************************)

\* What the contract asks of a client that sends a key again, and how much
\* of it the clients of this instance observe.
Allowed(q, k, b) ==
    \A r \in Requests : k # NoKey /\ pc[r] # "idle" /\ ask[r].key = k =>
        /\ SameBasket => ask[r].basket = b
        /\ Patient => Over(r)

\* The request arrives and is validated.
Arrive(q) ==
    /\ pc[q] = "idle"
    /\ \E k \in Keys \cup {NoKey}, b \in Baskets :
        /\ Allowed(q, k, b)
        /\ ask' = [ask EXCEPT ![q] =
                     [key |-> k, basket |-> b,
                      late |-> IF k = NoKey THEN FALSE ELSE idem[k] # None]]
        /\ IF ~Valid(b) THEN Finish(q, "validation-failed", None)
           ELSE Goto(q, IF k = NoKey THEN "pricing" ELSE "lookup")
    /\ UNCHANGED <<draft, cvars, dvars, price, pvars>>

\* Mutant: what the lookup finds is ignored.
LookupIgnored(q) ==
    /\ pc[q] = "lookup"
    /\ Goto(q, "pricing")
    /\ UNCHANGED <<ask, draft, cvars, dvars, price, pvars>>

\* find_order_id_by_idempotency_key, a transaction of its own.
Lookup(q) ==
    /\ pc[q] = "lookup"
    /\ Goto(q, IF idem[ask[q].key] = None THEN "pricing" ELSE "replay")
    /\ UNCHANGED <<ask, draft, cvars, dvars, price, pvars>>

\* The lookup fails: an internal error, except that Go takes any error for
\* "no such key".
LookupFails(q) ==
    /\ "database" \in Faults
    /\ pc[q] = "lookup"
    /\ IF ErrorMeansNoRow THEN Goto(q, "pricing")
       ELSE Finish(q, "internal-error", None)
    /\ UNCHANGED <<ask, draft, cvars, dvars, price, pvars>>

\* What the read of an order is answered with when the database fails.
ReadError == IF ErrorMeansNoRow THEN "order-not-found" ELSE "internal-error"

\* get_order of the order the key names.
Replay(q) ==
    /\ pc[q] = "replay"
    /\ LET o == idem[ask[q].key] IN
        IF o \in Placed THEN Finish(q, "confirmed", o)
        ELSE Finish(q, "order-not-found", None)
    /\ UNCHANGED <<ask, draft, cvars, dvars, price, pvars>>

ReplayFails(q) ==
    /\ "database" \in Faults
    /\ pc[q] = "replay"
    /\ Finish(q, ReadError, None)
    /\ UNCHANGED <<ask, draft, cvars, dvars, price, pvars>>

\* The item catalog is asked about next.
NextItem(q) == ask[q].basket[Len(draft[q].lines) + 1]
Unpriced(q) == pc[q] = "pricing" /\ Len(draft[q].lines) < Len(ask[q].basket)

\* One line is priced: catalog answers 200.
PriceLine(q) ==
    /\ Unpriced(q)
    /\ LET item == NextItem(q)
           unit == price[item.sku]
       IN /\ unit # -1
          /\ draft' = [draft EXCEPT ![q] =
                [lines |-> Append(@.lines, [sku |-> item.sku, unit |-> unit,
                                            qty |-> item.qty]),
                 total |-> @.total + unit * item.qty]]
    /\ UNCHANGED <<pc, ask, answer, cvars, dvars, price, pvars>>

\* Catalog answers 404.
ProductMissing(q) ==
    /\ Unpriced(q)
    /\ price[NextItem(q).sku] = -1
    /\ Finish(q, "product-not-found", None)
    /\ UNCHANGED <<ask, draft, cvars, dvars, price, pvars>>

\* Catalog does not answer, or answers something else.
CatalogFails(q) ==
    /\ "catalog" \in Faults
    /\ Unpriced(q)
    /\ Finish(q, "catalog-unavailable", None)
    /\ UNCHANGED <<ask, draft, cvars, dvars, price, pvars>>

\* Mutant: the charge forgets the quantity.
StartChargeOneUnit(q) ==
    /\ pc[q] = "pricing" /\ Len(draft[q].lines) = Len(ask[q].basket)
    /\ P!Send(q, DownstreamKey(q), draft[q].lines[1].unit)
    /\ Goto(q, "charging")
    /\ UNCHANGED <<ask, draft, cvars, dvars, price>>

\* Every line is priced: the Charge RPC is sent.
StartCharge(q) ==
    /\ pc[q] = "pricing" /\ Len(draft[q].lines) = Len(ask[q].basket)
    /\ P!Send(q, DownstreamKey(q), draft[q].total)
    /\ Goto(q, "charging")
    /\ UNCHANGED <<ask, draft, cvars, dvars, price>>

\* The ChargeResponse arrives; whatever is not DECLINED is approved, and a
\* status code that is not about transport is an internal error.
ChargeAnswered(q) ==
    /\ pc[q] = "charging"
    /\ P!Receive(q)
    /\ CASE reply[q].status = "DECLINED" -> Finish(q, "payment-declined", None)
         [] reply[q].status = "INVALID_ARGUMENT" -> Finish(q, "internal-error", None)
         [] OTHER -> Goto(q, "persist")
    /\ UNCHANGED <<ask, draft, cvars, dvars, price>>

\* The transport fails (UNAVAILABLE), wherever payments stands with the call.
ChargeLost(q) ==
    /\ pc[q] = "charging"
    /\ P!HangUp(q)
    /\ Finish(q, "payments-unavailable", None)
    /\ UNCHANGED <<ask, draft, cvars, dvars, price>>

\* The constraints persist can break: PRIMARY KEY (order_id, sku) and
\* PRIMARY KEY (key).
RepeatsSku(lines) ==
    \E i, j \in DOMAIN lines : i # j /\ lines[i].sku = lines[j].sku
\* Mutant: no PRIMARY KEY on idempotency_keys.
KeyNeverTaken(k) == FALSE
KeyTaken(k) == IF k = NoKey THEN FALSE ELSE idem[k] # None
Conflict(q) == RepeatsSku(draft[q].lines) \/ KeyTaken(ask[q].key)

\* Mutants: the key in the place of auth_code; the handler's own call in its
\* place, though the payment may be a replay; no idempotency_keys row.
WriteKeyAsAuth(q) ==
    /\ orders' = [orders EXCEPT ![q] =
                    [status |-> "CONFIRMED", total |-> draft[q].total,
                     lines |-> draft[q].lines, auth |-> DownstreamKey(q)]]
    /\ idem' = IF ask[q].key = NoKey THEN idem
               ELSE [idem EXCEPT ![ask[q].key] = q]
WriteOwnAuth(q) ==
    /\ orders' = [orders EXCEPT ![q] =
                    [status |-> "CONFIRMED", total |-> draft[q].total,
                     lines |-> draft[q].lines, auth |-> q]]
    /\ idem' = IF ask[q].key = NoKey THEN idem
               ELSE [idem EXCEPT ![ask[q].key] = q]
WriteWithoutKey(q) ==
    /\ orders' = [orders EXCEPT ![q] =
                    [status |-> "CONFIRMED", total |-> draft[q].total,
                     lines |-> draft[q].lines, auth |-> reply[q].by]]
    /\ UNCHANGED idem

\* The three INSERTs of one transaction.
Write(q) ==
    /\ orders' = [orders EXCEPT ![q] =
                    [status |-> "CONFIRMED", total |-> draft[q].total,
                     lines |-> draft[q].lines, auth |-> reply[q].by]]
    /\ idem' = IF ask[q].key = NoKey THEN idem
               ELSE [idem EXCEPT ![ask[q].key] = q]

Persist(q) ==
    /\ pc[q] = "persist"
    /\ ~Conflict(q)
    /\ Write(q)
    /\ Finish(q, "confirmed", q)
    /\ UNCHANGED <<ask, draft, cvars, price, pvars>>

\* Mutant: no transaction around the INSERTs, and the first ones stay.
PersistFailsHalfway(q) ==
    /\ pc[q] = "persist"
    /\ Conflict(q) \/ "database" \in Faults
    /\ orders' = [orders EXCEPT ![q] =
                    [status |-> "CONFIRMED", total |-> draft[q].total,
                     lines |-> draft[q].lines, auth |-> reply[q].by]]
    /\ Finish(q, "internal-error", None)
    /\ UNCHANGED <<ask, draft, cvars, idem, price, pvars>>

\* A constraint fails, or the database does: everything is rolled back.
PersistFails(q) ==
    /\ pc[q] = "persist"
    /\ Conflict(q) \/ "database" \in Faults
    /\ Finish(q, "internal-error", None)
    /\ UNCHANGED <<ask, draft, cvars, dvars, price, pvars>>

\* The commit happens but its acknowledgement is lost on the way back.
CommitUnacknowledged(q) ==
    /\ "lost_commit" \in Faults
    /\ pc[q] = "persist"
    /\ ~Conflict(q)
    /\ Write(q)
    /\ Finish(q, "internal-error", None)
    /\ UNCHANGED <<ask, draft, cvars, price, pvars>>

Checkout(q) ==
    \/ Lookup(q) \/ LookupFails(q) \/ Replay(q) \/ ReplayFails(q)
    \/ PriceLine(q) \/ ProductMissing(q) \/ CatalogFails(q)
    \/ StartCharge(q) \/ ChargeAnswered(q) \/ ChargeLost(q)
    \/ Persist(q) \/ PersistFails(q) \/ CommitUnacknowledged(q)

-----------------------------------------------------------------------------
(***************************************************************************)
(* POST /v1/orders/{id}/cancel: a read, a check and an update, each its    *)
(* own transaction.                                                        *)
(***************************************************************************)
CancelDone(x, kind) ==
    /\ cpc' = [cpc EXCEPT ![x] = "done"]
    /\ canswer' = [canswer EXCEPT ![x] = kind]

\* Mutants: the order's existence, or its status, is not looked at.
CancelReadBlind(x, o) ==
    /\ cpc[x] = "idle"
    /\ target' = [target EXCEPT ![x] = o]
    /\ IF orders[o].status = "CANCELLED" THEN CancelDone(x, "order-not-cancellable")
       ELSE cpc' = [cpc EXCEPT ![x] = "cancelling"] /\ UNCHANGED canswer
    /\ UNCHANGED <<hvars, dvars, price, pvars>>
CancelReadAgain(x, o) ==
    /\ cpc[x] = "idle"
    /\ target' = [target EXCEPT ![x] = o]
    /\ IF orders[o].status = "none" THEN CancelDone(x, "order-not-found")
       ELSE cpc' = [cpc EXCEPT ![x] = "cancelling"] /\ UNCHANGED canswer
    /\ UNCHANGED <<hvars, dvars, price, pvars>>

CancelRead(x, o) ==
    /\ cpc[x] = "idle"
    /\ target' = [target EXCEPT ![x] = o]
    /\ CASE orders[o].status = "none" -> CancelDone(x, "order-not-found")
         [] orders[o].status = "CANCELLED" -> CancelDone(x, "order-not-cancellable")
         [] OTHER -> cpc' = [cpc EXCEPT ![x] = "cancelling"] /\ UNCHANGED canswer
    /\ UNCHANGED <<hvars, dvars, price, pvars>>

\* The read fails, whatever order x names.
CancelReadFails(x, o) ==
    /\ "database" \in Faults
    /\ cpc[x] = "idle"
    /\ target' = [target EXCEPT ![x] = o]
    /\ CancelDone(x, ReadError)
    /\ UNCHANGED <<hvars, dvars, price, pvars>>

\* Mutant: DELETE for UPDATE.
MarkDeleted(x) ==
    /\ orders' = [orders EXCEPT ![target[x]] = NoRow]
    /\ UNCHANGED idem

\* mark_cancelled: UPDATE ... WHERE id, whatever the status is by now.
MarkCancelled(x) ==
    /\ orders' = [orders EXCEPT ![target[x]].status = "CANCELLED"]
    /\ UNCHANGED idem

CancelWrite(x) ==
    /\ cpc[x] = "cancelling"
    /\ MarkCancelled(x)
    /\ CancelDone(x, "cancelled")
    /\ UNCHANGED <<target, hvars, price, pvars>>

\* The update fails, or it commits and the acknowledgement is lost.
CancelFails(x) ==
    /\ cpc[x] = "cancelling"
    /\ \/ "database" \in Faults /\ UNCHANGED dvars
       \/ "lost_commit" \in Faults /\ MarkCancelled(x)
    /\ CancelDone(x, "internal-error")
    /\ UNCHANGED <<target, hvars, price, pvars>>

Cancel(x) == \/ \E o \in Requests : CancelRead(x, o) \/ CancelReadFails(x, o)
             \/ CancelWrite(x)
             \/ CancelFails(x)

-----------------------------------------------------------------------------
(***************************************************************************)
(* The surroundings.                                                       *)
(***************************************************************************)

\* Payments works on a call.
PaymentsStep(q) == P!Serve(q) /\ UNCHANGED <<hvars, cvars, dvars, price>>

PaymentsRestart == P!Restart /\ UNCHANGED <<hvars, cvars, dvars, price>>

\* The orders process dies and comes back: every handler in it is gone, the
\* database is not, and payments goes on with the calls it has received.
Running(q) == pc[q] \notin {"idle", "done", "crashed"}
Crash ==
    /\ "crash" \in Faults
    /\ (\E q \in Requests : Running(q)) \/ (\E x \in Cancels : cpc[x] = "cancelling")
    /\ pc' = [q \in Requests |-> IF Running(q) THEN "crashed" ELSE pc[q]]
    /\ cpc' = [x \in Cancels |-> IF cpc[x] = "cancelling" THEN "done" ELSE cpc[x]]
    /\ live' = [q \in Requests |-> live[q] /\ ~Running(q)]
    /\ UNCHANGED <<ask, draft, answer, target, canswer, dvars, price,
                   call, st, reply, charges, ledger>>

\* Catalog re-prices or withdraws a product.
Reprice(s, p) ==
    /\ "reprice" \in Faults
    /\ price[s] # p
    /\ price' = [price EXCEPT ![s] = p]
    /\ UNCHANGED <<hvars, cvars, dvars, pvars>>

\* Everything that was sent has been dealt with.
Idle ==
    /\ \A q \in Requests : Over(q)
    /\ \A x \in Cancels : cpc[x] = "done"
    /\ UNCHANGED vars

Next ==
    \/ \E q \in Requests : Arrive(q) \/ Checkout(q) \/ PaymentsStep(q)
    \/ \E x \in Cancels : Cancel(x)
    \/ PaymentsRestart
    \/ Crash
    \/ \E s \in Skus, p \in Prices \cup {-1} : Reprice(s, p)
    \/ Idle

Spec == Init /\ [][Next]_vars

\* What a handler that has started does next once catalog, payments and the
\* database have answered it.  No failure is among it, except of a constraint.
Proceed(q) ==
    \/ Lookup(q) \/ Replay(q) \/ PriceLine(q) \/ ProductMissing(q)
    \/ StartCharge(q) \/ ChargeAnswered(q) \/ Persist(q)
    \/ Conflict(q) /\ PersistFails(q)

\* The transport tells a waiting handler that the payments process has died.
\* From a process that lives the handler waits for its answer, and for nothing
\* else: nobody owes it a broken connection.
ToldOfDeath(q) == st[q] = "dead" /\ ChargeLost(q)

\* Handlers that have started keep running, and so does payments.
Fairness ==
    /\ \A q \in Requests : /\ WF_vars(Proceed(q)) /\ WF_vars(ToldOfDeath(q))
                           /\ WF_vars(PaymentsStep(q))
    /\ \A x \in Cancels : WF_vars(CancelWrite(x))
FairSpec == Spec /\ Fairness

-----------------------------------------------------------------------------
(***************************************************************************)
(* Properties.                                                             *)
(***************************************************************************)

\* The types of the handlers' state, of the tables and of payments' state.
TypeOK ==
    /\ pc \in [Requests -> Steps]
    /\ ask \in [Requests -> Ask]
    /\ draft \in [Requests -> Draft]
    /\ answer \in [Requests -> Outcome]
    /\ cpc \in [Cancels -> {"idle", "cancelling", "done"}]
    /\ target \in [Cancels -> Requests \cup {None}]
    /\ canswer \in [Cancels -> CancelKinds]
    /\ orders \in [Requests -> Row]
    /\ idem \in [Keys -> Requests \cup {None}]
    /\ price \in [Skus -> Prices \cup {-1}]
    /\ P!PTypeOK

\* The orders table and the idempotency table agree after every step: a key
\* row names a placed order of that key, and a placed order of a keyed
\* request has its key row.  So one key never names two orders, however many
\* retries race (repository.py:66-90).
KeyRowsMatchOrders ==
    /\ \A k \in Keys : idem[k] # None =>
           idem[k] \in Placed /\ ask[idem[k]].key = k
    /\ \A o \in Placed : ask[o].key # NoKey => idem[ask[o].key] = o

\* Every order is paid for: its auth_code belongs to a payment that was
\* taken, under the key of this very order, although the charge and the
\* insert are two steps with anything in between (service.py:75-80).
OrdersArePaid ==
    \A o \in Placed :
        orders[o].auth \in ledger /\ call[orders[o].auth].key = DownstreamKey(o)

\* A 201 tells the truth: the order exists, and it is the one order of the
\* client's key, so all 201s of one key name the same order
\* (service.py:49-53, 83-90).
ConfirmationsAreTrue ==
    \A q \in Requests : answer[q].kind = "confirmed" =>
        /\ answer[q].order \in Placed
        /\ IF ask[q].key = NoKey THEN answer[q].order = q
           ELSE answer[q].order = idem[ask[q].key]

\* "Any step failing means no order exists" (contracts/orders.v1.yaml:77):
\* a checkout that is answered with a problem document has left neither an order
\* nor a row for its key, and none appears later, whichever step failed: a
\* constraint and the database included.  Only the request whose own COMMIT went
\* unacknowledged is told of a failure that was none.
Misled(q) == /\ answer[q].kind \notin {"none", "confirmed"}
             /\ q \in Placed \/ \E k \in Keys : idem[k] = q
FailuresLeaveNoOrder ==
    [][\A q \in Requests :
         Misled(q)' => Misled(q) \/ CommitUnacknowledged(q)]_vars

\* A checkout rejected for its basket, for the catalog or for its card took
\* no money, whatever payments, crashes and other requests with the same key
\* were doing (service.py:58-76, payments_client.py:174-183).
FreeKinds == {"validation-failed", "product-not-found", "catalog-unavailable",
              "payment-declined", "order-not-found"}
RejectionsAreFree == \A q \in ledger : answer[q].kind \notin FreeKinds

\* A retry that arrives once the key's order is committed takes no money, even
\* when payments has forgotten the key since: the orders database answers it
\* (service.py:46-53).
LateRetriesAreFree == \A q \in ledger : ~ask[q].late

\* How far a handler has got, its RPC, its order and its answer belong together
\* (service.py:42-90): only a keyed request is looked up, the key it charges
\* under is the one its order is stored under, only an approval it has received
\* lets it persist, an order appears only as its handler ends, and a rejection
\* leaves no RPC that could still charge.  A cancel on its way has found its
\* order.  The properties above are inductive only together with it; OrdersProofs
\* proves it.
HandlersAreSound ==
    /\ \A q \in Requests :
        /\ st[q] # "none" =>
               /\ pc[q] \in {"charging", "persist", "done", "crashed"}
               /\ call[q].key = DownstreamKey(q)
        /\ pc[q] \in {"lookup", "replay"} => ask[q].key # NoKey
        /\ pc[q] = "persist" => st[q] = "received" /\ reply[q].status = "APPROVED"
        /\ q \in Placed => pc[q] = "done"
        /\ answer[q].kind # "none" => pc[q] = "done"
        /\ answer[q].kind \in FreeKinds => st[q] \in {"none", "received"}
    /\ \A x \in Cancels : cpc[x] = "cancelling" => target[x] \in Placed

\* The payment behind an order is for what its request asked for: the order has
\* the basket's lines, its total is what they come to, and the payment is of
\* that total, even where another try of the key made it (service.py:58-90).
Subtotals(lines) ==
    LET sum[n \in 0..Len(lines)] ==
          IF n = 0 THEN 0 ELSE sum[n - 1] + lines[n].unit * lines[n].qty
    IN sum
LinesTotal(lines) == Subtotals(lines)[Len(lines)]

IsBasket(lines, basket) ==
    /\ Len(lines) = Len(basket)
    /\ \A i \in DOMAIN lines :
        lines[i].sku = basket[i].sku /\ lines[i].qty = basket[i].qty

PaymentsMatchTotals ==
    \A o \in Placed :
        /\ IsBasket(orders[o].lines, ask[o].basket)
        /\ orders[o].total = LinesTotal(orders[o].lines)
        /\ call[orders[o].auth].amount = orders[o].total

\* One downstream key takes at most one payment: "Nothing is charged twice"
\* (contracts/orders.v1.yaml:84-85).
ChargedOncePerKey ==
    \A c, d \in ledger : call[c].key = call[d].key => c = d

\* What keeps the event loop to it: nothing comes between its lookup and its
\* record, and its table knows every payment, whatever orders, its crashes and
\* its broken connections do meanwhile (server.ts:43-45, 96-141).
TableKnowsPayments == P!TableKnowsPayments

\* The table never changes its mind about a key (server.py:61-63, 116-118).
AnswersAreStable == P!AnswersAreStable

\* "Same key, seen before -> the original order" (orders.v1.yaml:84): once a
\* key has its order, a request with that key does not end in an internal
\* error.
SeenKeysAreReplayed ==
    [][\A q \in Requests :
         pc[q] = "persist" /\ KeyTaken(ask[q].key) /\ pc'[q] = "done"
           => answer'[q].kind = "confirmed"]_vars

\* What is committed stays: no later step of any handler changes a placed
\* order, except that it is cancelled once, or moves a key to another order.
CommittedIsForever ==
    [][/\ \A o \in Placed :
            orders'[o] \in {orders[o], [orders[o] EXCEPT !.status = "CANCELLED"]}
       /\ \A k \in Keys : idem[k] # None => idem'[k] = idem[k]]_vars

\* A cancel that begins after another was acknowledged is over at once and told
\* that the order is not cancellable (orders.v1.yaml, 409), unless its own read
\* of the order fails: it never cancels the order again.
LaterCancelsAreRefused ==
    [][\A x, y \in Cancels :
         canswer[y] = "cancelled" /\ cpc[x] = "idle" /\ cpc'[x] # "idle"
           /\ target'[x] = target[y]
         => /\ cpc'[x] = "done"
            /\ \/ canswer'[x] = "order-not-cancellable"
               \/ CancelReadFails(x, target[y])]_vars

\* Every checkout that arrives is answered, unless the process crashes: with one
\* payments worker and no deadline anywhere, it gets its answer behind slow calls,
\* calls whose callers have gone and restarts of payments (payments_client.py:156,
\* server.py:79-84).
CheckoutsEnd == \A q \in Requests : pc[q] # "idle" ~> Over(q)

\* A decline is "a decision that will never change" (payments_client.py:176-179):
\* once a try of a key was declined no try of it is confirmed, nor was one before,
\* even if the price falls or the basket is another one by then.  It rests on the
\* table of payments, so it is claimed where the table knows every answer: of an
\* event loop without latency.
DeclinesAreFinal ==
    \A q, r \in Requests :
        ask[q].key # NoKey /\ ask[q].key = ask[r].key
          /\ answer[q].kind = "payment-declined"
        => answer[r].kind # "confirmed" /\ idem[ask[q].key] = None

\* The orders service implements the order book.
Book == INSTANCE OrderBook WITH
            OrderIds <- Requests,
            status <- [o \in Requests |-> orders[o].status],
            named <- idem,
            paid <- {call[c].key : c \in ledger}
BookSpec == Book!Spec
=============================================================================
