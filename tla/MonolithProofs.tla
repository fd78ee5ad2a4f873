--------------------------- MODULE MonolithProofs ---------------------------
(***************************************************************************)
(* Theorems about Monolith for every catalog, every set of requests and    *)
(* both ways of cancelling, checked by TLAPS.                              *)
(***************************************************************************)
EXTENDS Monolith, FiniteSetTheorems, TLAPS

-----------------------------------------------------------------------------
(***************************************************************************)
(* Baskets.                                                                *)
(***************************************************************************)

\* A basket that a row may hold: quantities of at least one.
GoodLines(b) == b \in Baskets \cup {<<>>} /\ \A i \in DOMAIN b : b[i].qty >= 1

\* A basket is a sequence of items with whole quantities.
LEMMA BasketItems ==
    ASSUME NEW b \in Baskets \cup {<<>>}
    PROVE  /\ Len(b) \in Nat /\ DOMAIN b = 1..Len(b)
           /\ \A i \in 1..Len(b) : b[i].qty \in Int
<1>1. CASE b \in Baskets
  <2>1. b \in Seq([sku : {b[i].sku : i \in DOMAIN b}, qty : Int])
    BY <1>1, MonolithAssumption
  <2> DEFINE S == [sku : {b[i].sku : i \in DOMAIN b}, qty : Int]
  <2>2. b \in Seq(S)
    BY <2>1
  <2>3. \A it \in S : it.qty \in Int
    OBVIOUS
  <2> HIDE DEF S
  <2>4. Len(b) \in Nat /\ DOMAIN b = 1..Len(b) /\ \A i \in 1..Len(b) : b[i] \in S
    BY <2>2
  <2> QED
    BY <2>3, <2>4
<1>2. CASE b = <<>>
  BY <1>2
<1> QED
  BY <1>1, <1>2

\* What an order holds of a product is a number of units.
LEMMA UnitsType ==
    ASSUME NEW b, GoodLines(b), NEW s
    PROVE  Units(b, s) \in Nat
<1>1. CASE \E i \in DOMAIN b : b[i].sku = s
  <2>1. PICK k \in DOMAIN b : k = CHOOSE i \in DOMAIN b : b[i].sku = s
    BY <1>1
  <2>2. b[k].qty \in Int /\ b[k].qty >= 1
    BY <2>1, BasketItems DEF GoodLines
  <2> QED
    BY <1>1, <2>1, <2>2 DEF Units
<1>2. CASE ~(\E i \in DOMAIN b : b[i].sku = s)
  BY <1>2 DEF Units
<1> QED
  BY <1>1, <1>2

-----------------------------------------------------------------------------
(***************************************************************************)
(* The inductive invariant: what the properties say of the committed       *)
(* database needs what the open transaction has done so far, and how far   *)
(* each handler has got.                                                   *)
(***************************************************************************)

\* A cancel reads inside its transaction exactly if the code does, and a
\* transaction that has only read has written nothing.
ReadersHold ==
    /\ \A h \in Handlers : pc[h] = "reading" => IF ReadInTx THEN holder = h ELSE holder # h
    /\ holder # None /\ pc[holder] \in {"reading", "releasing"} => work = db

\* Every list of items that is stored or remembered has quantities above zero.
LinesAreGood ==
    /\ \A o \in Checkouts : GoodLines(db.orders[o].lines) /\ GoodLines(work.orders[o].lines)
    /\ \A x \in Cancels : GoodLines(seen[x].lines)

\* A row that exists is whole: its checkout's own basket, paid for.
Whole(row, o) ==
    row.status # "none" =>
        /\ row.lines = basket[o] /\ ~Repeats(row.lines)
        /\ \A i \in DOMAIN row.lines : row.lines[i].sku \in Products
        /\ row.paid = row.total /\ ~Declined(row.total)
RowsAreWhole ==
    \A o \in Checkouts : /\ Whole(db.orders[o], o)
                         /\ pc[o] # "charging" => Whole(work.orders[o], o)

\* The open transaction undoes nothing that is committed.
WorkExtends ==
    \A o \in Checkouts :
        /\ work.orders[o].status = "none" => db.orders[o].status = "none"
        /\ db.orders[o].status = "CANCELLED" => work.orders[o].status = "CANCELLED"
        /\ pc[o] \notin {"charging", "commit"} /\ db.orders[o].status = "none" =>
               work.orders[o].status = "none"

\* Before its commit a checkout has no order; what it has reserved and written
\* so far is what its answer will say.
CheckoutsAreSound ==
    \A q \in Checkouts :
        /\ pc[q] \notin {"reading", "releasing"}
        /\ pc[q] \in {"idle", "waiting"} => cart[q] = NoCart
        /\ pc[q] \in {"idle", "waiting", "reserving", "charging", "commit"} =>
               db.orders[q].status = "none"
        /\ pc[q] \in {"waiting", "reserving", "charging", "commit"} => Valid(basket[q])
        /\ pc[q] = "reserving" =>
               /\ cart[q].n <= Len(basket[q])
               /\ \A i \in 1..cart[q].n : basket[q][i].sku \in Products
        /\ pc[q] = "charging" =>
               /\ work.orders[q] = [status |-> "CONFIRMED", lines |-> basket[q],
                                    total |-> cart[q].total, paid |-> 0]
               /\ ~Repeats(basket[q])
               /\ \A i \in DOMAIN basket[q] : basket[q][i].sku \in Products
        /\ pc[q] = "commit" => work.orders[q].status # "none"
        /\ pc[q] = "committed" /\ ~ResetDb => db.orders[q].status # "none"
        /\ answer[q] # "none" => pc[q] = "done"

\* A cancel that is about to release has seen its order, and one that is about
\* to answer has cancelled it.
CancelsAreSound ==
    \A x \in Cancels :
        /\ pc[x] # "idle" => target[x] \in Checkouts
        /\ pc[x] = "releasing" \/ (pc[x] = "waiting" /\ ~ReadInTx) =>
               db.orders[target[x]].status # "none"
        /\ pc[x] = "commit" => work.orders[target[x]].status = "CANCELLED"
        /\ pc[x] = "committed" /\ ~ResetDb => db.orders[target[x]].status = "CANCELLED"
        /\ answer[x] # "none" => pc[x] = "done"

MInv == /\ MTypeOK /\ OneWriter /\ AnswersAreTrue /\ ReadersHold /\ LinesAreGood
        /\ RowsAreWhole /\ WorkExtends
        /\ CheckoutsAreSound /\ CancelsAreSound

\* RowsAreWhole is OrdersAreWholeAndPaid, and more.
LEMMA WholeImplies == RowsAreWhole => OrdersAreWholeAndPaid
BY DEF RowsAreWhole, Whole, OrdersAreWholeAndPaid, Placed

\* The seeded database satisfies it.
LEMMA MInitInv == Init => MInv
<1> SUFFICES ASSUME Init PROVE MInv
  OBVIOUS
<1> USE DEF Init, Handlers, Empty, NoRow
<1>1. NoRow \in Row /\ GoodLines(<<>>)
  BY DEF Row, GoodLines
<1>2. MTypeOK
  BY <1>1, MonolithAssumption
     DEF MTypeOK, Database, NoCart, Kinds, InTx, Ended
<1>3. OneWriter /\ AnswersAreTrue /\ ReadersHold
  BY MonolithAssumption DEF OneWriter, InTx, AnswersAreTrue, ReadersHold
<1>4. LinesAreGood
  BY <1>1 DEF LinesAreGood
<1>5. RowsAreWhole /\ WorkExtends
  BY DEF RowsAreWhole, Whole, WorkExtends
<1>6. CheckoutsAreSound /\ CancelsAreSound
  BY DEF CheckoutsAreSound, CancelsAreSound, NoCart
<1> QED
  BY <1>2, <1>3, <1>4, <1>5, <1>6 DEF MInv

-----------------------------------------------------------------------------
(***************************************************************************)
(* Each step keeps it.                                                     *)
(***************************************************************************)

\* The answers that mean that nothing was done.
Problems == Kinds \ {"none", "confirmed", "cancelled"}

\* A handler that fails before its commit leaves the database as it was, and
\* the next transaction finds it so.
LEMMA FailInv ==
    ASSUME MInv, NEW h \in Handlers, NEW kind \in Problems, Fail(h, kind),
           pc[h] \in {"waiting", "reserving", "charging", "reading", "commit"},
           UNCHANGED <<basket, cart, target, seen>>
    PROVE  MInv'
<1> USE DEF MInv
<1>1. /\ pc' = [pc EXCEPT ![h] = "done"] /\ answer' = [answer EXCEPT ![h] = kind]
      /\ holder' = (IF holder = h THEN None ELSE holder)
      /\ work' = (IF holder = h THEN db ELSE work) /\ db' = db
  BY DEF Fail
<1>2. MTypeOK'
  BY <1>1 DEF MTypeOK, Ended, Problems
<1>3. \A i \in Handlers \ {h} : pc'[i] = pc[i] /\ answer'[i] = answer[i]
  BY <1>1 DEF MTypeOK
<1>4. pc'[h] = "done" /\ h # None
  BY <1>1, MonolithAssumption DEF MTypeOK
<1>5. \A i \in Handlers \ {h} : pc[i] \in InTx \ {"reading"} => work' = work
  BY <1>1 DEF OneWriter
<1>6. OneWriter'
  BY <1>1, <1>3, <1>4 DEF OneWriter, InTx, MTypeOK
<1>7. ReadersHold'
  BY <1>1, <1>3, <1>4, MonolithAssumption DEF ReadersHold, MTypeOK
<1>8. LinesAreGood'
  BY <1>1 DEF LinesAreGood
<1>9. RowsAreWhole' /\ WorkExtends'
  <2>1. \A o \in Checkouts \ {h} : pc'[o] = pc[o]
    BY <1>3 DEF Handlers
  <2>2. CASE holder = h
    BY <1>1, <2>2 DEF RowsAreWhole, WorkExtends, Whole
  <2>3. CASE holder # h
    <3>1. h \in Checkouts => pc[h] \notin {"charging", "commit"}
      BY <2>3 DEF OneWriter, InTx
    <3> QED
      BY <1>1, <2>1, <2>3, <3>1 DEF RowsAreWhole, WorkExtends, Whole
  <2> QED
    BY <2>2, <2>3
<1>10. CheckoutsAreSound'
  BY <1>1 DEF CheckoutsAreSound, OneWriter, InTx, MTypeOK, Handlers, WorkExtends
<1>11. CancelsAreSound'
  BY <1>1, <1>3, <1>4, <1>5 DEF CancelsAreSound, InTx, Handlers
<1>12. AnswersAreTrue'
  <2>1. answer'[h] = kind /\ kind \notin {"none", "confirmed", "cancelled"}
    BY <1>1 DEF MTypeOK, Problems
  <2>2. h \in Checkouts => db.orders[h].status = "none"
    BY DEF CheckoutsAreSound
  <2> QED
    BY <1>1, <1>3, <2>1, <2>2 DEF AnswersAreTrue, Placed, Handlers
<1> QED
  BY <1>2, <1>6, <1>7, <1>8, <1>9, <1>10, <1>11, <1>12

\* What a step of one handler leaves alone of the others.
LEMMA GotoOthers ==
    ASSUME MTypeOK, NEW h \in Handlers, NEW step, Goto(h, step)
    PROVE  /\ pc'[h] = step /\ answer' = answer
           /\ \A i \in Handlers \ {h} : pc'[i] = pc[i]
BY DEF Goto, MTypeOK

\* The lock goes to one handler, which finds nothing pending.
LEMMA BeginInv ==
    ASSUME MInv, NEW h \in Handlers, Begin(h)
    PROVE  MInv'
<1> USE DEF MInv
<1>1. /\ pc[h] = "waiting" /\ holder = None /\ holder' = h /\ work = db
      /\ UNCHANGED <<basket, cart, target, seen, db, work, answer>>
  BY DEF Begin, Goto, OneWriter
<1>2. /\ pc'[h] = FirstStep(h) /\ \A i \in Handlers \ {h} : pc'[i] = pc[i]
  BY GotoOthers DEF Begin
<1>3. FirstStep(h) \in InTx /\ FirstStep(h) \in {"reserving", "reading", "releasing"}
  BY DEF FirstStep, InTx
<1>4. MTypeOK'
  BY <1>1, <1>3 DEF Begin, Goto, MTypeOK
<1>5. OneWriter'
  <2>1. \A i \in Handlers : pc[i] \notin InTx \ {"reading"}
    BY <1>1, MonolithAssumption DEF OneWriter
  <2> QED
    BY <1>1, <1>2, <1>3, <2>1, MonolithAssumption DEF OneWriter
<1>6. ReadersHold'
  BY <1>1, <1>2, <1>3, MonolithAssumption DEF ReadersHold, FirstStep, Handlers
<1>7. LinesAreGood' /\ RowsAreWhole' /\ WorkExtends'
  BY <1>1, <1>2, <1>3 DEF LinesAreGood, RowsAreWhole, WorkExtends, Whole, Handlers
<1>8. CheckoutsAreSound'
  <2>1. h \in Checkouts => FirstStep(h) = "reserving"
    BY DEF FirstStep
  <2>2. h \in Checkouts => cart[h].n <= Len(basket[h]) /\ 1..cart[h].n = {}
    <3>1. h \in Checkouts => cart[h].n = 0
      <4>1. h \in Checkouts => cart[h] = NoCart
        BY <1>1, Zenon DEF CheckoutsAreSound
      <4> QED
        BY <4>1 DEF NoCart
    <3>2. ASSUME h \in Checkouts PROVE Len(basket[h]) \in Nat
      <4>1. basket[h] \in Baskets \cup {<<>>}
        BY <3>2 DEF MTypeOK
      <4> QED
        BY <4>1, BasketItems, Zenon
    <3>3. h \in Checkouts => Len(basket[h]) \in Nat
      BY <3>2
    <3> QED
      BY <3>1, <3>3
  <2> QED
    BY <1>1, <1>2, <2>1, <2>2 DEF CheckoutsAreSound, Handlers
<1>9. CancelsAreSound'
  <2>1. h \in Cancels => FirstStep(h) = IF ReadInTx THEN "reading" ELSE "releasing"
    BY MonolithAssumption DEF FirstStep
  <2> QED
    BY <1>1, <1>2, <2>1 DEF CancelsAreSound, Handlers
<1>10. AnswersAreTrue'
  BY <1>1 DEF AnswersAreTrue, Placed
<1> QED
  BY <1>4, <1>5, <1>6, <1>7, <1>8, <1>9, <1>10

\* What the holder of the lock has written becomes what everybody sees.
LEMMA CommitInv ==
    ASSUME MInv, NEW h \in Handlers, Commit(h)
    PROVE  MInv'
<1> USE DEF MInv
<1>1. /\ pc[h] = "commit" /\ holder = h /\ holder' = None /\ db' = work /\ work' = work
      /\ UNCHANGED <<basket, cart, target, seen, answer>>
  BY DEF Commit, Goto, OneWriter, InTx
<1>2. /\ pc'[h] = "committed" /\ \A i \in Handlers \ {h} : pc'[i] = pc[i]
  BY GotoOthers DEF Commit
<1>3. \A i \in Handlers \ {h} : pc[i] \notin InTx \ {"reading"}
  BY <1>1 DEF OneWriter
<1>4. MTypeOK'
  BY <1>1 DEF Commit, Goto, MTypeOK
<1>5. OneWriter'
  BY <1>1, <1>2, <1>3, MonolithAssumption DEF OneWriter, InTx, MTypeOK
<1>6. ReadersHold'
  BY <1>1, <1>2, MonolithAssumption DEF ReadersHold
<1>7. LinesAreGood'
  BY <1>1 DEF LinesAreGood
<1>8. RowsAreWhole' /\ WorkExtends'
  BY <1>1, <1>2, <1>3 DEF RowsAreWhole, WorkExtends, Whole, InTx, Handlers
<1>9. \A o \in Checkouts \ {h} : db.orders[o].status = "none" => work.orders[o].status = "none"
  BY <1>3 DEF WorkExtends, InTx, Handlers
<1>10. CheckoutsAreSound'
  BY <1>1, <1>2, <1>3, <1>9 DEF CheckoutsAreSound, WorkExtends, InTx, Handlers
<1>11. CancelsAreSound'
  BY <1>1, <1>2, <1>3 DEF CancelsAreSound, WorkExtends, InTx, Handlers
<1>12. AnswersAreTrue'
  <2>1. \A q \in Checkouts : answer[q] # "none" => q # h
    BY <1>1 DEF CheckoutsAreSound
  <2> QED
    BY <1>1, <1>9, <2>1 DEF AnswersAreTrue, Placed, WorkExtends, CancelsAreSound
<1> QED
  BY <1>4, <1>5, <1>6, <1>7, <1>8, <1>10, <1>11, <1>12

\* A good answer is given after the commit, and says what was committed.
LEMMA ReplyInv ==
    ASSUME MInv, NEW h \in Handlers, Reply(h)
    PROVE  MInv'
<1> USE DEF MInv
<1>1. /\ pc[h] = "committed" /\ UNCHANGED <<basket, cart, target, seen, db, work, holder>>
  BY DEF Reply
<1>2. /\ pc'[h] = "done" /\ answer'[h] = IF h \in Checkouts THEN "confirmed" ELSE "cancelled"
      /\ \A i \in Handlers \ {h} : pc'[i] = pc[i] /\ answer'[i] = answer[i]
  BY DEF Reply, MTypeOK
<1>3. holder # h
  BY <1>1, MonolithAssumption DEF OneWriter, InTx
<1>4. MTypeOK'
  BY <1>1 DEF Reply, MTypeOK, Ended, Kinds
<1>5. OneWriter' /\ ReadersHold'
  BY <1>1, <1>2, <1>3 DEF OneWriter, ReadersHold, InTx, MTypeOK
<1>6. LinesAreGood' /\ RowsAreWhole' /\ WorkExtends'
  BY <1>1, <1>2 DEF LinesAreGood, RowsAreWhole, WorkExtends, Whole, Handlers
<1>7. CheckoutsAreSound' /\ CancelsAreSound'
  BY <1>1, <1>2 DEF CheckoutsAreSound, CancelsAreSound, Handlers
<1>8. AnswersAreTrue'
  <2>1. h \in Checkouts /\ ~ResetDb => Placed(h)
    BY <1>1 DEF CheckoutsAreSound, Placed
  <2>2. h \in Cancels /\ ~ResetDb => db.orders[target[h]].status = "CANCELLED"
    BY <1>1 DEF CancelsAreSound
  <2>3. h \in Checkouts <=> answer'[h] = "confirmed"
    BY <1>2
  <2> QED
    BY <1>1, <1>2, <2>1, <2>2, <2>3 DEF AnswersAreTrue, Placed, Handlers
<1> QED
  BY <1>4, <1>5, <1>6, <1>7, <1>8

\* A request that arrives has written nothing; a bad one is refused at once.
LEMMA ArriveInv ==
    ASSUME MInv, NEW q \in Checkouts, Arrive(q)
    PROVE  MInv'
<1> USE DEF MInv
<1>1. PICK b \in Baskets :
          /\ basket' = [basket EXCEPT ![q] = b]
          /\ \/ /\ Valid(b)
                /\ Goto(q, "waiting") /\ UNCHANGED <<db, work, holder>>
             \/ Fail(q, "validation-failed")
  BY DEF Arrive
<1>2. pc[q] = "idle" /\ UNCHANGED <<cart, target, seen>>
  BY DEF Arrive
<1>3. holder # q /\ q \in Handlers /\ q \notin Cancels
  BY <1>2, MonolithAssumption DEF OneWriter, InTx, Handlers
<1>4. UNCHANGED <<db, work, holder>>
  BY <1>1, <1>3 DEF Fail
<1>5. /\ basket'[q] = b /\ \A o \in Checkouts \ {q} : basket'[o] = basket[o]
      /\ \/ pc'[q] = "waiting" /\ Valid(b) /\ answer' = answer
         \/ pc'[q] = "done" /\ answer'[q] = "validation-failed"
      /\ \A h \in Handlers \ {q} : pc'[h] = pc[h] /\ answer'[h] = answer[h]
  BY <1>1, <1>3 DEF Goto, Fail, MTypeOK
<1>6. MTypeOK'
  BY <1>1, <1>2, <1>3, <1>4 DEF MTypeOK, Goto, Fail, Ended, Kinds
<1>7. OneWriter' /\ ReadersHold'
  BY <1>3, <1>4, <1>5 DEF OneWriter, ReadersHold, InTx, MTypeOK
<1>8. LinesAreGood'
  BY <1>2, <1>4 DEF LinesAreGood
<1>9. db.orders[q].status = "none" /\ work.orders[q].status = "none"
  BY <1>2 DEF CheckoutsAreSound, WorkExtends
<1>10. RowsAreWhole' /\ WorkExtends'
  BY <1>3, <1>4, <1>5, <1>9 DEF RowsAreWhole, WorkExtends, Whole, Handlers
<1>11. CheckoutsAreSound'
  <2>1. cart[q] = NoCart
    BY <1>2 DEF CheckoutsAreSound
  <2>2. \A o \in Checkouts \ {q} : /\ pc'[o] = pc[o] /\ answer'[o] = answer[o]
                                  /\ basket'[o] = basket[o]
    BY <1>5 DEF Handlers
  <2>3. \A o \in Checkouts \ {q} : answer'[o] # "none" => pc'[o] = "done"
    BY <2>2 DEF CheckoutsAreSound
  <2>4. answer'[q] # "none" => pc'[q] = "done"
    BY <1>2, <1>5 DEF CheckoutsAreSound
  <2>5. pc'[q] \in {"waiting", "done"} /\ (pc'[q] = "waiting" => Valid(basket'[q]))
    BY <1>5
  <2>6. cart' = cart /\ db' = db /\ work' = work
    BY <1>2, <1>4
  <2> QED
    BY <1>9, <2>1, <2>2, <2>3, <2>4, <2>5, <2>6 DEF CheckoutsAreSound
<1>12. CancelsAreSound'
  BY <1>2, <1>3, <1>4, <1>5 DEF CancelsAreSound, Handlers
<1>13. AnswersAreTrue'
  BY <1>2, <1>3, <1>4, <1>5, <1>9 DEF AnswersAreTrue, Placed, Handlers
<1> QED
  BY <1>6, <1>7, <1>8, <1>10, <1>11, <1>12, <1>13

\* A reservation takes what there is, for the holder of the lock only.
LEMMA ReserveInv ==
    ASSUME MInv, NEW q \in Checkouts, Reserve(q)
    PROVE  MInv'
<1> USE DEF MInv
<1> DEFINE s == basket[q][cart[q].n + 1].sku
           n == basket[q][cart[q].n + 1].qty
<1>1. /\ pc[q] = "reserving" /\ cart[q].n < Len(basket[q])
      /\ s \in Products /\ work.stock[s] >= n
      /\ work' = [work EXCEPT !.stock[s] = @ - n]
      /\ cart' = [cart EXCEPT ![q] = [n |-> @.n + 1, total |-> @.total + Price[s] * n]]
      /\ UNCHANGED <<pc, answer, basket, target, seen, db, holder>>
  BY DEF Reserve, Unreserved, Item
<1>2. basket[q] \in Baskets \cup {<<>>} /\ cart[q].n \in Nat /\ cart[q].total \in Int
  BY DEF MTypeOK
<1>3. Len(basket[q]) \in Nat /\ \A i \in 1..Len(basket[q]) : basket[q][i].qty \in Int
  BY <1>2, BasketItems
<1>4. n \in Int /\ Price[s] \in Nat /\ work.stock[s] \in Nat
  <2>1. cart[q].n + 1 \in 1..Len(basket[q])
    BY <1>1, <1>2, <1>3
  <2>2. n \in Int
    BY <1>3, <2>1
  <2>3. Price[s] \in Nat
    BY <1>1, MonolithAssumption
  <2>4. work.stock[s] \in Nat
    BY <1>1 DEF MTypeOK, Database
  <2> QED
    BY <2>2, <2>3, <2>4
<1> HIDE DEF s, n
<1>5. Price[s] * n \in Int /\ work.stock[s] - n \in Nat
  BY <1>1, <1>4
<1>6. work'.orders = work.orders /\ work'.stock = [work.stock EXCEPT ![s] = @ - n]
      /\ work' \in Database
  BY <1>1, <1>5 DEF MTypeOK, Database
<1>7. /\ cart'[q].n = cart[q].n + 1 /\ \A o \in Checkouts \ {q} : cart'[o] = cart[o]
      /\ cart' \in [Checkouts -> [n : Nat, total : Int]]
  BY <1>1, <1>2, <1>5 DEF MTypeOK
<1>8. MTypeOK'
  BY <1>1, <1>6, <1>7 DEF MTypeOK
<1>9. holder = q
  BY <1>1 DEF OneWriter, InTx, Handlers
<1>10. OneWriter' /\ ReadersHold'
  BY <1>1, <1>9, MonolithAssumption DEF OneWriter, ReadersHold, Handlers
<1>11. LinesAreGood' /\ RowsAreWhole' /\ WorkExtends' /\ CancelsAreSound'
  BY <1>1, <1>6 DEF LinesAreGood, RowsAreWhole, WorkExtends, Whole, CancelsAreSound
<1>12. CheckoutsAreSound'
  <2>1. \A i \in 1..cart'[q].n : basket[q][i].sku \in Products
    <3> SUFFICES ASSUME NEW i \in 1..cart'[q].n PROVE basket[q][i].sku \in Products
      OBVIOUS
    <3>1. i \in 1..cart[q].n \/ i = cart[q].n + 1
      BY <1>2, <1>7
    <3> QED
      BY <1>1, <3>1 DEF CheckoutsAreSound, s
  <2>2. cart'[q].n <= Len(basket[q])
    BY <1>1, <1>2, <1>3, <1>7
  <2>3. \A o \in Checkouts \ {q} : pc[o] \notin {"charging", "commit"}
    BY <1>9 DEF OneWriter, InTx, Handlers
  <2> QED
    BY <1>1, <1>6, <1>7, <2>1, <2>2, <2>3 DEF CheckoutsAreSound
<1>13. AnswersAreTrue'
  BY <1>1 DEF AnswersAreTrue, Placed
<1> QED
  BY <1>8, <1>10, <1>11, <1>12, <1>13

\* The order is written for what was reserved; it is not paid for yet.
LEMMA WriteOrderInv ==
    ASSUME MInv, NEW q \in Checkouts, WriteOrder(q)
    PROVE  MInv'
<1> USE DEF MInv
<1> DEFINE row == [status |-> "CONFIRMED", lines |-> basket[q],
                   total |-> cart[q].total, paid |-> 0]
<1>1. /\ pc[q] = "reserving" /\ cart[q].n = Len(basket[q]) /\ ~Repeats(basket[q])
      /\ work' = [work EXCEPT !.orders[q] = row]
      /\ Goto(q, "charging")
      /\ UNCHANGED <<basket, cart, target, seen, db, holder>>
  BY DEF WriteOrder
<1>2. q \in Handlers /\ q \notin Cancels
  BY MonolithAssumption DEF Handlers
<1>3. holder = q
  BY <1>1, <1>2 DEF OneWriter, InTx
<1>4. /\ pc'[q] = "charging" /\ answer' = answer
      /\ \A h \in Handlers \ {q} : pc'[h] = pc[h]
  BY <1>1, <1>2, GotoOthers
<1>5. \A h \in Handlers \ {q} : pc[h] \notin InTx \ {"reading"}
  BY <1>3 DEF OneWriter
<1>6. basket[q] \in Baskets \cup {<<>>}
  BY DEF MTypeOK
<1>7. row \in Row
  BY <1>6 DEF MTypeOK, Row
<1> HIDE DEF row
<1>8. /\ work' \in Database /\ work'.stock = work.stock /\ work'.orders[q] = row
      /\ \A o \in Checkouts \ {q} : work'.orders[o] = work.orders[o]
  BY <1>1, <1>7 DEF MTypeOK, Database
<1>9. MTypeOK'
  BY <1>1, <1>8 DEF MTypeOK, Goto, InTx
<1>10. OneWriter' /\ ReadersHold'
  BY <1>1, <1>2, <1>3, <1>4, MonolithAssumption DEF OneWriter, ReadersHold, InTx
<1>11. DOMAIN basket[q] = 1..Len(basket[q])
  BY <1>6, BasketItems
<1>12. \A k \in DOMAIN basket[q] : basket[q][k].sku \in Products /\ basket[q][k].qty >= 1
  BY <1>1, <1>11 DEF CheckoutsAreSound, Valid
<1>13. LinesAreGood'
  BY <1>1, <1>6, <1>8, <1>12 DEF LinesAreGood, GoodLines, row
<1>14. RowsAreWhole' /\ WorkExtends'
  BY <1>1, <1>2, <1>4, <1>5, <1>8
     DEF RowsAreWhole, WorkExtends, Whole, Handlers, CheckoutsAreSound, row, InTx
<1>15. CheckoutsAreSound'
  <2>1. \A o \in Checkouts \ {q} : pc'[o] = pc[o]
    BY <1>4 DEF Handlers
  <2> QED
    BY <1>1, <1>4, <1>8, <1>12, <2>1 DEF CheckoutsAreSound, row
<1>16. CancelsAreSound'
  <2>1. \A x \in Cancels : pc'[x] = pc[x] /\ pc[x] # "commit"
    BY <1>2, <1>4, <1>5 DEF Handlers, InTx
  <2> QED
    BY <1>1, <1>4, <2>1 DEF CancelsAreSound
<1>17. AnswersAreTrue'
  BY <1>1, <1>4 DEF AnswersAreTrue, Placed
<1> QED
  BY <1>9, <1>10, <1>13, <1>14, <1>15, <1>16, <1>17

\* The card is charged for the total of the order, and the order is whole.
LEMMA ChargeInv ==
    ASSUME MInv, NEW q \in Checkouts, Charge(q)
    PROVE  MInv'
<1> USE DEF MInv
<1> DEFINE row == [status |-> "CONFIRMED", lines |-> basket[q],
                   total |-> cart[q].total, paid |-> cart[q].total]
<1>1. /\ pc[q] = "charging" /\ ~Declined(cart[q].total)
      /\ work' = [work EXCEPT !.orders[q].paid = cart[q].total]
      /\ Goto(q, "commit")
      /\ UNCHANGED <<basket, cart, target, seen, db, holder>>
  BY DEF Charge
<1>2. q \in Handlers /\ q \notin Cancels
  BY MonolithAssumption DEF Handlers
<1>3. holder = q
  BY <1>1, <1>2 DEF OneWriter, InTx
<1>4. /\ pc'[q] = "commit" /\ answer' = answer
      /\ \A h \in Handlers \ {q} : pc'[h] = pc[h]
  BY <1>1, <1>2, GotoOthers
<1>5. \A h \in Handlers \ {q} : pc[h] \notin InTx \ {"reading"}
  BY <1>3 DEF OneWriter
<1>6. /\ work.orders[q] = [status |-> "CONFIRMED", lines |-> basket[q],
                           total |-> cart[q].total, paid |-> 0]
      /\ ~Repeats(basket[q])
      /\ \A k \in DOMAIN basket[q] : basket[q][k].sku \in Products
  BY <1>1 DEF CheckoutsAreSound
<1>7. row \in Row
  BY DEF MTypeOK, Row
<1>8. /\ work' \in Database /\ work'.stock = work.stock /\ work'.orders[q] = row
      /\ \A o \in Checkouts \ {q} : work'.orders[o] = work.orders[o]
  <2>1. [work.orders[q] EXCEPT !.paid = cart[q].total] = row
    BY <1>6
  <2>2. work' = [work EXCEPT !.orders[q] = row]
    BY <1>1, <2>1 DEF MTypeOK, Database
  <2> HIDE DEF row
  <2> QED
    BY <1>7, <2>2 DEF MTypeOK, Database
<1> HIDE DEF row
<1>9. MTypeOK'
  BY <1>1, <1>8 DEF MTypeOK, Goto, InTx
<1>10. OneWriter' /\ ReadersHold'
  BY <1>1, <1>2, <1>3, <1>4, MonolithAssumption DEF OneWriter, ReadersHold, InTx
<1>11. LinesAreGood'
  BY <1>1, <1>6, <1>8 DEF LinesAreGood, row
<1>12. RowsAreWhole' /\ WorkExtends'
  <2>1. Whole(row, q)' /\ db.orders[q].status = "none"
    BY <1>1, <1>6 DEF Whole, row, CheckoutsAreSound
  <2>2. \A o \in Checkouts \ {q} : pc'[o] = pc[o] /\ pc[o] \notin {"charging", "commit"}
    BY <1>4, <1>5 DEF Handlers, InTx
  <2> QED
    BY <1>1, <1>4, <1>8, <2>1, <2>2 DEF RowsAreWhole, WorkExtends, Whole, row
<1>13. CheckoutsAreSound'
  <2>1. \A o \in Checkouts \ {q} : pc'[o] = pc[o]
    BY <1>4 DEF Handlers
  <2> QED
    BY <1>1, <1>4, <1>8, <2>1 DEF CheckoutsAreSound, row
<1>14. CancelsAreSound'
  <2>1. \A x \in Cancels : pc'[x] = pc[x] /\ pc[x] # "commit"
    BY <1>2, <1>4, <1>5 DEF Handlers, InTx
  <2> QED
    BY <1>1, <1>4, <2>1 DEF CancelsAreSound
<1>15. AnswersAreTrue'
  BY <1>1, <1>4 DEF AnswersAreTrue, Placed
<1> QED
  BY <1>9, <1>10, <1>11, <1>12, <1>13, <1>14, <1>15

\* A cancel that arrives has done nothing yet.
LEMMA CancelArriveInv ==
    ASSUME MInv, NEW x \in Cancels, NEW o \in Checkouts, CancelArrive(x, o)
    PROVE  MInv'
<1> USE DEF MInv
<1>1. /\ pc[x] = "idle" /\ target' = [target EXCEPT ![x] = o]
      /\ Goto(x, IF ReadInTx THEN "waiting" ELSE "reading")
      /\ UNCHANGED <<basket, cart, seen, db, work, holder>>
  BY DEF CancelArrive
<1>2. x \in Handlers /\ x \notin Checkouts /\ holder # x
  BY <1>1, MonolithAssumption DEF Handlers, OneWriter, InTx
<1>3. /\ pc'[x] = (IF ReadInTx THEN "waiting" ELSE "reading") /\ answer' = answer
      /\ \A h \in Handlers \ {x} : pc'[h] = pc[h]
  BY <1>1, <1>2, GotoOthers
<1>4. MTypeOK'
  BY <1>1 DEF MTypeOK, Goto, InTx
<1>5. OneWriter' /\ ReadersHold'
  <2>1. holder # None => holder \in Handlers \ {x}
    BY <1>2 DEF MTypeOK
  <2>2. pc'[x] \in {"waiting", "reading"} /\ (pc'[x] = "reading" <=> ~ReadInTx)
    BY <1>3, MonolithAssumption
  <2> QED
    BY <1>1, <1>2, <1>3, <2>1, <2>2 DEF OneWriter, ReadersHold, InTx
<1>6. LinesAreGood' /\ RowsAreWhole' /\ WorkExtends' /\ CheckoutsAreSound'
  <2>1. \A q \in Checkouts : pc'[q] = pc[q]
    BY <1>2, <1>3 DEF Handlers
  <2> QED
    BY <1>1, <1>3, <2>1
       DEF LinesAreGood, RowsAreWhole, WorkExtends, Whole, CheckoutsAreSound
<1>7. target'[x] = o /\ \A y \in Cancels \ {x} : target'[y] = target[y] /\ pc'[y] = pc[y]
  BY <1>1, <1>3 DEF MTypeOK, Handlers
<1>8. CancelsAreSound'
  BY <1>1, <1>3, <1>7 DEF CancelsAreSound
<1>9. AnswersAreTrue'
  <2>1. answer[x] = "none"
    BY <1>1 DEF CancelsAreSound
  <2> QED
    BY <1>1, <1>3, <1>7, <2>1 DEF AnswersAreTrue, Placed
<1> QED
  BY <1>4, <1>5, <1>6, <1>8, <1>9

\* A cancel goes on only with an order that exists, as it is in the database
\* or in the transaction that has written nothing yet.
LEMMA ReadOrderInv ==
    ASSUME MInv, NEW x \in Cancels, ReadOrder(x)
    PROVE  MInv'
<1> USE DEF MInv
<1> DEFINE row == Sees(x).orders[target[x]]
           next == IF ReadInTx THEN "releasing" ELSE "waiting"
<1>1. /\ pc[x] = "reading" /\ UNCHANGED <<basket, cart, target>>
      /\ \/ /\ Fail(x, "order-not-found") \/ Fail(x, "order-not-cancellable")
            /\ UNCHANGED seen
         \/ /\ row.status = "CONFIRMED" /\ seen' = [seen EXCEPT ![x] = row]
            /\ Goto(x, next) /\ UNCHANGED <<db, work, holder>>
  BY DEF ReadOrder
<1>2. x \in Handlers /\ x \notin Checkouts /\ target[x] \in Checkouts
  BY <1>1, MonolithAssumption DEF Handlers, CancelsAreSound
<1>3. CASE /\ Fail(x, "order-not-found") \/ Fail(x, "order-not-cancellable")
           /\ UNCHANGED seen
  <2>1. {"order-not-found", "order-not-cancellable"} \subseteq Problems
    BY DEF Problems, Kinds
  <2> QED
    BY <1>1, <1>2, <1>3, <2>1, FailInv
<1>4. CASE /\ row.status = "CONFIRMED" /\ seen' = [seen EXCEPT ![x] = row]
           /\ Goto(x, next) /\ UNCHANGED <<db, work, holder>>
  <2>1. row = db.orders[target[x]]
    BY <1>1, MonolithAssumption DEF ReadersHold, Sees, Handlers
  <2>2. row \in Row /\ GoodLines(row.lines)
    BY <1>2, <2>1 DEF MTypeOK, Database, LinesAreGood
  <2> HIDE DEF row
  <2>3. /\ pc'[x] = next /\ answer' = answer
        /\ \A h \in Handlers \ {x} : pc'[h] = pc[h]
    BY <1>2, <1>4, GotoOthers
  <2>4. MTypeOK'
    BY <1>1, <1>4, <2>2 DEF MTypeOK, Goto, InTx
  <2>5. OneWriter' /\ ReadersHold'
    <3>1. CASE ReadInTx
      <4>1. holder = x /\ work = db /\ pc'[x] = "releasing"
        BY <1>1, <1>2, <2>3, <3>1, MonolithAssumption DEF ReadersHold, Handlers
      <4> QED
        BY <1>2, <1>4, <2>3, <3>1, <4>1, MonolithAssumption DEF OneWriter, ReadersHold, InTx
    <3>2. CASE ~ReadInTx
      <4>1. holder # x /\ pc'[x] = "waiting" /\ (holder # None => holder \in Handlers \ {x})
        BY <1>1, <1>2, <2>3, <3>2 DEF ReadersHold, MTypeOK
      <4> QED
        BY <1>2, <1>4, <2>3, <3>2, <4>1 DEF OneWriter, ReadersHold, InTx
    <3> QED
      BY <3>1, <3>2
  <2>6. LinesAreGood'
    BY <1>4, <2>2 DEF LinesAreGood, MTypeOK
  <2>7. \A q \in Checkouts : pc'[q] = pc[q]
    BY <1>2, <2>3 DEF Handlers
  <2>8. RowsAreWhole' /\ WorkExtends' /\ CheckoutsAreSound' /\ AnswersAreTrue'
    BY <1>1, <1>4, <2>3, <2>7
       DEF RowsAreWhole, WorkExtends, Whole, CheckoutsAreSound, AnswersAreTrue, Placed
  <2>9. db.orders[target[x]].status # "none"
    BY <1>4, <2>1
  <2>10. \A y \in Cancels \ {x} : pc'[y] = pc[y]
    BY <2>3 DEF Handlers
  <2>11. answer[x] = "none"
    BY <1>1 DEF CancelsAreSound
  <2>12. CancelsAreSound'
    BY <1>1, <1>2, <1>4, <2>3, <2>9, <2>10, <2>11 DEF CancelsAreSound
  <2> QED
    BY <2>4, <2>5, <2>6, <2>8, <2>12
<1> QED
  BY <1>1, <1>3, <1>4

\* What is given back and the mark on the order are one write of the holder.
LEMMA ReleaseInv ==
    ASSUME MInv, NEW x \in Cancels, Release(x)
    PROVE  MInv'
<1> USE DEF MInv
<1> DEFINE o == target[x]
           row == [work.orders[o] EXCEPT !.status = "CANCELLED"]
           shelf == [s \in Products |-> work.stock[s] + Units(seen[x].lines, s)]
<1>1. /\ pc[x] = "releasing"
      /\ work' = [stock |-> shelf, orders |-> [work.orders EXCEPT ![o] = row]]
      /\ Goto(x, "commit")
      /\ UNCHANGED <<basket, cart, target, seen, db, holder>>
  BY DEF Release
<1>2. x \in Handlers /\ x \notin Checkouts /\ o \in Checkouts /\ holder = x
  BY <1>1, MonolithAssumption DEF Handlers, CancelsAreSound, OneWriter, InTx
<1>3. /\ pc'[x] = "commit" /\ answer' = answer
      /\ \A h \in Handlers \ {x} : pc'[h] = pc[h]
  BY <1>1, <1>2, GotoOthers
<1>4. \A h \in Handlers \ {x} : pc[h] \notin InTx \ {"reading"}
  BY <1>2 DEF OneWriter
<1>5. db.orders[o].status # "none" /\ work.orders[o].status # "none"
  BY <1>1, <1>2 DEF CancelsAreSound, WorkExtends
<1>6. shelf \in [Products -> Nat]
  <2> SUFFICES ASSUME NEW s \in Products
               PROVE  work.stock[s] + Units(seen[x].lines, s) \in Nat
    OBVIOUS
  <2>1. Units(seen[x].lines, s) \in Nat
    BY UnitsType DEF LinesAreGood
  <2>2. work.stock[s] \in Nat
    BY DEF MTypeOK, Database
  <2> QED
    BY <2>1, <2>2
<1>7. /\ row \in Row /\ row.status = "CANCELLED"
      /\ row.lines = work.orders[o].lines /\ row.total = work.orders[o].total
      /\ row.paid = work.orders[o].paid
  <2>1. work.orders[o] \in Row
    BY <1>2 DEF MTypeOK, Database
  <2> QED
    BY <2>1 DEF Row
<1> HIDE DEF row, shelf, o
<1>8. /\ work' \in Database /\ work'.orders[o] = row
      /\ \A q \in Checkouts \ {o} : work'.orders[q] = work.orders[q]
  BY <1>1, <1>2, <1>6, <1>7 DEF MTypeOK, Database
<1>9. MTypeOK'
  BY <1>1, <1>8 DEF MTypeOK, Goto, InTx
<1>10. OneWriter' /\ ReadersHold'
  BY <1>1, <1>2, <1>3, MonolithAssumption DEF OneWriter, ReadersHold, InTx
<1>11. LinesAreGood'
  BY <1>1, <1>2, <1>7, <1>8 DEF LinesAreGood
<1>12. \A q \in Checkouts : pc'[q] = pc[q] /\ pc[q] \notin {"charging", "commit"}
  BY <1>2, <1>3, <1>4 DEF Handlers, InTx
<1>13. RowsAreWhole' /\ WorkExtends'
  BY <1>1, <1>2, <1>5, <1>7, <1>8, <1>12 DEF RowsAreWhole, WorkExtends, Whole
<1>14. CheckoutsAreSound' /\ AnswersAreTrue'
  BY <1>1, <1>3, <1>12 DEF CheckoutsAreSound, AnswersAreTrue, Placed
<1>15. \A y \in Cancels \ {x} : pc'[y] = pc[y] /\ pc[y] # "commit"
  BY <1>3, <1>4 DEF Handlers, InTx
<1>16. answer[x] = "none"
  BY <1>1 DEF CancelsAreSound
<1>17. CancelsAreSound'
  BY <1>1, <1>2, <1>3, <1>7, <1>8, <1>15, <1>16 DEF CancelsAreSound, o
<1> QED
  BY <1>9, <1>10, <1>11, <1>13, <1>14, <1>17

\* A crash takes the handlers and the open transaction, and with RESET_DB the
\* database: nobody is left who could answer for what is gone.
LEMMA CrashInv == MInv /\ Crash => MInv'
<1> SUFFICES ASSUME MInv, Crash PROVE MInv'
  OBVIOUS
<1> USE DEF MInv
<1>1. /\ \A h \in Handlers : \/ pc[h] \in {"idle", "done", "crashed"} /\ pc'[h] = pc[h]
                             \/ pc[h] \notin {"idle", "done", "crashed"} /\ pc'[h] = "crashed"
      /\ db' = (IF ResetDb THEN Empty ELSE db) /\ work' = db' /\ holder' = None
      /\ UNCHANGED <<basket, cart, target, seen, answer>>
  BY DEF Crash, Ended
<1>2. NoRow \in Row /\ GoodLines(<<>>) /\ Empty \in Database
  BY MonolithAssumption DEF Row, GoodLines, Empty, NoRow, Database
<1>3. MTypeOK'
  <2>1. pc' \in [Handlers -> InTx \cup Ended \cup {"idle", "waiting", "committed"}]
    BY <1>1 DEF Crash, MTypeOK, Ended
  <2> QED
    BY <1>1, <1>2, <2>1 DEF MTypeOK
<1>4. OneWriter' /\ ReadersHold'
  BY <1>1 DEF OneWriter, ReadersHold, InTx
<1>5. \A o \in Checkouts : db'.orders[o] = IF ResetDb THEN NoRow ELSE db.orders[o]
  BY <1>1 DEF Empty
<1>6. LinesAreGood'
  BY <1>1, <1>2, <1>5 DEF LinesAreGood, NoRow
<1>7. RowsAreWhole' /\ WorkExtends'
  BY <1>1, <1>5 DEF RowsAreWhole, WorkExtends, Whole, NoRow
<1>8. \A o \in Checkouts : db.orders[o].status = "none" => db'.orders[o].status = "none"
  BY <1>5 DEF NoRow
<1>9. CheckoutsAreSound'
  BY <1>1, <1>8 DEF CheckoutsAreSound, Handlers
<1>10. CancelsAreSound'
  BY <1>1 DEF CancelsAreSound, Handlers
<1>11. AnswersAreTrue'
  BY <1>1, <1>5, <1>8, MonolithAssumption DEF AnswersAreTrue, Placed
<1> QED
  BY <1>3, <1>4, <1>6, <1>7, <1>9, <1>10, <1>11

\* MInv is inductive.
LEMMA MNextInv == MInv /\ [Next]_mvars => MInv'
<1> SUFFICES ASSUME MInv, [Next]_mvars PROVE MInv'
  OBVIOUS
<1>1. {"internal-error", "product-not-found", "insufficient-stock",
       "payment-declined"} \subseteq Problems
  BY DEF Problems, Kinds
<1>2. ASSUME NEW h \in Handlers, Begin(h) \/ Commit(h) \/ Reply(h) \/ Busy(h)
      PROVE  MInv'
  BY <1>1, <1>2, BeginInv, CommitInv, ReplyInv, FailInv DEF Busy
<1>3. ASSUME NEW q \in Checkouts, ReserveFails(q) \/ WriteOrderFails(q) \/ Decline(q)
      PROVE  MInv'
  BY <1>1, <1>3, FailInv DEF ReserveFails, Unreserved, WriteOrderFails, Decline, Handlers
<1>4. ASSUME NEW q \in Checkouts, Arrive(q) \/ Checkout(q) PROVE MInv'
  BY <1>2, <1>3, <1>4, ArriveInv, ReserveInv, WriteOrderInv, ChargeInv DEF Checkout, Handlers
<1>5. ASSUME NEW x \in Cancels, (\E o \in Checkouts : CancelArrive(x, o)) \/ Cancel(x)
      PROVE  MInv'
  BY <1>2, <1>5, CancelArriveInv, ReadOrderInv, ReleaseInv DEF Cancel, Handlers
<1>6. CASE UNCHANGED mvars
  BY <1>6 DEF mvars, MInv, MTypeOK, OneWriter, AnswersAreTrue, ReadersHold,
     LinesAreGood, RowsAreWhole, Whole, WorkExtends, CheckoutsAreSound,
     CancelsAreSound, Placed
<1> QED
  BY <1>4, <1>5, <1>6, CrashInv DEF Next, Idle

\* MInv holds in every state of the monolith.
THEOREM MInvariant == Spec => []MInv
BY MInitInv, MNextInv, PTL DEF Spec

\* The state has its types; no product is ever sold below zero
\* (catalog.py:74-80).
THEOREM MTypeCorrect == Spec => []MTypeOK
BY MInvariant, PTL DEF MInv

\* One handler writes at a time, and a handler that failed has written nothing
\* (db.py:47-68).
THEOREM WritersAlone == Spec => []OneWriter
BY MInvariant, PTL DEF MInv

\* Every order in the database is whole and paid for, whatever fails between
\* the reservations and the charge (orders.py:64-89).
THEOREM OrdersWhole == Spec => []OrdersAreWholeAndPaid
<1>1. MInv => OrdersAreWholeAndPaid
  BY WholeImplies DEF MInv
<1> QED
  BY <1>1, MInvariant, PTL

\* Every answer is true of the database for good (orders.py:43-47).
THEOREM AnswersTrue == Spec => []AnswersAreTrue
BY MInvariant, PTL DEF MInv

-----------------------------------------------------------------------------
(***************************************************************************)
(* What the open transaction has changed so far, statement by statement.   *)
(***************************************************************************)
Writing == {"reserving", "charging", "commit", "releasing"}

\* The first n items of q are off the shelf, and nothing else is.
Took(q, n) ==
    /\ \A i \in 1..n : work.stock[basket[q][i].sku] =
                          db.stock[basket[q][i].sku] - basket[q][i].qty
    /\ \A s \in Products : (\A i \in 1..n : basket[q][i].sku # s) =>
                              work.stock[s] = db.stock[s]

\* What the open transaction of a checkout has changed.
Selling(q) ==
    /\ \A o \in Checkouts \ {q} : work.orders[o] = db.orders[o]
    /\ pc[q] = "commit" => work.orders[q].status = "CONFIRMED"
    /\ ~Repeats(basket[q]) =>
           Took(q, IF pc[q] = "reserving" THEN cart[q].n ELSE Len(basket[q]))

\* What the open transaction of a cancel has changed.  What it gives back are
\* the lines of its order; only if it has read inside the transaction is the
\* order sure to be still confirmed.
Returning(x) ==
    LET o == target[x] IN
    /\ ReadInTx => db.orders[o].status = "CONFIRMED"
    /\ pc[x] = "releasing" => seen[x].lines = db.orders[o].lines
    /\ pc[x] = "commit" =>
        /\ work.stock = [s \in Products |-> db.stock[s] + Units(db.orders[o].lines, s)]
        /\ work.orders = [db.orders EXCEPT ![o].status = "CANCELLED"]

TxIsAShop ==
    /\ \A q \in Checkouts : pc[q] \in Writing => Selling(q)
    /\ \A x \in Cancels : pc[x] \in Writing => Returning(x)

\* A cancel that waits for its transaction, or is in it, remembers the lines
\* of its order's basket, and whoever finds an order cancelled finds it so
\* because a cancel of that order has committed.
HasRead(x) == pc[x] = "releasing" \/ (pc[x] = "waiting" /\ ~ReadInTx)
CancelsAreTraced ==
    /\ \A x \in Cancels : pc[x] = "idle" => target[x] = None
    /\ \A x \in Cancels : HasRead(x) => seen[x].lines = basket[target[x]]
    /\ \A o \in Checkouts : db.orders[o].status = "CANCELLED" =>
           \E x \in Cancels : target[x] = o /\ pc[x] \in {"committed"} \cup Ended

\* Steps after which nobody writes.
LEMMA NobodyWrites ==
    ASSUME \A h \in Handlers : pc'[h] \notin Writing
    PROVE  TxIsAShop'
BY DEF TxIsAShop, Handlers

\* Steps of handlers outside the transaction.
LEMMA WriterUndisturbed ==
    ASSUME TxIsAShop, UNCHANGED <<db, work>>,
           \A q \in Checkouts : pc'[q] \in Writing =>
               pc'[q] = pc[q] /\ basket'[q] = basket[q] /\ cart'[q] = cart[q],
           \A x \in Cancels : pc'[x] \in Writing =>
               pc'[x] = pc[x] /\ target'[x] = target[x] /\ seen'[x] = seen[x]
    PROVE  TxIsAShop'
<1>1. ASSUME NEW q \in Checkouts, pc'[q] \in Writing PROVE Selling(q)'
  BY <1>1 DEF TxIsAShop, Selling, Took
<1>2. ASSUME NEW x \in Cancels, pc'[x] \in Writing PROVE Returning(x)'
  BY <1>2 DEF TxIsAShop, Returning
<1> QED
  BY <1>1, <1>2 DEF TxIsAShop

\* The one who writes holds the lock, so the others do not.
LEMMA OthersDoNotWrite ==
    ASSUME MInv, holder \in Handlers
    PROVE  \A h \in Handlers \ {holder} : pc[h] \notin Writing
BY DEF MInv, OneWriter, InTx, Writing

\* A handler that fails undoes its own transaction or touches nobody's.
LEMMA FailTx ==
    ASSUME MInv, TxIsAShop, NEW h \in Handlers, NEW kind, Fail(h, kind),
           UNCHANGED <<basket, cart, target, seen>>
    PROVE  TxIsAShop'
<1>1. pc'[h] = "done" /\ \A i \in Handlers \ {h} : pc'[i] = pc[i]
  BY DEF Fail, MInv, MTypeOK
<1>2. CASE holder = h
  BY <1>1, <1>2, OthersDoNotWrite, NobodyWrites DEF Writing
<1>3. CASE holder # h
  <2>1. UNCHANGED <<db, work>>
    BY <1>3 DEF Fail
  <2> QED
    BY <1>1, <2>1, WriterUndisturbed DEF Writing, Handlers
<1> QED
  BY <1>2, <1>3

\* A transaction begins with nothing taken and nothing written.
LEMMA BeginTx ==
    ASSUME MInv, TxIsAShop, CancelsAreTraced, NEW h \in Handlers, Begin(h)
    PROVE  TxIsAShop'
<1>1. /\ pc[h] = "waiting" /\ holder = None /\ work = db
      /\ UNCHANGED <<basket, cart, target, seen, db, work>>
  BY DEF Begin, MInv, OneWriter
<1>2. /\ pc'[h] = FirstStep(h) /\ \A i \in Handlers \ {h} : pc'[i] = pc[i]
  BY GotoOthers DEF Begin, MInv
<1>3. \A i \in Handlers : pc[i] \notin Writing
  BY <1>1, MonolithAssumption DEF MInv, OneWriter, Writing, InTx
<1>4. ASSUME NEW q \in Checkouts, pc'[q] \in Writing PROVE Selling(q)'
  <2>1. q = h /\ pc'[q] = "reserving"
    BY <1>2, <1>3, <1>4 DEF Handlers, FirstStep
  <2>2. cart[q] = NoCart
    BY <1>1, <2>1 DEF MInv, CheckoutsAreSound
  <2>3. cart'[q].n = 0
    BY <1>1, <2>2 DEF NoCart
  <2> QED
    BY <1>1, <2>1, <2>3 DEF Selling, Took
<1>5. ASSUME NEW x \in Cancels, pc'[x] \in Writing PROVE Returning(x)'
  <2>1. x \in Handlers /\ x \notin Checkouts
    BY MonolithAssumption DEF Handlers
  <2>2. x = h /\ pc'[x] = "releasing" /\ ~ReadInTx
    BY <1>2, <1>3, <1>5, <2>1 DEF FirstStep, Writing
  <2>3. /\ target[x] \in Checkouts /\ db.orders[target[x]].status # "none"
        /\ seen[x].lines = basket[target[x]]
    BY <1>1, <2>2 DEF MInv, CancelsAreSound, CancelsAreTraced, HasRead
  <2>4. db.orders[target[x]].lines = basket[target[x]]
    BY <2>3 DEF MInv, RowsAreWhole, Whole
  <2> QED
    BY <1>1, <2>2, <2>3, <2>4 DEF Returning
<1> QED
  BY <1>4, <1>5 DEF TxIsAShop

\* The next item comes off the shelf.  If no sku repeats, it was untouched.
LEMMA ReserveTx ==
    ASSUME MInv, TxIsAShop, NEW q \in Checkouts, Reserve(q)
    PROVE  TxIsAShop'
<1> DEFINE s == basket[q][cart[q].n + 1].sku
<1>0. PICK n \in Nat : n = cart[q].n
  BY DEF MInv, MTypeOK
<1>1. /\ pc[q] = "reserving" /\ n < Len(basket[q]) /\ s \in Products
      /\ s = basket[q][n + 1].sku
      /\ work' = [work EXCEPT !.stock[s] = @ - basket[q][n + 1].qty]
      /\ cart' = [cart EXCEPT ![q] = [n |-> @.n + 1,
                                      total |-> @.total + Price[s] * basket[q][n + 1].qty]]
      /\ UNCHANGED <<pc, basket, target, seen, db, holder>>
  BY <1>0 DEF Reserve, Unreserved, Item
<1>2. holder = q /\ q \in Handlers /\ q \notin Cancels
  BY <1>1, MonolithAssumption DEF MInv, OneWriter, InTx, Handlers
<1>3. \A h \in Handlers \ {q} : pc'[h] \notin Writing
  BY <1>1, <1>2, OthersDoNotWrite
<1>4. /\ work'.orders = work.orders
      /\ work'.stock[s] = work.stock[s] - basket[q][n + 1].qty
      /\ \A r \in Products \ {s} : work'.stock[r] = work.stock[r]
  BY <1>1 DEF MInv, MTypeOK, Database
<1>5. cart'[q].n = n + 1
  BY <1>0, <1>1 DEF MInv, MTypeOK
<1>6. basket[q] \in Baskets \cup {<<>>}
  BY DEF MInv, MTypeOK
<1>7. Len(basket[q]) \in Nat /\ DOMAIN basket[q] = 1..Len(basket[q])
  BY <1>6, BasketItems
<1>8. Selling(q)
  BY <1>1 DEF TxIsAShop, Writing
<1>9. \A i \in 1..n : basket[q][i].sku \in Products
  BY <1>0, <1>1 DEF MInv, CheckoutsAreSound
<1> HIDE DEF s
<1>10. ASSUME ~Repeats(basket[q]) PROVE Took(q, n + 1)'
  <2>1. Took(q, n)
    BY <1>0, <1>1, <1>8, <1>10 DEF Selling
  <2>2. ASSUME NEW i \in 1..n PROVE basket[q][i].sku # s
    <3>1. i \in DOMAIN basket[q] /\ n + 1 \in DOMAIN basket[q] /\ i # n + 1
      BY <1>1, <1>7
    <3> QED
      BY <1>1, <1>10, <3>1 DEF Repeats
  <2>3. work.stock[s] = db.stock[s]
    BY <1>1, <2>1, <2>2 DEF Took
  <2>4. \A i \in 1..(n + 1) : i \in 1..n \/ i = n + 1
    OBVIOUS
  <2>5. \A i \in 1..n : i \in 1..(n + 1)
    OBVIOUS
  <2>6. \A i \in 1..(n + 1) : work'.stock[basket[q][i].sku] =
                                db.stock[basket[q][i].sku] - basket[q][i].qty
    BY <1>1, <1>4, <1>9, <2>1, <2>2, <2>3, <2>4 DEF Took
  <2>7. ASSUME NEW r \in Products, \A i \in 1..(n + 1) : basket[q][i].sku # r
        PROVE  work'.stock[r] = db.stock[r]
    <3>1. r # s
      <4>1. n + 1 \in 1..(n + 1)
        OBVIOUS
      <4>2. basket[q][n + 1].sku # r
        BY <2>7, <4>1
      <4> QED
        BY <1>1, <4>2
    <3> QED
      BY <1>4, <2>1, <2>5, <2>7, <3>1 DEF Took
  <2> QED
    BY <1>1, <2>6, <2>7 DEF Took
<1>11. Selling(q)'
  BY <1>1, <1>4, <1>5, <1>8, <1>10 DEF Selling
<1> QED
  BY <1>2, <1>3, <1>11 DEF TxIsAShop, Handlers

\* The rows of the order are its own; the shelf is not touched again.
LEMMA WriteTx ==
    ASSUME MInv, TxIsAShop, NEW q \in Checkouts, WriteOrder(q) \/ Charge(q)
    PROVE  TxIsAShop'
<1>1. /\ pc[q] \in {"reserving", "charging"}
      /\ pc[q] = "reserving" => cart[q].n = Len(basket[q])
      /\ UNCHANGED <<basket, cart, db, holder>>
  BY DEF WriteOrder, Charge
<1>2. /\ pc'[q] \in {"charging", "commit"}
      /\ \A i \in Handlers \ {q} : pc'[i] = pc[i]
  BY GotoOthers DEF WriteOrder, Charge, MInv, Handlers
<1>3. holder = q /\ q \in Handlers /\ q \notin Cancels
  BY <1>1, MonolithAssumption DEF MInv, OneWriter, InTx, Handlers
<1>4. \A h \in Handlers \ {q} : pc'[h] \notin Writing
  BY <1>2, <1>3, OthersDoNotWrite
<1>5. /\ work'.stock = work.stock
      /\ \A o \in Checkouts \ {q} : work'.orders[o] = work.orders[o]
  BY DEF WriteOrder, Charge, MInv, MTypeOK, Database
<1>6. pc'[q] = "commit" => work'.orders[q].status = "CONFIRMED"
  <2>1. CASE WriteOrder(q)
    BY <2>1, GotoOthers DEF WriteOrder, MInv, Handlers
  <2>2. CASE Charge(q)
    <3>1. work.orders[q].status = "CONFIRMED"
      <4>1. work.orders[q] = [status |-> "CONFIRMED", lines |-> basket[q],
                              total |-> cart[q].total, paid |-> 0]
        BY <2>2 DEF Charge, MInv, CheckoutsAreSound
      <4> QED
        BY <4>1
    <3> QED
      BY <2>2, <3>1 DEF Charge, MInv, MTypeOK, Database, Row
  <2> QED
    BY <2>1, <2>2
<1>7. Selling(q)
  BY <1>1 DEF TxIsAShop, Writing
<1>8. Selling(q)'
  BY <1>1, <1>2, <1>5, <1>6, <1>7 DEF Selling, Took
<1> QED
  BY <1>3, <1>4, <1>8 DEF TxIsAShop, Handlers

\* What a cancel reads is committed, whether it reads inside its transaction
\* or before.
LEMMA ReadsCommitted ==
    ASSUME MInv, NEW x \in Cancels, pc[x] = "reading"
    PROVE  Sees(x) = db /\ (ReadInTx => holder = x)
BY MonolithAssumption DEF MInv, ReadersHold, Sees, Handlers

\* A cancel that reads inside its transaction sees a confirmed order and
\* remembers it as it is; one that reads before has nothing to write yet.
LEMMA ReadTx ==
    ASSUME MInv, TxIsAShop, NEW x \in Cancels, ReadOrder(x)
    PROVE  TxIsAShop'
<1> DEFINE row == Sees(x).orders[target[x]]
<1>1. pc[x] = "reading" /\ UNCHANGED <<basket, cart, target>>
  BY DEF ReadOrder
<1>2. x \in Handlers /\ x \notin Checkouts
  BY MonolithAssumption DEF Handlers
<1>3. row = db.orders[target[x]] /\ (ReadInTx => holder = x)
  BY <1>1, ReadsCommitted
<1>4. CASE /\ Fail(x, "order-not-found") \/ Fail(x, "order-not-cancellable")
           /\ UNCHANGED seen
  BY <1>1, <1>2, <1>4, FailTx
<1>5. CASE /\ row.status = "CONFIRMED" /\ seen' = [seen EXCEPT ![x] = row]
           /\ Goto(x, IF ReadInTx THEN "releasing" ELSE "waiting")
           /\ UNCHANGED <<db, work, holder>>
  <2>1. /\ pc'[x] = (IF ReadInTx THEN "releasing" ELSE "waiting")
        /\ \A i \in Handlers \ {x} : pc'[i] = pc[i]
    BY <1>2, <1>5, GotoOthers DEF MInv
  <2>2. \A y \in Cancels \ {x} : seen'[y] = seen[y]
    BY <1>5 DEF MInv, MTypeOK
  <2>3. CASE ReadInTx
    <3>1. \A h \in Handlers \ {x} : pc'[h] \notin Writing
      BY <1>2, <1>3, <2>1, <2>3, OthersDoNotWrite
    <3>2. Returning(x)'
      BY <1>1, <1>3, <1>5, <2>1, <2>3 DEF Returning, MInv, MTypeOK
    <3> QED
      BY <1>2, <3>1, <3>2 DEF TxIsAShop, Handlers
  <2>4. CASE ~ReadInTx
    BY <1>1, <1>2, <1>5, <2>1, <2>2, <2>4, WriterUndisturbed DEF Writing, Handlers
  <2> QED
    BY <2>3, <2>4
<1> QED
  BY <1>1, <1>4, <1>5 DEF ReadOrder

\* What was read is given back, and the order is cancelled, in one write.
LEMMA ReleaseTx ==
    ASSUME MInv, TxIsAShop, NEW x \in Cancels, Release(x)
    PROVE  TxIsAShop'
<1>1. /\ pc[x] = "releasing" /\ UNCHANGED <<basket, cart, target, seen, db, holder>>
      /\ work' = [stock |-> [s \in Products |-> work.stock[s] + Units(seen[x].lines, s)],
                  orders |-> [work.orders EXCEPT ![target[x]].status = "CANCELLED"]]
  BY DEF Release
<1>2. x \in Handlers /\ x \notin Checkouts /\ holder = x /\ work = db
  BY <1>1, MonolithAssumption DEF MInv, OneWriter, InTx, Handlers, ReadersHold
<1>3. pc'[x] = "commit" /\ \A i \in Handlers \ {x} : pc'[i] = pc[i]
  BY <1>2, GotoOthers DEF Release, MInv
<1>4. \A h \in Handlers \ {x} : pc'[h] \notin Writing
  BY <1>2, <1>3, OthersDoNotWrite
<1>5. Returning(x)
  BY <1>1 DEF TxIsAShop, Writing
<1>6. Returning(x)'
  BY <1>1, <1>2, <1>3, <1>5 DEF Returning
<1> QED
  BY <1>2, <1>4, <1>6 DEF TxIsAShop, Handlers

\* TxIsAShop is inductive with MInv and CancelsAreTraced.
LEMMA TxStep ==
    ASSUME MInv, TxIsAShop, CancelsAreTraced, [Next]_mvars
    PROVE  TxIsAShop'
<1>1. ASSUME NEW h \in Handlers, Begin(h) PROVE TxIsAShop'
  BY <1>1, BeginTx
<1>2. ASSUME NEW h \in Handlers, Busy(h) PROVE TxIsAShop'
  BY <1>2, FailTx DEF Busy
<1>3. ASSUME NEW h \in Handlers, Commit(h) PROVE TxIsAShop'
  <2>1. holder = h /\ pc'[h] = "committed" /\ \A i \in Handlers \ {h} : pc'[i] = pc[i]
    BY <1>3, GotoOthers DEF Commit, MInv, OneWriter, InTx
  <2> QED
    BY <2>1, OthersDoNotWrite, NobodyWrites DEF Writing
<1>4. ASSUME NEW h \in Handlers, Reply(h) PROVE TxIsAShop'
  <2>1. pc'[h] = "done" /\ \A i \in Handlers \ {h} : pc'[i] = pc[i]
    BY <1>4 DEF Reply, MInv, MTypeOK
  <2>2. UNCHANGED <<db, work, basket, cart, target, seen>>
    BY <1>4 DEF Reply
  <2> QED
    BY <2>1, <2>2, WriterUndisturbed DEF Writing, Handlers
<1>5. ASSUME NEW q \in Checkouts, ReserveFails(q) \/ WriteOrderFails(q) \/ Decline(q)
      PROVE  TxIsAShop'
  BY <1>5, FailTx DEF ReserveFails, WriteOrderFails, Decline, Handlers
<1>6. ASSUME NEW q \in Checkouts, Arrive(q) PROVE TxIsAShop'
  <2>1. pc[q] = "idle" /\ holder # q /\ q \in Handlers /\ q \notin Cancels
    BY <1>6, MonolithAssumption DEF Arrive, MInv, OneWriter, InTx, Handlers
  <2>2. pc'[q] \in {"waiting", "done"} /\ \A i \in Handlers \ {q} : pc'[i] = pc[i]
    BY <1>6, <2>1 DEF Arrive, Goto, Fail, MInv, MTypeOK
  <2>3. UNCHANGED <<db, work, cart, target, seen>>
    BY <1>6, <2>1 DEF Arrive, Goto, Fail
  <2>4. \A o \in Checkouts \ {q} : basket'[o] = basket[o]
    BY <1>6 DEF Arrive, MInv, MTypeOK
  <2> QED
    BY <2>1, <2>2, <2>3, <2>4, WriterUndisturbed DEF Writing, Handlers
<1>7. ASSUME NEW x \in Cancels, NEW o \in Checkouts, CancelArrive(x, o) PROVE TxIsAShop'
  <2>1. x \in Handlers /\ x \notin Checkouts
    BY MonolithAssumption DEF Handlers
  <2>2. pc'[x] \in {"waiting", "reading"} /\ \A i \in Handlers \ {x} : pc'[i] = pc[i]
    BY <1>7, <2>1, GotoOthers DEF CancelArrive, MInv
  <2>3. UNCHANGED <<db, work, basket, cart, seen>>
    BY <1>7 DEF CancelArrive
  <2>4. \A y \in Cancels \ {x} : target'[y] = target[y]
    BY <1>7 DEF CancelArrive, MInv, MTypeOK
  <2> QED
    BY <2>1, <2>2, <2>3, <2>4, WriterUndisturbed DEF Writing, Handlers
<1>8. CASE Crash
  BY <1>8, NobodyWrites DEF Crash, Ended, Writing
<1>9. CASE UNCHANGED mvars
  BY <1>9, WriterUndisturbed DEF mvars
<1>10. ASSUME NEW q \in Checkouts, Arrive(q) \/ Checkout(q) PROVE TxIsAShop'
  BY <1>1, <1>2, <1>3, <1>4, <1>5, <1>6, <1>10, ReserveTx, WriteTx DEF Checkout, Handlers
<1>11. ASSUME NEW x \in Cancels, (\E o \in Checkouts : CancelArrive(x, o)) \/ Cancel(x)
       PROVE  TxIsAShop'
  BY <1>1, <1>2, <1>3, <1>4, <1>7, <1>11, ReadTx, ReleaseTx DEF Cancel, Handlers
<1> QED
  BY <1>8, <1>9, <1>10, <1>11 DEF Next, Idle

\* Steps that change no order, and give a cancel nothing new to remember.
LEMMA TraceUndisturbed ==
    ASSUME CancelsAreTraced, UNCHANGED db,
           \A x \in Cancels :
               /\ pc'[x] = "idle" => pc[x] = "idle" /\ target'[x] = target[x]
               /\ pc[x] # "idle" => target'[x] = target[x]
               /\ HasRead(x)' => /\ HasRead(x) /\ seen'[x] = seen[x]
                                 /\ basket'[target[x]] = basket[target[x]]
               /\ pc[x] \in {"committed"} \cup Ended => pc'[x] \in {"committed"} \cup Ended
    PROVE  CancelsAreTraced'
<1>1. ASSUME NEW x \in Cancels
      PROVE  /\ pc'[x] = "idle" => target'[x] = None
             /\ HasRead(x)' => seen'[x].lines = basket'[target'[x]]
  BY <1>1 DEF CancelsAreTraced, HasRead
<1>2. ASSUME NEW o \in Checkouts, db'.orders[o].status = "CANCELLED"
      PROVE  \E x \in Cancels : target'[x] = o /\ pc'[x] \in {"committed"} \cup Ended
  <2>1. PICK x \in Cancels : target[x] = o /\ pc[x] \in {"committed"} \cup Ended
    BY <1>2 DEF CancelsAreTraced
  <2>2. pc[x] # "idle"
    BY <2>1 DEF Ended
  <2> QED
    BY <2>1, <2>2
<1> QED
  BY <1>1, <1>2 DEF CancelsAreTraced

\* A cancel remembers what it reads: the lines of a confirmed order, which are
\* its basket.
LEMMA ReadTraced ==
    ASSUME MInv, CancelsAreTraced, NEW x \in Cancels, ReadOrder(x)
    PROVE  CancelsAreTraced'
<1> DEFINE row == Sees(x).orders[target[x]]
<1>1. pc[x] = "reading" /\ UNCHANGED <<basket, target>>
  BY DEF ReadOrder
<1>2. x \in Handlers /\ target[x] \in Checkouts
  BY <1>1 DEF Handlers, MInv, CancelsAreSound
<1>3. row = db.orders[target[x]]
  BY <1>1, ReadsCommitted
<1>4. UNCHANGED db
  BY DEF ReadOrder, Fail
<1>5. \A i \in Handlers \ {x} : pc'[i] = pc[i]
  BY <1>2, GotoOthers DEF ReadOrder, Fail, MInv, MTypeOK
<1>6. CASE pc'[x] = "done" /\ UNCHANGED seen
  BY <1>1, <1>4, <1>5, <1>6, TraceUndisturbed DEF HasRead, Handlers, Ended
<1>7. CASE /\ row.status = "CONFIRMED" /\ seen' = [seen EXCEPT ![x] = row]
           /\ pc'[x] \in {"releasing", "waiting"}
  <2>1. seen'[x] = row /\ \A y \in Cancels \ {x} : seen'[y] = seen[y]
    BY <1>7 DEF MInv, MTypeOK
  <2>2. row.lines = basket[target[x]]
    BY <1>2, <1>3, <1>7 DEF MInv, RowsAreWhole, Whole
  <2> HIDE DEF row
  <2>3. ASSUME NEW y \in Cancels
        PROVE  /\ pc'[y] = "idle" => target'[y] = None
               /\ HasRead(y)' => seen'[y].lines = basket'[target'[y]]
    BY <1>1, <1>5, <1>7, <2>1, <2>2, <2>3 DEF CancelsAreTraced, HasRead, Handlers
  <2>4. ASSUME NEW o \in Checkouts, db'.orders[o].status = "CANCELLED"
        PROVE  \E y \in Cancels : target'[y] = o /\ pc'[y] \in {"committed"} \cup Ended
    BY <1>1, <1>4, <1>5, <2>4 DEF CancelsAreTraced, Handlers, Ended
  <2> QED
    BY <2>3, <2>4 DEF CancelsAreTraced
<1>8. \/ pc'[x] = "done" /\ UNCHANGED seen
      \/ /\ row.status = "CONFIRMED" /\ seen' = [seen EXCEPT ![x] = row]
         /\ pc'[x] \in {"releasing", "waiting"}
  BY <1>2 DEF ReadOrder, Fail, Goto, MInv, MTypeOK
<1> QED
  BY <1>6, <1>7, <1>8

\* Only the commit of a cancel leaves an order cancelled, and that cancel is
\* the trace of it.
LEMMA CommitTraced ==
    ASSUME MInv, TxIsAShop, CancelsAreTraced, NEW h \in Handlers, Commit(h)
    PROVE  CancelsAreTraced'
<1>1. /\ pc[h] = "commit" /\ db' = work /\ UNCHANGED <<basket, target, seen>>
      /\ pc'[h] = "committed" /\ \A i \in Handlers \ {h} : pc'[i] = pc[i]
  BY GotoOthers DEF Commit, MInv
<1>2. ASSUME NEW x \in Cancels
      PROVE  /\ pc'[x] = "idle" => target'[x] = None
             /\ HasRead(x)' => seen'[x].lines = basket'[target'[x]]
  BY <1>1, <1>2 DEF CancelsAreTraced, HasRead, Handlers
<1>3. ASSUME NEW o \in Checkouts, work.orders[o].status = "CANCELLED",
             db.orders[o].status # "CANCELLED"
      PROVE  h \in Cancels /\ target[h] = o
  <2>1. CASE h \in Checkouts
    BY <1>1, <1>3, <2>1 DEF TxIsAShop, Selling, Writing
  <2>2. CASE h \in Cancels
    <3>1. work.orders = [db.orders EXCEPT ![target[h]].status = "CANCELLED"]
      BY <1>1, <2>2 DEF TxIsAShop, Returning, Writing
    <3>2. o # target[h] => work.orders[o] = db.orders[o]
      BY <3>1 DEF MInv, MTypeOK, Database
    <3> QED
      BY <1>3, <2>2, <3>2
  <2> QED
    BY <2>1, <2>2 DEF Handlers
<1>4. ASSUME NEW o \in Checkouts, work.orders[o].status = "CANCELLED"
      PROVE  \E x \in Cancels : target'[x] = o /\ pc'[x] \in {"committed"} \cup Ended
  <2>1. CASE db.orders[o].status = "CANCELLED"
    BY <1>1, <2>1 DEF CancelsAreTraced, Handlers, Ended
  <2>2. CASE db.orders[o].status # "CANCELLED"
    BY <1>1, <1>3, <1>4, <2>2
  <2> QED
    BY <2>1, <2>2
<1> QED
  BY <1>1, <1>2, <1>4 DEF CancelsAreTraced

\* CancelsAreTraced is inductive with MInv and TxIsAShop.
LEMMA TraceStep ==
    ASSUME MInv, TxIsAShop, CancelsAreTraced, [Next]_mvars
    PROVE  CancelsAreTraced'
<1>1. ASSUME NEW h \in Handlers, Begin(h) PROVE CancelsAreTraced'
  <2>1. /\ pc[h] = "waiting" /\ pc'[h] = FirstStep(h)
        /\ \A i \in Handlers \ {h} : pc'[i] = pc[i]
        /\ UNCHANGED <<basket, target, seen, db>>
    BY <1>1, GotoOthers DEF Begin, MInv
  <2> QED
    BY <2>1, TraceUndisturbed DEF FirstStep, HasRead, Handlers, Ended
<1>2. ASSUME NEW h \in Handlers, NEW kind, Fail(h, kind), UNCHANGED <<target, seen>>,
             \A x \in Cancels : HasRead(x) => basket'[target[x]] = basket[target[x]],
             pc[h] # "committed"
      PROVE  CancelsAreTraced'
  <2>1. pc'[h] = "done" /\ (\A i \in Handlers \ {h} : pc'[i] = pc[i]) /\ UNCHANGED db
    BY <1>2 DEF Fail, MInv, MTypeOK
  <2> QED
    BY <1>2, <2>1, TraceUndisturbed DEF HasRead, Handlers, Ended
<1>3. ASSUME NEW h \in Handlers, Busy(h) PROVE CancelsAreTraced'
  BY <1>2, <1>3 DEF Busy
<1>4. ASSUME NEW h \in Handlers, Reply(h) PROVE CancelsAreTraced'
  <2>1. /\ pc'[h] = "done" /\ \A i \in Handlers \ {h} : pc'[i] = pc[i]
        /\ UNCHANGED <<basket, target, seen, db>>
    BY <1>4 DEF Reply, MInv, MTypeOK
  <2> QED
    BY <2>1, TraceUndisturbed DEF HasRead, Handlers, Ended
<1>5. ASSUME NEW q \in Checkouts, ReserveFails(q) \/ WriteOrderFails(q) \/ Decline(q)
      PROVE  CancelsAreTraced'
  BY <1>2, <1>5 DEF ReserveFails, WriteOrderFails, Decline, Unreserved, Handlers
<1>6. ASSUME NEW q \in Checkouts, Reserve(q) \/ WriteOrder(q) \/ Charge(q)
      PROVE  CancelsAreTraced'
  <2>1. /\ \A x \in Cancels : pc'[x] = pc[x]
        /\ UNCHANGED <<basket, target, seen, db>>
    BY <1>6, GotoOthers, MonolithAssumption
       DEF Reserve, WriteOrder, Charge, Handlers, MInv
  <2> QED
    BY <2>1, TraceUndisturbed DEF HasRead
<1>7. ASSUME NEW q \in Checkouts, Arrive(q) PROVE CancelsAreTraced'
  <2>1. /\ pc[q] = "idle" /\ UNCHANGED <<target, seen, db>>
        /\ \A o \in Checkouts \ {q} : basket'[o] = basket[o]
    BY <1>7 DEF Arrive, Goto, Fail, MInv, MTypeOK
  <2>2. \A x \in Cancels : pc'[x] = pc[x]
    BY <1>7, MonolithAssumption DEF Arrive, Goto, Fail, MInv, MTypeOK, Handlers
  <2>3. db.orders[q].status = "none"
    BY <2>1 DEF MInv, CheckoutsAreSound
  <2>4. \A x \in Cancels : HasRead(x) => target[x] \in Checkouts \ {q}
    BY <2>3 DEF HasRead, MInv, CancelsAreSound
  <2> QED
    BY <2>1, <2>2, <2>4, TraceUndisturbed DEF HasRead
<1>8. ASSUME NEW x \in Cancels, NEW o \in Checkouts, CancelArrive(x, o)
      PROVE  CancelsAreTraced'
  <2>1. /\ pc[x] = "idle" /\ pc'[x] = (IF ReadInTx THEN "waiting" ELSE "reading")
        /\ \A y \in Cancels \ {x} : pc'[y] = pc[y] /\ target'[y] = target[y]
        /\ UNCHANGED <<basket, seen, db>>
    BY <1>8, GotoOthers DEF CancelArrive, MInv, MTypeOK, Handlers
  <2> QED
    BY <2>1, TraceUndisturbed DEF HasRead, Ended
<1>9. ASSUME NEW x \in Cancels, Release(x) PROVE CancelsAreTraced'
  <2>1. /\ pc[x] = "releasing" /\ pc'[x] = "commit"
        /\ \A y \in Cancels \ {x} : pc'[y] = pc[y]
        /\ UNCHANGED <<basket, target, seen, db>>
    BY <1>9, GotoOthers DEF Release, MInv, Handlers
  <2> QED
    BY <2>1, TraceUndisturbed DEF HasRead, Ended
<1>10. CASE Crash
  <2>1. /\ \A h \in Handlers : IF pc[h] \in {"idle", "done", "crashed"}
                               THEN pc'[h] = pc[h] ELSE pc'[h] = "crashed"
        /\ UNCHANGED <<basket, target, seen>>
        /\ UNCHANGED db \/ db' = Empty
    BY <1>10 DEF Crash, Ended
  <2>2. CASE UNCHANGED db
    BY <2>1, <2>2, TraceUndisturbed DEF HasRead, Handlers, Ended
  <2>3. CASE db' = Empty
    <3>1. \A o \in Checkouts : db'.orders[o].status # "CANCELLED"
      BY <2>3 DEF Empty, NoRow
    <3> QED
      BY <2>1, <3>1 DEF CancelsAreTraced, HasRead, Handlers
  <2> QED
    BY <2>1, <2>2, <2>3
<1>11. CASE UNCHANGED mvars
  BY <1>11, TraceUndisturbed DEF mvars, HasRead
<1>12. ASSUME NEW q \in Checkouts, Arrive(q) \/ Checkout(q) PROVE CancelsAreTraced'
  BY <1>1, <1>3, <1>4, <1>5, <1>6, <1>7, <1>12, CommitTraced DEF Checkout, Handlers
<1>13. ASSUME NEW x \in Cancels, (\E o \in Checkouts : CancelArrive(x, o)) \/ Cancel(x)
       PROVE  CancelsAreTraced'
  BY <1>1, <1>3, <1>4, <1>8, <1>9, <1>13, ReadTraced, CommitTraced DEF Cancel, Handlers
<1> QED
  BY <1>10, <1>11, <1>12, <1>13 DEF Next, Idle

\* TxIsAShop holds in every state, of all six implementations.
THEOREM TxInvariant == Spec => [](TxIsAShop /\ CancelsAreTraced)
<1>1. Init => TxIsAShop /\ CancelsAreTraced
  BY DEF Init, TxIsAShop, CancelsAreTraced, HasRead, Empty, NoRow, Writing, Handlers
<1>2. MInv /\ TxIsAShop /\ CancelsAreTraced /\ [Next]_mvars =>
        TxIsAShop' /\ CancelsAreTraced'
  BY TxStep, TraceStep
<1> QED
  BY <1>1, <1>2, MInvariant, PTL DEF Spec

-----------------------------------------------------------------------------
(***************************************************************************)
(* The refinement: a commit is a sale or a return, and nothing else shows. *)
(***************************************************************************)

\* Only a commit, or a crash that resets it, changes the database.
LEMMA DbSteps ==
    ASSUME MInv, [Next]_mvars
    PROVE  \/ UNCHANGED db
           \/ \E h \in Handlers : Commit(h)
           \/ ResetDb /\ db' = Empty
<1>1. ASSUME NEW h \in Handlers, Begin(h) \/ Reply(h) \/ Busy(h) PROVE UNCHANGED db
  BY <1>1 DEF Begin, Reply, Busy, Fail
<1>2. ASSUME NEW q \in Checkouts, Arrive(q) \/ Checkout(q) PROVE UNCHANGED db \/ Commit(q)
  BY <1>1, <1>2 DEF Checkout, Arrive, Fail, Reserve, ReserveFails, WriteOrder,
     WriteOrderFails, Charge, Decline, Handlers
<1>3. ASSUME NEW x \in Cancels, (\E o \in Checkouts : CancelArrive(x, o)) \/ Cancel(x)
      PROVE  UNCHANGED db \/ Commit(x)
  BY <1>1, <1>3 DEF Cancel, CancelArrive, ReadOrder, Release, Fail, Handlers
<1>4. Crash \/ UNCHANGED mvars => UNCHANGED db \/ (ResetDb /\ db' = Empty)
  BY DEF Crash, mvars
<1> QED
  BY <1>2, <1>3, <1>4 DEF Next, Idle, Handlers

\* The commit of a checkout sells its basket whole.
LEMMA CommitSells ==
    ASSUME MInv, TxIsAShop, NEW q \in Checkouts, Commit(q)
    PROVE  Shop!Next
<1>1. pc[q] = "commit" /\ db' = work
  BY DEF Commit
<1>2. basket[q] \in Baskets /\ Valid(basket[q]) /\ db.orders[q].status = "none"
  BY <1>1 DEF MInv, MTypeOK, CheckoutsAreSound, Valid
<1> PICK b \in Baskets : b = basket[q]
  BY <1>2
<1>3. Len(b) \in Nat /\ DOMAIN b = 1..Len(b) /\ \A i \in 1..Len(b) : b[i].qty \in Int
  BY <1>2, BasketItems
<1>4. /\ work.orders[q].status = "CONFIRMED"
      /\ \A o \in Checkouts \ {q} : work.orders[o] = db.orders[o]
      /\ ~Repeats(b) => Took(q, Len(b))
  BY <1>1 DEF TxIsAShop, Selling, Writing
<1>5. /\ work.orders[q].lines = b /\ ~Repeats(b)
      /\ \A i \in DOMAIN b : b[i].sku \in Products
  BY <1>1, <1>4 DEF MInv, RowsAreWhole, Whole
<1>6. Took(q, Len(b))
  BY <1>4, <1>5
<1>7. db.stock \in [Products -> Nat] /\ work.stock \in [Products -> Nat]
  BY DEF MInv, MTypeOK, Database
<1>8. \A i \in 1..Len(b) : work.stock[b[i].sku] = db.stock[b[i].sku] - b[i].qty
  BY <1>6 DEF Took
<1>9. \A i, j \in DOMAIN b : b[i].sku = b[j].sku => i = j
  BY <1>5 DEF Repeats
<1>10. \A i \in DOMAIN b : b[i].sku \in Products /\ b[i].qty \in 1..db.stock[b[i].sku]
  <2> SUFFICES ASSUME NEW i \in DOMAIN b
               PROVE  b[i].sku \in Products /\ b[i].qty \in 1..db.stock[b[i].sku]
    OBVIOUS
  <2>1. b[i].sku \in Products /\ b[i].qty \in Int /\ b[i].qty >= 1
    BY <1>2, <1>3, <1>5 DEF Valid
  <2>2. db.stock[b[i].sku] \in Nat /\ work.stock[b[i].sku] \in Nat
    BY <1>7, <2>1
  <2>3. work.stock[b[i].sku] = db.stock[b[i].sku] - b[i].qty
    BY <1>3, <1>8
  <2> QED
    BY <2>1, <2>2, <2>3
<1>11. ASSUME NEW s \in Products PROVE work.stock[s] = db.stock[s] - Shop!Qty(b, s)
  <2>1. CASE Shop!Names(b, s)
    <3>1. PICK k \in DOMAIN b : k = (CHOOSE i \in DOMAIN b : b[i].sku = s) /\ b[k].sku = s
      BY <2>1 DEF Shop!Names
    <3> QED
      BY <1>3, <1>8, <2>1, <3>1 DEF Shop!Qty
  <2>2. CASE ~Shop!Names(b, s)
    <3>1. \A i \in 1..Len(b) : b[i].sku # s
      BY <1>3, <2>2 DEF Shop!Names
    <3>2. work.stock[s] = db.stock[s]
      BY <1>6, <3>1 DEF Took
    <3> QED
      BY <1>7, <2>2, <3>2 DEF Shop!Qty
  <2> QED
    BY <2>1, <2>2
<1>12. work.stock = [s \in Products |-> db.stock[s] - Shop!Qty(b, s)]
  BY <1>7, <1>11
<1>13. [o \in Checkouts |-> work.orders[o].status] =
          [[o \in Checkouts |-> db.orders[o].status] EXCEPT ![q] = "CONFIRMED"]
  BY <1>4
<1>14. [o \in Checkouts |-> work.orders[o].lines] =
          [[o \in Checkouts |-> db.orders[o].lines] EXCEPT ![q] = b]
  BY <1>4, <1>5
<1>15. [o \in Checkouts |-> db.orders[o].status][q] = "none"
  BY <1>2
<1>16. /\ db'.stock = [s \in Products |-> db.stock[s] - Shop!Qty(b, s)]
       /\ [o \in Checkouts |-> db'.orders[o].status] =
             [[o \in Checkouts |-> db.orders[o].status] EXCEPT ![q] = "CONFIRMED"]
       /\ [o \in Checkouts |-> db'.orders[o].lines] =
             [[o \in Checkouts |-> db.orders[o].lines] EXCEPT ![q] = b]
  BY <1>1, <1>12, <1>13, <1>14
<1>17. Shop!Sell(q, b)
  BY <1>9, <1>10, <1>15, <1>16, Zenon DEF Shop!Sell
<1> QED
  BY <1>2, <1>17 DEF Shop!Next

\* The commit of a cancel gives back all that its order holds: a return, if
\* nobody has returned it since the cancel read it.
LEMMA CommitReturns ==
    ASSUME MInv, TxIsAShop, NEW x \in Cancels, Commit(x),
           db.orders[target[x]].status = "CONFIRMED"
    PROVE  Shop!Next
<1>1. pc[x] = "commit" /\ db' = work
  BY DEF Commit
<1>2. target[x] \in Checkouts
  BY <1>1 DEF MInv, CancelsAreSound
<1> PICK o \in Checkouts : o = target[x]
  BY <1>2
<1>3. /\ db.orders[o].status = "CONFIRMED"
      /\ work.stock = [s \in Products |-> db.stock[s] + Units(db.orders[o].lines, s)]
      /\ work.orders = [db.orders EXCEPT ![o].status = "CANCELLED"]
  BY <1>1 DEF TxIsAShop, Returning, Writing
<1>4. db.orders \in [Checkouts -> Row]
  BY DEF MInv, MTypeOK, Database
<1>5. /\ \A p \in Checkouts \ {o} : work.orders[p] = db.orders[p]
      /\ work.orders[o].status = "CANCELLED" /\ work.orders[o].lines = db.orders[o].lines
  BY <1>2, <1>3, <1>4 DEF Row
<1>6. work.stock = [s \in Products |-> db.stock[s] + Shop!Qty(db.orders[o].lines, s)]
  BY <1>3 DEF Shop!Qty, Shop!Names, Units
<1>7. [p \in Checkouts |-> work.orders[p].status] =
          [[p \in Checkouts |-> db.orders[p].status] EXCEPT ![o] = "CANCELLED"]
  BY <1>2, <1>5
<1>8. [p \in Checkouts |-> work.orders[p].lines] = [p \in Checkouts |-> db.orders[p].lines]
  BY <1>2, <1>5
<1>9. /\ [p \in Checkouts |-> db.orders[p].status][o] = "CONFIRMED"
      /\ [p \in Checkouts |-> db.orders[p].lines][o] = db.orders[o].lines
  BY <1>2, <1>3
<1>10. /\ db'.stock = [s \in Products |->
             db.stock[s] + Shop!Qty([p \in Checkouts |-> db.orders[p].lines][o], s)]
       /\ [p \in Checkouts |-> db'.orders[p].status] =
             [[p \in Checkouts |-> db.orders[p].status] EXCEPT ![o] = "CANCELLED"]
       /\ [p \in Checkouts |-> db'.orders[p].lines] = [p \in Checkouts |-> db.orders[p].lines]
  BY <1>1, <1>6, <1>7, <1>8, <1>9
<1>11. Shop!Return(o)
  BY <1>9, <1>10, Zenon DEF Shop!Return
<1> QED
  BY <1>2, <1>11 DEF Shop!Next

\* A monolith whose cancel reads inside its transaction implements the shop:
\* no interleaving, failure or crash shows a half sale or a half return
\* (orders.py:64-89, OrdersService.java:132-153).
THEOREM ImplementsShop == ASSUME ReadInTx, ~ResetDb PROVE Spec => ShopSpec
<1>1. Init => Shop!Init
  BY DEF Init, Shop!Init, Empty, NoRow
<1>2. MInv /\ TxIsAShop /\ [Next]_mvars => [Shop!Next]_(Shop!svars)
  <2> SUFFICES ASSUME MInv, TxIsAShop, [Next]_mvars
               PROVE  [Shop!Next]_(Shop!svars)
    OBVIOUS
  <2>1. CASE UNCHANGED db
    BY <2>1 DEF Shop!svars
  <2>2. ASSUME NEW h \in Handlers, Commit(h) PROVE Shop!Next
    <3>1. h \in Cancels => db.orders[target[h]].status = "CONFIRMED"
      BY <2>2 DEF Commit, TxIsAShop, Returning, Writing
    <3> QED
      BY <2>2, <3>1, CommitSells, CommitReturns DEF Handlers
  <2> QED
    BY <2>1, <2>2, DbSteps
<1> QED
  BY <1>1, <1>2, MInvariant, TxInvariant, PTL DEF Spec, ShopSpec, Shop!Spec

-----------------------------------------------------------------------------
(***************************************************************************)
(* The stock.  The units that orders hold are counted as a set of pairs of *)
(* an order and a number, finite at every step although the set of         *)
(* requests need not be.                                                   *)
(***************************************************************************)

\* So far no two cancels name one order.
LoneCancels ==
    \A x, y \in Cancels : target[x] = target[y] /\ target[x] # None => x = y

\* What is on the shelf and what confirmed orders hold is never less than the
\* shop was seeded with.
StockIsNeverLost ==
    \A s \in Products : db.stock[s] + Cardinality(SoldUnits(db, s)) >= Seed[s]

\* The inductive invariant of the count.
Counted ==
    /\ \A s \in Products : IsFiniteSet(SoldUnits(db, s))
    /\ StockIsNeverLost
    /\ ReadInTx \/ LoneCancels => StockIsConserved

\* The n units of one order are n.
LEMMA UnitsOfOne ==
    ASSUME NEW o, NEW n \in Nat
    PROVE  IsFiniteSet({o} \X (1..n)) /\ Cardinality({o} \X (1..n)) = n
<1> DEFINE f == [i \in 1..n |-> <<o, i>>]
<1>1. IsFiniteSet(1..n) /\ Cardinality(1..n) = n
  BY FS_Interval
<1>2. f \in [1..n -> {o} \X (1..n)]
  OBVIOUS
<1>3. \A i, j \in 1..n : f[i] = f[j] => i = j
  OBVIOUS
<1>4. \A t \in {o} \X (1..n) : \E i \in 1..n : f[i] = t
  OBVIOUS
<1> HIDE DEF f
<1>5. f \in Injection(1..n, {o} \X (1..n)) /\ f \in Surjection(1..n, {o} \X (1..n))
  BY <1>2, <1>3, <1>4 DEF Injection, Surjection, IsInjective
<1>6. ExistsBijection(1..n, {o} \X (1..n))
  BY <1>5 DEF ExistsBijection, Bijection
<1> QED
  BY <1>1, <1>6, FS_Bijection

\* Adding the units of an order that is not in a set of units adds their number.
LEMMA AddUnits ==
    ASSUME NEW S, IsFiniteSet(S), NEW o, NEW n \in Nat, \A i : <<o, i>> \notin S
    PROVE  /\ IsFiniteSet(S \cup ({o} \X (1..n)))
           /\ Cardinality(S) \in Nat
           /\ Cardinality(S \cup ({o} \X (1..n))) = Cardinality(S) + n
<1> DEFINE T == {o} \X (1..n)
<1>1. IsFiniteSet(T) /\ Cardinality(T) = n
  BY UnitsOfOne
<1>2. S \cap T = {}
  OBVIOUS
<1> HIDE DEF T
<1>3. Cardinality(S \cap T) = 0
  BY <1>2, FS_EmptySet
<1>4. Cardinality(S) \in Nat
  BY FS_CardinalityType
<1>5. IsFiniteSet(S \cup T) /\ Cardinality(S \cup T) = Cardinality(S) + n
  BY <1>1, <1>3, <1>4, FS_Union
<1> QED
  BY <1>4, <1>5 DEF T

\* Only confirmed orders hold units.
LEMMA UnitsOf ==
    ASSUME NEW d, NEW s, NEW u
    PROVE  u \in SoldUnits(d, s) <=>
             \E o \in Checkouts : /\ d.orders[o].status = "CONFIRMED"
                                  /\ u \in {o} \X (1..Units(d.orders[o].lines, s))
BY DEF SoldUnits

\* A sale puts its units among those that are sold.
LEMMA SaleCounts ==
    ASSUME NEW o \in Checkouts, NEW s, db.orders[o].status # "CONFIRMED",
           db'.orders[o].status = "CONFIRMED",
           \A p \in Checkouts \ {o} : /\ db'.orders[p].status = db.orders[p].status
                                      /\ db'.orders[p].lines = db.orders[p].lines
    PROVE  /\ SoldUnits(db', s) =
                 SoldUnits(db, s) \cup ({o} \X (1..Units(db'.orders[o].lines, s)))
           /\ \A i : <<o, i>> \notin SoldUnits(db, s)
<1>1. \A i : <<o, i>> \notin SoldUnits(db, s)
  BY UnitsOf
<1>2. ASSUME NEW u
      PROVE  u \in SoldUnits(db', s) <=>
               u \in SoldUnits(db, s) \cup ({o} \X (1..Units(db'.orders[o].lines, s)))
  BY UnitsOf
<1> QED
  BY <1>1, <1>2

\* A return takes them out again.
LEMMA ReturnCounts ==
    ASSUME NEW o \in Checkouts, NEW s, db.orders[o].status = "CONFIRMED",
           db'.orders[o].status # "CONFIRMED",
           \A p \in Checkouts \ {o} : /\ db'.orders[p].status = db.orders[p].status
                                      /\ db'.orders[p].lines = db.orders[p].lines
    PROVE  /\ SoldUnits(db, s) =
                 SoldUnits(db', s) \cup ({o} \X (1..Units(db.orders[o].lines, s)))
           /\ \A i : <<o, i>> \notin SoldUnits(db', s)
<1>1. \A i : <<o, i>> \notin SoldUnits(db', s)
  BY UnitsOf
<1>2. ASSUME NEW u
      PROVE  u \in SoldUnits(db, s) <=>
               u \in SoldUnits(db', s) \cup ({o} \X (1..Units(db.orders[o].lines, s)))
  BY UnitsOf
<1> QED
  BY <1>1, <1>2

\* What the shelf of product s loses a sale has, and the other way round.
LEMMA ShopCounts ==
    ASSUME MInv, MInv', Shop!Next, NEW s \in Products, IsFiniteSet(SoldUnits(db, s))
    PROVE  /\ IsFiniteSet(SoldUnits(db', s))
           /\ db'.stock[s] + Cardinality(SoldUnits(db', s)) =
                 db.stock[s] + Cardinality(SoldUnits(db, s))
<1>1. /\ db.orders \in [Checkouts -> Row] /\ db'.orders \in [Checkouts -> Row]
      /\ db.stock[s] \in Nat /\ db'.stock[s] \in Nat
  BY DEF MInv, MTypeOK, Database
<1>2. IsFiniteSet(SoldUnits(db, s))
  OBVIOUS
<1>3. ASSUME NEW o \in Checkouts, NEW b \in Baskets, Shop!Sell(o, b)
      PROVE  /\ IsFiniteSet(SoldUnits(db', s))
             /\ db'.stock[s] + Cardinality(SoldUnits(db', s)) =
                   db.stock[s] + Cardinality(SoldUnits(db, s))
  <2>1. /\ db.orders[o].status = "none" /\ db'.orders[o].status = "CONFIRMED"
        /\ db'.orders[o].lines = b /\ db'.stock[s] = db.stock[s] - Units(b, s)
    BY <1>3 DEF Shop!Sell, Shop!Qty, Shop!Names, Units
  <2>2. \A p \in Checkouts \ {o} : db'.orders[p].status = db.orders[p].status
                                  /\ db'.orders[p].lines = db.orders[p].lines
    BY <1>3 DEF Shop!Sell
  <2>3. Units(b, s) \in Nat
    BY <2>1, UnitsType DEF MInv, LinesAreGood
  <2>4. /\ SoldUnits(db', s) = SoldUnits(db, s) \cup ({o} \X (1..Units(b, s)))
        /\ \A i : <<o, i>> \notin SoldUnits(db, s)
    BY <2>1, <2>2, SaleCounts, Zenon
  <2>5. /\ IsFiniteSet(SoldUnits(db', s)) /\ Cardinality(SoldUnits(db, s)) \in Nat
        /\ Cardinality(SoldUnits(db', s)) = Cardinality(SoldUnits(db, s)) + Units(b, s)
    <3>1. /\ IsFiniteSet(SoldUnits(db, s) \cup ({o} \X (1..Units(b, s))))
          /\ Cardinality(SoldUnits(db, s)) \in Nat
          /\ Cardinality(SoldUnits(db, s) \cup ({o} \X (1..Units(b, s)))) =
                Cardinality(SoldUnits(db, s)) + Units(b, s)
      BY <1>2, <2>3, <2>4, AddUnits, Zenon
    <3> QED
      BY <2>4, <3>1
  <2> QED
    BY <1>1, <1>2, <2>1, <2>3, <2>5
<1>4. ASSUME NEW o \in Checkouts, Shop!Return(o)
      PROVE  /\ IsFiniteSet(SoldUnits(db', s))
             /\ db'.stock[s] + Cardinality(SoldUnits(db', s)) =
                   db.stock[s] + Cardinality(SoldUnits(db, s))
  <2> DEFINE n == Units(db.orders[o].lines, s)
  <2>0. n = Shop!Qty(db.orders[o].lines, s)
    BY DEF Shop!Qty, Shop!Names, Units
  <2>1. /\ db.orders[o].status = "CONFIRMED" /\ db'.orders[o].status = "CANCELLED"
        /\ db'.stock[s] = db.stock[s] + Shop!Qty(db.orders[o].lines, s)
    BY <1>4 DEF Shop!Return
  <2>2. \A p \in Checkouts \ {o} : db'.orders[p].status = db.orders[p].status
                                  /\ db'.orders[p].lines = db.orders[p].lines
    BY <1>4 DEF Shop!Return
  <2>3. n \in Nat
    BY UnitsType DEF MInv, LinesAreGood
  <2>4. /\ SoldUnits(db, s) = SoldUnits(db', s) \cup ({o} \X (1..n))
        /\ \A i : <<o, i>> \notin SoldUnits(db', s)
    BY <2>1, <2>2, ReturnCounts, Zenon
  <2> HIDE DEF n
  <2>5. IsFiniteSet(SoldUnits(db', s))
    <3>1. SoldUnits(db', s) \in SUBSET SoldUnits(db, s)
      BY <2>4
    <3> QED
      BY <1>2, <3>1, FS_Subset
  <2>6. /\ Cardinality(SoldUnits(db', s)) \in Nat
        /\ Cardinality(SoldUnits(db, s)) = Cardinality(SoldUnits(db', s)) + n
    <3>1. /\ Cardinality(SoldUnits(db', s)) \in Nat
          /\ Cardinality(SoldUnits(db', s) \cup ({o} \X (1..n))) =
                Cardinality(SoldUnits(db', s)) + n
      BY <2>3, <2>4, <2>5, AddUnits, Zenon
    <3> QED
      BY <2>4, <3>1
  <2> QED
    BY <1>1, <1>2, <2>0, <2>1, <2>3, <2>5, <2>6
<1> QED
  BY <1>3, <1>4 DEF Shop!Next

\* In the seeded database everything is on the shelf.
LEMMA EmptyCounted ==
    ASSUME NEW s \in Products
    PROVE  /\ IsFiniteSet(SoldUnits(Empty, s))
           /\ Empty.stock[s] + Cardinality(SoldUnits(Empty, s)) = Seed[s]
<1>1. SoldUnits(Empty, s) = {}
  BY DEF SoldUnits, Empty, NoRow
<1>2. Seed[s] \in Nat
  BY MonolithAssumption
<1> QED
  BY <1>1, <1>2, FS_EmptySet DEF Empty

\* A second cancel of one order gives back what is not sold, and there is
\* another cancel of that order.
LEMMA CommitReturnsAgain ==
    ASSUME MInv, MInv', TxIsAShop, CancelsAreTraced, NEW x \in Cancels, Commit(x),
           db.orders[target[x]].status # "CONFIRMED"
    PROVE  /\ ~ReadInTx /\ ~LoneCancels /\ UNCHANGED target
           /\ \A s \in Products : SoldUnits(db', s) = SoldUnits(db, s)
           /\ \A s \in Products : db'.stock[s] >= db.stock[s]
<1>1. pc[x] = "commit" /\ db' = work /\ UNCHANGED target
  BY DEF Commit
<1>2. target[x] \in Checkouts /\ target[x] # None
  BY <1>1, MonolithAssumption DEF MInv, CancelsAreSound, Handlers
<1> PICK o \in Checkouts : o = target[x]
  BY <1>2
<1>3. /\ ~ReadInTx
      /\ work.stock = [s \in Products |-> db.stock[s] + Units(db.orders[o].lines, s)]
      /\ work.orders = [db.orders EXCEPT ![o].status = "CANCELLED"]
  BY <1>1 DEF TxIsAShop, Returning, Writing
<1>4. db.orders \in [Checkouts -> Row]
  BY DEF MInv, MTypeOK, Database
<1>5. /\ \A p \in Checkouts \ {o} : work.orders[p] = db.orders[p]
      /\ work.orders[o].status = "CANCELLED"
  BY <1>2, <1>3, <1>4 DEF Row
<1>6. db.orders[o].status = "CANCELLED"
  <2>1. x \in Handlers /\ holder = x
    BY <1>1 DEF Handlers, MInv, OneWriter, InTx
  <2>2. work.orders[o].status # "none" /\ o \notin Cancels
    BY <1>5, MonolithAssumption
  <2>3. pc[o] \notin {"charging", "commit"}
    BY <2>1, <2>2, MonolithAssumption DEF MInv, OneWriter, InTx, Handlers
  <2>4. db.orders[o].status # "none"
    BY <2>2, <2>3 DEF MInv, WorkExtends
  <2> QED
    BY <1>2, <1>4, <2>4 DEF Row
<1>7. ~LoneCancels
  <2>1. PICK y \in Cancels : target[y] = o /\ pc[y] \in {"committed"} \cup Ended
    BY <1>6 DEF CancelsAreTraced
  <2>2. x # y
    BY <1>1, <2>1 DEF Ended
  <2> QED
    BY <1>2, <2>1, <2>2 DEF LoneCancels
<1>8. ASSUME NEW s \in Products PROVE SoldUnits(db', s) = SoldUnits(db, s)
  <2>1. ASSUME NEW u PROVE u \in SoldUnits(db', s) <=> u \in SoldUnits(db, s)
    BY <1>1, <1>5, <1>6, UnitsOf
  <2> QED
    BY <2>1
<1>9. ASSUME NEW s \in Products PROVE db'.stock[s] >= db.stock[s]
  <2>1. Units(db.orders[o].lines, s) \in Nat /\ db.stock[s] \in Nat
    BY UnitsType DEF MInv, LinesAreGood, MTypeOK, Database
  <2> QED
    BY <1>1, <1>3, <2>1
<1> QED
  BY <1>1, <1>3, <1>7, <1>8, <1>9

\* The order a cancel names is not changed any more.
LEMMA LoneBefore ==
    ASSUME MInv, CancelsAreTraced, [Next]_mvars, LoneCancels'
    PROVE  LoneCancels
<1>1. ASSUME NEW x \in Cancels, target[x] # None PROVE target'[x] = target[x]
  <2>1. pc[x] # "idle"
    BY <1>1 DEF CancelsAreTraced
  <2>2. ASSUME NEW y \in Cancels, NEW o \in Checkouts, CancelArrive(y, o)
        PROVE  target'[x] = target[x]
    BY <2>1, <2>2 DEF CancelArrive, MInv, MTypeOK
  <2>3. ASSUME NEW h \in Handlers, Begin(h) \/ Reply(h) \/ Busy(h) \/ Commit(h)
        PROVE  target'[x] = target[x]
    BY <2>3 DEF Begin, Reply, Busy, Commit
  <2>4. ASSUME NEW q \in Checkouts, Arrive(q) \/ Checkout(q) PROVE target'[x] = target[x]
    BY <2>3, <2>4 DEF Arrive, Checkout, Reserve, ReserveFails, WriteOrder,
       WriteOrderFails, Charge, Decline, Handlers
  <2>5. ASSUME NEW y \in Cancels, Cancel(y) PROVE target'[x] = target[x]
    BY <2>3, <2>5 DEF Cancel, ReadOrder, Release, Handlers
  <2>6. Crash \/ UNCHANGED mvars => target'[x] = target[x]
    BY DEF Crash, mvars
  <2> QED
    BY <2>2, <2>4, <2>5, <2>6 DEF Next, Idle
<1> QED
  BY <1>1 DEF LoneCancels

\* Every step keeps the count, the restart from an empty database included.
LEMMA CountedStep ==
    ASSUME MInv, MInv', TxIsAShop, CancelsAreTraced, Counted, [Next]_mvars
    PROVE  Counted'
<1>1. LoneCancels' => LoneCancels
  BY LoneBefore
<1>2. CASE UNCHANGED db
  BY <1>1, <1>2 DEF Counted, StockIsNeverLost, StockIsConserved
<1>3. CASE Shop!Next
  BY <1>1, <1>3, ShopCounts DEF Counted, StockIsNeverLost, StockIsConserved
<1>4. ASSUME NEW x \in Cancels, Commit(x), db.orders[target[x]].status # "CONFIRMED"
      PROVE  Counted'
  <2>1. ~ReadInTx /\ ~LoneCancels'
    BY <1>1, <1>4, CommitReturnsAgain
  <2>2. ASSUME NEW s \in Products
        PROVE  /\ IsFiniteSet(SoldUnits(db', s))
               /\ db'.stock[s] + Cardinality(SoldUnits(db', s)) >= Seed[s]
    <3>1. SoldUnits(db', s) = SoldUnits(db, s) /\ db'.stock[s] >= db.stock[s]
      BY <1>4, CommitReturnsAgain
    <3>2. IsFiniteSet(SoldUnits(db, s)) /\ Cardinality(SoldUnits(db, s)) \in Nat
      BY FS_CardinalityType DEF Counted
    <3>3. db.stock[s] \in Nat /\ db'.stock[s] \in Nat /\ Seed[s] \in Nat
      BY MonolithAssumption DEF MInv, MTypeOK, Database
    <3>4. db.stock[s] + Cardinality(SoldUnits(db, s)) >= Seed[s]
      BY DEF Counted, StockIsNeverLost
    <3> QED
      BY <3>1, <3>2, <3>3, <3>4
  <2> QED
    BY <2>1, <2>2 DEF Counted, StockIsNeverLost
<1>5. ASSUME NEW h \in Handlers, Commit(h) PROVE Counted'
  BY <1>3, <1>4, <1>5, CommitSells, CommitReturns DEF Handlers
<1>6. CASE db' = Empty
  <2>1. \A s \in Products : Seed[s] \in Nat
    BY MonolithAssumption
  <2> QED
    BY <1>6, <2>1, EmptyCounted DEF Counted, StockIsNeverLost, StockIsConserved
<1> QED
  BY <1>2, <1>5, <1>6, DbSteps

\* The count holds in every state, of all six implementations.
LEMMA CountedInvariant == Spec => []Counted
<1>1. Init => Counted
  <2>1. \A s \in Products : Seed[s] \in Nat
    BY MonolithAssumption
  <2> QED
    BY <2>1, EmptyCounted DEF Init, Counted, StockIsNeverLost, StockIsConserved
<1>2. MInv /\ MInv' /\ TxIsAShop /\ CancelsAreTraced /\ Counted /\ [Next]_mvars => Counted'
  BY CountedStep
<1> QED
  BY <1>1, <1>2, MInvariant, TxInvariant, PTL DEF Spec

\* If a cancel reads inside its transaction, no unit of stock is ever lost or
\* made up, however checkouts, cancels, declines, lock timeouts and crashes
\* interleave, whatever a restart keeps (orders.py:64-89, catalog.py:62-86,
\* OrdersService.java:132-153).
THEOREM StockConserved == ASSUME ReadInTx PROVE Spec => []StockIsConserved
<1>1. Counted => StockIsConserved
  BY DEF Counted
<1> QED
  BY <1>1, CountedInvariant, PTL

\* Where a cancel reads the order before its transaction begins (orders.py:121-130,
\* and Go, C#, Ruby), that is true as long as no order has been sent two cancels.
THEOREM LoneCancelsConserve == Spec => [](LoneCancels => StockIsConserved)
<1>1. Counted => (LoneCancels => StockIsConserved)
  BY DEF Counted
<1> QED
  BY <1>1, CountedInvariant, PTL

\* However often an order is cancelled, units may be made up but none is lost
\* (orders.py:121-130): the harm is a shop that sells what it does not have.
THEOREM StockNeverLost == Spec => []StockIsNeverLost
<1>1. Counted => StockIsNeverLost
  BY DEF Counted
<1> QED
  BY <1>1, CountedInvariant, PTL

-----------------------------------------------------------------------------
(***************************************************************************)
(* Cancels of one order.                                                   *)
(***************************************************************************)
Accepted(x) == pc[x] = "committed" \/ answer[x] = "cancelled"
CancelsDiffer ==
    \A x, y \in Cancels : Accepted(x) /\ Accepted(y) /\ target[x] = target[y] => x = y

\* A cancel commits on a confirmed order, and whoever was accepted before has
\* left it cancelled.
LEMMA CommitDiffers ==
    ASSUME ReadInTx, ~ResetDb, MInv, TxIsAShop, CancelsDiffer,
           NEW h \in Handlers, Commit(h)
    PROVE  CancelsDiffer'
<1>1. /\ pc[h] = "commit" /\ UNCHANGED <<target, answer>>
      /\ pc'[h] = "committed" /\ \A i \in Handlers \ {h} : pc'[i] = pc[i]
  BY GotoOthers DEF Commit, Goto, MInv
<1>2. h \in Cancels => db.orders[target[h]].status = "CONFIRMED"
  BY <1>1 DEF TxIsAShop, Returning, Writing
<1>3. \A y \in Cancels : Accepted(y) => db.orders[target[y]].status = "CANCELLED"
  BY DEF MInv, CancelsAreSound, AnswersAreTrue, Accepted
<1>4. \A y \in Cancels \ {h} : Accepted(y)' => Accepted(y)
  BY <1>1 DEF Accepted, Handlers
<1> QED
  BY <1>1, <1>2, <1>3, <1>4 DEF CancelsDiffer

\* No other step accepts a cancel.
LEMMA DiffersStep ==
    ASSUME ReadInTx, ~ResetDb, MInv, TxIsAShop, CancelsDiffer, [Next]_mvars
    PROVE  CancelsDiffer'
<1>1. ASSUME \A x \in Cancels : Accepted(x)' => Accepted(x) /\ target'[x] = target[x]
      PROVE  CancelsDiffer'
  BY <1>1 DEF CancelsDiffer
<1>2. ASSUME NEW h \in Handlers, NEW kind \in Problems, Fail(h, kind), UNCHANGED target
      PROVE  CancelsDiffer'
  BY <1>1, <1>2 DEF Fail, Accepted, MInv, MTypeOK, Problems, Handlers
<1>3. ASSUME NEW h \in Handlers, NEW step \in InTx \cup {"waiting"}, Goto(h, step),
             \A x \in Cancels \ {h} : target'[x] = target[x],
             target'[h] = target[h] \/ ~Accepted(h)
      PROVE  CancelsDiffer'
  <2>1. \A x \in Cancels \ {h} : Accepted(x)' => Accepted(x)
    BY <1>3, GotoOthers DEF Accepted, Handlers, MInv
  <2>2. Accepted(h)' => answer[h] = "cancelled"
    BY <1>3, GotoOthers DEF Accepted, InTx, MInv
  <2> QED
    BY <1>1, <1>3, <2>1, <2>2 DEF Accepted
<1>4. {"internal-error", "product-not-found", "insufficient-stock", "payment-declined",
       "validation-failed", "order-not-found", "order-not-cancellable"} \subseteq Problems
  BY DEF Problems, Kinds
<1>5. ASSUME NEW h \in Handlers, Begin(h) \/ Reply(h) \/ Busy(h) PROVE CancelsDiffer'
  <2>1. CASE Begin(h)
    BY <1>3, <2>1 DEF Begin, FirstStep, InTx
  <2>2. CASE Reply(h)
    BY <1>1, <2>2 DEF Reply, Accepted, MInv, MTypeOK, Handlers
  <2>3. CASE Busy(h)
    BY <1>2, <1>4, <2>3 DEF Busy
  <2> QED
    BY <1>5, <2>1, <2>2, <2>3
<1>6. ASSUME NEW q \in Checkouts,
             Arrive(q) \/ WriteOrder(q) \/ Charge(q) \/ Reserve(q)
               \/ ReserveFails(q) \/ WriteOrderFails(q) \/ Decline(q)
      PROVE  CancelsDiffer'
  <2>1. CASE Arrive(q) \/ WriteOrder(q) \/ Charge(q)
    BY <1>2, <1>3, <1>4, <2>1 DEF Arrive, WriteOrder, Charge, InTx, Handlers
  <2>2. CASE Reserve(q)
    BY <1>1, <2>2 DEF Reserve, Accepted
  <2>3. CASE ReserveFails(q) \/ WriteOrderFails(q) \/ Decline(q)
    BY <1>2, <1>4, <2>3 DEF ReserveFails, WriteOrderFails, Decline, Handlers
  <2> QED
    BY <1>6, <2>1, <2>2, <2>3
<1>7. ASSUME NEW x \in Cancels, NEW o \in Checkouts, CancelArrive(x, o) PROVE CancelsDiffer'
  <2>1. ~Accepted(x)
    BY <1>7 DEF CancelArrive, Accepted, MInv, CancelsAreSound
  <2> QED
    BY <1>3, <1>7, <2>1 DEF CancelArrive, InTx, Handlers, MInv, MTypeOK
<1>8. ASSUME NEW x \in Cancels, ReadOrder(x) PROVE CancelsDiffer'
  BY <1>2, <1>3, <1>4, <1>8 DEF ReadOrder, InTx, Handlers
<1>9. ASSUME NEW x \in Cancels, Release(x) PROVE CancelsDiffer'
  BY <1>3, <1>9 DEF Release, InTx, Handlers
<1>10. CASE Crash
  BY <1>1, <1>10 DEF Crash, Accepted, Ended, Handlers
<1>11. CASE UNCHANGED mvars
  BY <1>1, <1>11 DEF mvars, Accepted
<1>12. ASSUME NEW q \in Checkouts, Arrive(q) \/ Checkout(q) PROVE CancelsDiffer'
  BY <1>5, <1>6, <1>12, CommitDiffers DEF Checkout, Handlers
<1>13. ASSUME NEW x \in Cancels, (\E o \in Checkouts : CancelArrive(x, o)) \/ Cancel(x)
       PROVE  CancelsDiffer'
  BY <1>5, <1>7, <1>8, <1>9, <1>13, CommitDiffers DEF Cancel, Handlers
<1> QED
  BY <1>10, <1>11, <1>12, <1>13 DEF Next, Idle

\* Of any number of cancels of one order at most one is accepted, if the
\* cancel reads inside its transaction.
THEOREM OneCancel == ASSUME ReadInTx, ~ResetDb PROVE Spec => []OneCancelIsAccepted
<1>1. Init => CancelsDiffer
  BY DEF Init, CancelsDiffer, Accepted, Handlers
<1>2. MInv /\ TxIsAShop /\ CancelsDiffer /\ [Next]_mvars => CancelsDiffer'
  BY DiffersStep
<1>3. CancelsDiffer => OneCancelIsAccepted
  BY DEF CancelsDiffer, Accepted, OneCancelIsAccepted
<1> QED
  BY <1>1, <1>2, <1>3, MInvariant, TxInvariant, PTL DEF Spec
=============================================================================
