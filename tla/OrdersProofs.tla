---------------------------- MODULE OrdersProofs ----------------------------
(***************************************************************************)
(* Theorems about Orders for every set of requests, keys and baskets, and  *)
(* every choice of faults, checked by TLAPS.                               *)
(***************************************************************************)
EXTENDS Orders, TLAPS

-----------------------------------------------------------------------------
(***************************************************************************)
(* Type correctness.                                                       *)
(***************************************************************************)

\* The step of payments keeps the types of payments' state.
LEMMA ServeTypeOK ==
    ASSUME TypeOK, NEW q \in Requests, P!Serve(q)
    PROVE  P!PTypeOK'
<1> USE DEF TypeOK, P!PTypeOK, P!Answer, P!Stage, P!Request, P!Blank
<1>1. call[q].key \in DownKeys \cup {NoKey}
  OBVIOUS
<1>2. P!Fresh(q) \in P!Answer
  BY DEF P!Fresh, P!Verdict
<1>3. CASE P!Replay(q)
  BY <1>1, <1>3 DEF P!Replay, P!Seen, P!Keyed
<1>4. CASE P!Begin(q) \/ P!Abandon(q)
  BY <1>4 DEF P!Begin, P!Abandon
<1>5. CASE P!Refuse(q)
  BY <1>5 DEF P!Refuse, P!Invalid
<1>6. CASE P!Decide(q)
  BY <1>2, <1>6 DEF P!Decide, P!TakePayment
<1>7. CASE P!Record(q)
  BY <1>1, <1>2, <1>7 DEF P!Record, P!Remember, P!Keyed
<1>8. CASE P!Settle(q)
  BY <1>1, <1>2, <1>8 DEF P!Settle, P!TakePayment, P!Remember, P!Keyed
<1> QED
  BY <1>3, <1>4, <1>5, <1>6, <1>7, <1>8 DEF P!Serve

\* The initial state has the types of TypeOK.
LEMMA InitTypeOK == Init => TypeOK
BY OrdersAssumption
   DEF Init, TypeOK, Steps, Kinds, NoAsk, NoDraft, NoAnswer, NoRow, Line,
       Ask, Draft, Row, Outcome, CancelKinds, P!PInit, P!PTypeOK, P!Request, P!Blank, P!Answer, P!Stage, P!NoAnswer,
       P!Forgotten

\* An answer has the type of answers.
LEMMA FinishTypeOK ==
    ASSUME TypeOK, NEW q \in Requests, NEW kind \in Kinds,
           NEW o \in Requests \cup {None}, Finish(q, kind, o)
    PROVE  pc' \in [Requests -> Steps] /\ answer' \in [Requests -> Outcome]
BY DEF TypeOK, Finish, Outcome, Steps

\* The handler of a checkout keeps the types of everything it touches.
LEMMA CheckoutTypeOK ==
    ASSUME TypeOK, NEW q \in Requests, Checkout(q)
    PROVE  TypeOK'
<1> USE DEF hvars, cvars, dvars, pvars
<1>1. CASE Lookup(q) \/ LookupFails(q)
  <2>1. CASE Lookup(q)
    BY <2>1 DEF Lookup, Goto, TypeOK, Steps, P!PTypeOK
  <2>2. CASE LookupFails(q) /\ ErrorMeansNoRow
    BY <2>2 DEF LookupFails, Goto, TypeOK, Steps, P!PTypeOK
  <2>3. CASE LookupFails(q) /\ ~ErrorMeansNoRow
    <3>1. Finish(q, "internal-error", None) /\ "internal-error" \in Kinds
      BY <2>3 DEF LookupFails, Kinds
    <3>2. pc' \in [Requests -> Steps] /\ answer' \in [Requests -> Outcome]
      BY <3>1, FinishTypeOK
    <3> QED
      BY <2>3, <3>2 DEF LookupFails, TypeOK, P!PTypeOK
  <2> QED
    BY <1>1, <2>1, <2>2, <2>3
<1>2. CASE Replay(q) \/ ReplayFails(q) \/ ProductMissing(q) \/ CatalogFails(q)
           \/ PersistFails(q)
  <2>1. PICK kind \in Kinds, o \in Requests \cup {None} : Finish(q, kind, o)
    BY <1>2 DEF Replay, ReplayFails, ReadError, ProductMissing, CatalogFails,
                PersistFails, Kinds, Placed
  <2>2. pc' \in [Requests -> Steps] /\ answer' \in [Requests -> Outcome]
    BY <2>1, FinishTypeOK
  <2> QED
    BY <1>2, <2>2
       DEF Replay, ReplayFails, ProductMissing, CatalogFails, PersistFails, TypeOK,
           P!PTypeOK
<1>3. CASE PriceLine(q)
  <2> DEFINE item == NextItem(q)
             line == [sku |-> item.sku, unit |-> price[item.sku], qty |-> item.qty]
  <2>1. ask[q].basket \in Seq(Item)
    <3>1. ask[q].basket \in Baskets \cup {<<>>}
      BY DEF TypeOK, Ask
    <3>2. Baskets \subseteq Seq(Item) /\ <<>> \in Seq(Item)
      BY OrdersAssumption
    <3> QED
      BY <3>1, <3>2
  <2>2. draft[q].lines \in Seq(Line) /\ draft[q].total \in Int
    BY DEF TypeOK, Draft
  <2>3. item \in Item
    BY <1>3, <2>1, <2>2 DEF PriceLine, Unpriced, NextItem
  <2>4. price[item.sku] \in Int /\ item.qty \in Int
    <3>1. item.sku \in Skus /\ item.qty \in Int
      BY <2>3 DEF Item
    <3>2. price[item.sku] \in Prices \cup {-1}
      BY <3>1 DEF TypeOK
    <3> HIDE DEF item
    <3>3. Prices \cup {-1} \subseteq Int
      BY OrdersAssumption
    <3> QED
      BY <3>1, <3>2, <3>3
  <2>5. line \in Line
    BY <2>3, <2>4 DEF Item, Line
  <2>6. price[item.sku] * item.qty \in Int
    BY <2>4
  <2>7. [lines |-> Append(draft[q].lines, line),
         total |-> draft[q].total + price[item.sku] * item.qty] \in Draft
    BY <2>2, <2>5, <2>6 DEF Draft
  <2>8. draft' = [draft EXCEPT ![q] =
                    [lines |-> Append(draft[q].lines, line),
                     total |-> draft[q].total + price[item.sku] * item.qty]]
    BY <1>3 DEF PriceLine
  <2>9. draft' \in [Requests -> Draft]
    BY <2>7, <2>8 DEF TypeOK
  <2> QED
    BY <1>3, <2>9 DEF PriceLine, TypeOK, P!PTypeOK
<1>4. CASE StartCharge(q)
  <2>1. [key |-> DownstreamKey(q), amount |-> draft[q].total] \in P!Request
    BY DEF DownstreamKey, DownKeys, TypeOK, Ask, Draft, P!Request
  <2>2. P!PTypeOK'
    BY <1>4, <2>1 DEF StartCharge, P!Send, TypeOK, P!PTypeOK, P!Stage
  <2>3. pc' \in [Requests -> Steps] /\ answer' \in [Requests -> Outcome]
    BY <1>4 DEF StartCharge, Goto, TypeOK, Steps
  <2> QED
    BY <1>4, <2>2, <2>3 DEF StartCharge, TypeOK
<1>5. CASE ChargeAnswered(q)
  <2>1. P!PTypeOK'
    BY <1>5 DEF ChargeAnswered, P!Receive, TypeOK, P!PTypeOK, P!Stage
  <2>2. pc' \in [Requests -> Steps] /\ answer' \in [Requests -> Outcome]
    BY <1>5, FinishTypeOK DEF ChargeAnswered, Goto, TypeOK, Steps, Kinds
  <2> QED
    BY <1>5, <2>1, <2>2 DEF ChargeAnswered, TypeOK
<1>6. CASE ChargeLost(q)
  <2>1. P!PTypeOK'
    BY <1>6 DEF ChargeLost, P!HangUp, TypeOK, P!PTypeOK, P!Stage
  <2>2. pc' \in [Requests -> Steps] /\ answer' \in [Requests -> Outcome]
    BY <1>6, FinishTypeOK DEF ChargeLost, Kinds
  <2> QED
    BY <1>6, <2>1, <2>2 DEF ChargeLost, TypeOK
<1>7. CASE Persist(q) \/ CommitUnacknowledged(q)
  <2>1. pc' \in [Requests -> Steps] /\ answer' \in [Requests -> Outcome]
    BY <1>7, FinishTypeOK DEF Persist, CommitUnacknowledged, Kinds
  <2>2. [status |-> "CONFIRMED", total |-> draft[q].total,
         lines |-> draft[q].lines, auth |-> reply[q].by] \in Row
    BY DEF TypeOK, Draft, Row, P!PTypeOK, P!Answer
  <2>3. orders' \in [Requests -> Row] /\ idem' \in [Keys -> Requests \cup {None}]
    BY <1>7, <2>2 DEF Persist, CommitUnacknowledged, Write, TypeOK
  <2> QED
    BY <1>7, <2>1, <2>3 DEF Persist, CommitUnacknowledged, TypeOK, P!PTypeOK
<1> QED
  BY <1>1, <1>2, <1>3, <1>4, <1>5, <1>6, <1>7 DEF Checkout

\* Every step keeps the types.
LEMMA NextTypeOK == TypeOK /\ [Next]_vars => TypeOK'
<1> SUFFICES ASSUME TypeOK, [Next]_vars PROVE TypeOK'
  OBVIOUS
<1> USE DEF hvars, cvars, dvars, pvars
<1>1. ASSUME NEW q \in Requests, Arrive(q) PROVE TypeOK'
  <2>1. PICK k \in Keys \cup {NoKey}, b \in Baskets :
          /\ ask' = [ask EXCEPT ![q] =
                       [key |-> k, basket |-> b,
                        late |-> IF k = NoKey THEN FALSE ELSE idem[k] # None]]
          /\ IF ~Valid(b) THEN Finish(q, "validation-failed", None)
             ELSE Goto(q, IF k = NoKey THEN "pricing" ELSE "lookup")
    BY <1>1 DEF Arrive
  <2>2. ask' \in [Requests -> Ask]
    BY <2>1 DEF Ask, TypeOK
  <2>3. pc' \in [Requests -> Steps] /\ answer' \in [Requests -> Outcome]
    BY <2>1, FinishTypeOK DEF Goto, TypeOK, Steps, Kinds
  <2> QED
    BY <1>1, <2>2, <2>3 DEF Arrive, TypeOK, P!PTypeOK
<1>2. ASSUME NEW q \in Requests, Checkout(q) PROVE TypeOK'
  BY <1>2, CheckoutTypeOK
<1>3. ASSUME NEW q \in Requests, PaymentsStep(q) PROVE TypeOK'
  BY <1>3, ServeTypeOK DEF PaymentsStep, TypeOK
<1>4. ASSUME NEW x \in Cancels, NEW o \in Requests,
             CancelRead(x, o) \/ CancelReadFails(x, o)
      PROVE  TypeOK'
  BY <1>4 DEF CancelRead, CancelReadFails, ReadError, CancelDone, CancelKinds,
              TypeOK, P!PTypeOK
<1>5. ASSUME NEW x \in Cancels, CancelWrite(x) \/ CancelFails(x) PROVE TypeOK'
  <2>1. orders' = orders
        \/ orders' = [orders EXCEPT ![target[x]].status = "CANCELLED"]
    BY <1>5 DEF CancelWrite, CancelFails, MarkCancelled
  <2>2. \A r \in Row : [r EXCEPT !.status = "CANCELLED"] \in Row
    BY DEF Row
  <2>3. orders' \in [Requests -> Row]
    BY <2>1, <2>2 DEF TypeOK
  <2> QED
    BY <1>5, <2>3 DEF CancelWrite, CancelFails, CancelDone, MarkCancelled,
                      CancelKinds, TypeOK, P!PTypeOK
<1>6. CASE PaymentsRestart
  BY <1>6 DEF PaymentsRestart, P!Restart, P!Forgotten, P!NoAnswer, P!Answer,
              P!Stage, TypeOK, P!PTypeOK
<1>7. CASE Crash
  BY <1>7 DEF Crash, TypeOK, Steps, P!PTypeOK
<1>8. ASSUME NEW s \in Skus, NEW p \in Prices \cup {-1}, Reprice(s, p)
      PROVE  TypeOK'
  BY <1>8 DEF Reprice, TypeOK, P!PTypeOK
<1>9. CASE Idle \/ UNCHANGED vars
  BY <1>9 DEF Idle, vars, TypeOK, P!PTypeOK
<1> QED
  BY <1>1, <1>2, <1>3, <1>4, <1>5, <1>6, <1>7, <1>8, <1>9 DEF Next, Cancel

\* Every reachable state has the types TypeOK gives it: the handlers of
\* service.py, the tables of repository.py and the state of server.py.
THEOREM TypeCorrect == Spec => []TypeOK
BY InitTypeOK, NextTypeOK, PTL DEF Spec

-----------------------------------------------------------------------------
(***************************************************************************)
(* What payments keeps for itself it keeps inside the orders service: the  *)
(* lemmas of PaymentsProofs, instantiated as Orders instantiates Payments. *)
(***************************************************************************)
PP == INSTANCE PaymentsProofs WITH
        Calls <- Requests, Keys <- DownKeys, Nobody <- None, Amounts <- Int,
        MayRestart <- "payments_restart" \in Faults,
        MayHangUp <- "connection" \in Faults

\* The constants handed to Payments satisfy its assumption.
LEMMA PaymentsConstants == PP!PaymentsAssumption
BY OrdersAssumption DEF PP!PaymentsAssumption, DownKeys

\* Payments starts in its invariant.
LEMMA PInitSound == P!PInit => P!PInv
BY PaymentsConstants, PP!PInitInv
   DEF P!PInit, P!PInv, P!PTypeOK, P!ApprovalsAreReal, P!LedgerIsWithinLimit,
       P!StagesAreSound, P!Request, P!Blank, P!Answer, P!NoAnswer, P!Stage,
       P!Forgotten, P!Keyed, P!Fresh, P!Verdict,
       PP!PInit, PP!PInv, PP!PTypeOK, PP!ApprovalsAreReal, PP!LedgerIsWithinLimit,
       PP!StagesAreSound, PP!Request, PP!Blank, PP!Answer, PP!NoAnswer, PP!Stage,
       PP!Forgotten, PP!Keyed, PP!Fresh, PP!Verdict

\* P and PP instantiate one module alike: their invariants are the same.
LEMMA SameInv == P!PInv <=> PP!PInv
BY DEF P!PInv, P!PTypeOK, P!ApprovalsAreReal, P!LedgerIsWithinLimit,
       P!StagesAreSound, P!Request, P!Blank, P!Answer, P!NoAnswer, P!Stage,
       P!Forgotten, P!Keyed, P!Fresh, P!Verdict,
       PP!PInv, PP!PTypeOK, PP!ApprovalsAreReal, PP!LedgerIsWithinLimit,
       PP!StagesAreSound, PP!Request, PP!Blank, PP!Answer, PP!NoAnswer, PP!Stage,
       PP!Forgotten, PP!Keyed, PP!Fresh, PP!Verdict

\* ... and so are the steps of the server.
LEMMA SameServe == ASSUME NEW c \in Requests PROVE P!Serve(c) <=> PP!Serve(c)
<1>1. P!Verdict(c) = PP!Verdict(c) /\ (P!AtAmount(c) <=> PP!AtAmount(c))
  BY DEF P!Verdict, PP!Verdict, P!AtAmount, PP!AtAmount, P!OneTurn, PP!OneTurn,
         P!WorkerFree, PP!WorkerFree, P!Busy, PP!Busy, P!Cardinality, PP!Cardinality, P!Seen, PP!Seen,
         P!Keyed, PP!Keyed, P!NoAnswer, PP!NoAnswer
<1>2. P!Replay(c) <=> PP!Replay(c)
  BY <1>1 DEF P!Replay, PP!Replay, P!Seen, PP!Seen, P!Keyed, PP!Keyed, P!NoAnswer, PP!NoAnswer, P!WorkerFree, PP!WorkerFree, P!Busy, PP!Busy, P!Cardinality, PP!Cardinality
<1>3. P!Begin(c) <=> PP!Begin(c)
  BY <1>1 DEF P!Begin, PP!Begin, P!OneTurn, PP!OneTurn, P!Seen, PP!Seen, P!Keyed, PP!Keyed, P!NoAnswer, PP!NoAnswer, P!WorkerFree, PP!WorkerFree, P!Busy, PP!Busy, P!Cardinality, PP!Cardinality
<1>4. P!Abandon(c) <=> PP!Abandon(c)
  BY <1>1 DEF P!Abandon, PP!Abandon
<1>5. P!Refuse(c) <=> PP!Refuse(c)
  BY <1>1 DEF P!Refuse, PP!Refuse, P!Invalid, PP!Invalid
<1>6. P!Decide(c) <=> PP!Decide(c)
  BY <1>1 DEF P!Decide, PP!Decide, P!Fresh, PP!Fresh, P!TakePayment, PP!TakePayment
<1>7. P!Record(c) <=> PP!Record(c)
  BY <1>1 DEF P!Record, PP!Record, P!Remember, PP!Remember, P!Keyed, PP!Keyed, P!Fresh, PP!Fresh
<1>8. P!Settle(c) <=> PP!Settle(c)
  BY <1>1 DEF P!Settle, PP!Settle, P!Fresh, PP!Fresh, P!TakePayment, PP!TakePayment, P!Remember, PP!Remember, P!Keyed, PP!Keyed
<1> QED
  BY <1>2, <1>3, <1>4, <1>5, <1>6, <1>7, <1>8 DEF P!Serve, PP!Serve

\* A step of the server keeps the invariant of payments.
LEMMA ServeSound ==
    ASSUME P!PInv, NEW c \in Requests, P!Serve(c)
    PROVE  P!PInv'
<1>1. PP!PInv /\ PP!Serve(c)
  BY SameInv, SameServe
<1>2. PP!PInv'
  BY <1>1, PaymentsConstants, PP!ServeInv
<1> QED
  BY <1>2, SameInv, PTL

\* So does a charge that orders sends, whatever its key and amount.
LEMMA SendSound ==
    ASSUME P!PInv, NEW q \in Requests, NEW k \in DownKeys, NEW a \in Int,
           P!Send(q, k, a)
    PROVE  P!PInv'
<1>1. PP!PInv /\ PP!Send(q, k, a)
  BY SameInv DEF P!Send, PP!Send
<1>2. PP!PInv'
  BY <1>1, PaymentsConstants, PP!SendInv
<1> QED
  BY <1>2, SameInv, PTL

\* So does an answer that arrives or a connection that breaks.
LEMMA MoveSound ==
    ASSUME P!PInv, NEW q \in Requests, P!Receive(q) \/ P!HangUp(q)
    PROVE  P!PInv'
<1>1. PP!PInv /\ (PP!Receive(q) \/ PP!HangUp(q))
  BY SameInv DEF P!Receive, PP!Receive, P!HangUp, PP!HangUp
<1>2. PP!PInv'
  BY <1>1, PaymentsConstants, PP!MoveInv
<1> QED
  BY <1>2, SameInv, PTL

\* So does a restart of payments.
LEMMA RestartSound == P!PInv /\ P!Restart => P!PInv'
<1> SUFFICES ASSUME P!PInv, P!Restart PROVE P!PInv'
  OBVIOUS
<1>1. PP!PInv /\ PP!Restart
  BY SameInv DEF P!Restart, PP!Restart, P!InFlight, PP!InFlight, P!Forgotten,
                 PP!Forgotten, P!NoAnswer, PP!NoAnswer
<1>2. PP!PInv'
  BY <1>1, PaymentsConstants, PP!RestartInv
<1> QED
  BY <1>2, SameInv, PTL

\* So does a crash of orders, which only breaks connections.
LEMMA DisconnectSound ==
    ASSUME P!PInv, live' \in [Requests -> BOOLEAN],
           UNCHANGED <<call, st, reply, charges, ledger>>
    PROVE  P!PInv'
<1>1. PP!PInv
  BY SameInv
<1>2. PP!PInv'
  BY <1>1, PaymentsConstants, PP!DisconnectInv
<1> QED
  BY <1>2, SameInv, PTL

\* What a step of payments can do, as seen from orders.
LEMMA ServeEffect ==
    ASSUME P!PInv, NEW c \in Requests, P!Serve(c)
    PROVE  /\ call' = call
           /\ st[c] \in {"sent", "working", "decided"}
           /\ st'[c] \in {"working", "decided", "answered", "abandoned"}
           /\ \A d \in Requests \ {c} : st'[d] = st[d] /\ reply'[d] = reply[d]
           /\ ledger' = ledger \/ (ledger' = ledger \cup {c} /\ st[c] # "decided")
<1> USE DEF P!PInv, P!PTypeOK
<1>1. CASE P!Replay(c) \/ P!Begin(c) \/ P!Abandon(c) \/ P!Refuse(c)
  BY <1>1 DEF P!Replay, P!Begin, P!Abandon, P!Refuse, P!AtAmount
<1>2. CASE P!Decide(c) \/ P!Settle(c)
  BY <1>2 DEF P!Decide, P!Settle, P!AtAmount, P!TakePayment
<1>3. CASE P!Record(c)
  BY <1>3 DEF P!Record
<1> QED
  BY <1>1, <1>2, <1>3 DEF P!Serve

-----------------------------------------------------------------------------
(***************************************************************************)
(* The inductive invariant.  The properties of the tables and the answers  *)
(* are not inductive by themselves: that an order is paid for needs what   *)
(* persist knows of the answer it holds (HandlersAreSound), and that needs *)
(* what payments guarantees of its approvals (P!PInv).                     *)
(***************************************************************************)
Inv == /\ TypeOK
       /\ P!PInv
       /\ HandlersAreSound
       /\ KeyRowsMatchOrders
       /\ OrdersArePaid
       /\ ConfirmationsAreTrue
       /\ RejectionsAreFree

\* The initial state satisfies Inv.
LEMMA InitInv == Init => Inv
BY InitTypeOK, PInitSound
   DEF Init, Inv, P!PInit, HandlersAreSound, KeyRowsMatchOrders, OrdersArePaid,
       ConfirmationsAreTrue, RejectionsAreFree, Placed,
       NoAnswer, NoRow, FreeKinds

\* A handler that ends without having written anything: its answer must be
\* true, and a rejection must leave no RPC behind.
LEMMA EndInv ==
    ASSUME Inv, TypeOK', P!PInv', NEW q \in Requests,
           pc[q] \notin {"idle", "done", "crashed"},
           NEW kind \in Kinds \ {"none"}, NEW o \in Requests \cup {None},
           Finish(q, kind, o),
           kind = "confirmed" =>
               o \in Placed /\ ask[q].key # NoKey /\ o = idem[ask[q].key],
           kind \in FreeKinds => st'[q] \in {"none", "received"} /\ q \notin ledger,
           st' = st \/ (st[q] # "none" /\ \E s \in P!Stage \ {"none"} :
                                             st' = [st EXCEPT ![q] = s]),
           UNCHANGED <<ask, cvars, dvars, call, reply, ledger>>
    PROVE  Inv'
<1> USE DEF Inv, Finish, cvars, dvars
<1>1. HandlersAreSound'
  <2>1. Placed' = Placed /\ q \notin Placed
    BY DEF HandlersAreSound, Placed
  <2>2. \A r \in Requests \ {q} :
            pc'[r] = pc[r] /\ answer'[r] = answer[r] /\ st'[r] = st[r]
    BY DEF TypeOK, P!PInv, P!PTypeOK
  <2>3. pc'[q] = "done" /\ answer'[q].kind = kind
    BY DEF TypeOK
  <2>4. st[q] = "none" => st'[q] = "none"
    OBVIOUS
  <2>5. \A r \in Requests : DownstreamKey(r)' = DownstreamKey(r)
    BY DEF DownstreamKey
  <2> QED
    BY <2>1, <2>2, <2>3, <2>4, <2>5 DEF HandlersAreSound
<1>2. KeyRowsMatchOrders' /\ OrdersArePaid'
  BY DEF KeyRowsMatchOrders, OrdersArePaid, Placed, DownstreamKey
<1>3. ConfirmationsAreTrue'
  BY DEF ConfirmationsAreTrue, Placed, TypeOK
<1>4. RejectionsAreFree'
  BY DEF RejectionsAreFree, TypeOK
<1> QED
  BY <1>1, <1>2, <1>3, <1>4

\* A handler that goes on to its next step, or stops in a crash, writes
\* nothing and answers nothing.
LEMMA GoOnInv ==
    ASSUME Inv, TypeOK', P!PInv',
           UNCHANGED <<ask, answer, orders, idem, target, call, st, reply, ledger>>,
           \A q \in Requests : pc'[q] = pc[q] \/
               /\ pc[q] \notin {"idle", "done", "crashed"}
               /\ \/ pc'[q] = "crashed"
                  \/ pc'[q] \in {"pricing", "replay"} /\ pc[q] = "lookup",
           \A x \in Cancels : cpc'[x] = "cancelling" => cpc[x] = "cancelling"
    PROVE  Inv'
<1> USE DEF Inv
<1>1. HandlersAreSound'
  BY DEF HandlersAreSound, Placed, DownstreamKey
<1>2. KeyRowsMatchOrders' /\ OrdersArePaid' /\ ConfirmationsAreTrue'
      /\ RejectionsAreFree'
  BY DEF KeyRowsMatchOrders, OrdersArePaid, ConfirmationsAreTrue,
         RejectionsAreFree, Placed, DownstreamKey
<1> QED
  BY <1>1, <1>2

\* The steps of a checkout up to the charge.
LEMMA BeforeChargeInv ==
    ASSUME Inv, TypeOK', NEW q \in Requests,
           \/ Lookup(q) \/ LookupFails(q) \/ Replay(q) \/ ReplayFails(q)
           \/ PriceLine(q) \/ ProductMissing(q) \/ CatalogFails(q)
    PROVE  Inv'
<1> USE DEF cvars, dvars, pvars
<1>1. P!PInv'
  <2>1. live' \in [Requests -> BOOLEAN] /\ UNCHANGED <<call, st, reply, charges, ledger>>
    BY DEF Inv, TypeOK, P!PTypeOK, Lookup, LookupFails, Replay, ReplayFails, PriceLine,
           ProductMissing, CatalogFails
  <2> QED
    BY <2>1, DisconnectSound DEF Inv
<1>2. pc[q] \in {"lookup", "replay", "pricing"} => st[q] = "none"
  BY DEF Inv, HandlersAreSound
<1>3. st[q] = "none" => q \notin ledger
  BY DEF Inv, P!PInv, P!StagesAreSound
<1>4. CASE Lookup(q) \/ (LookupFails(q) /\ ErrorMeansNoRow) \/ PriceLine(q)
  BY <1>1, <1>4, GoOnInv
     DEF Lookup, LookupFails, PriceLine, Goto, Inv, TypeOK
<1>5. CASE LookupFails(q) /\ ~ErrorMeansNoRow
  <2>1. Finish(q, "internal-error", None) /\ pc[q] = "lookup"
        /\ UNCHANGED <<ask, cvars, dvars, call, st, reply, ledger>>
    BY <1>5 DEF LookupFails
  <2> QED
    BY <1>1, <2>1, EndInv DEF Kinds, FreeKinds
<1>6. CASE ProductMissing(q)
  BY <1>1, <1>2, <1>3, <1>6, EndInv DEF ProductMissing, Unpriced, Kinds
<1>7. CASE CatalogFails(q)
  BY <1>1, <1>2, <1>3, <1>7, EndInv DEF CatalogFails, Unpriced, Kinds
<1>8. CASE Replay(q)
  <2>1. pc[q] = "replay" /\ ask[q].key # NoKey
        /\ UNCHANGED <<ask, cvars, dvars, call, st, reply, ledger>>
    BY <1>8 DEF Replay, Inv, HandlersAreSound
  <2>2. CASE idem[ask[q].key] \in Placed
    BY <1>1, <1>2, <1>3, <1>8, <2>1, <2>2, EndInv DEF Replay, Kinds, Placed
  <2>3. CASE idem[ask[q].key] \notin Placed
    BY <1>1, <1>2, <1>3, <1>8, <2>1, <2>3, EndInv DEF Replay, Kinds
  <2> QED
    BY <2>2, <2>3
<1>9. CASE ReplayFails(q)
  BY <1>1, <1>2, <1>3, <1>9, EndInv DEF ReplayFails, ReadError, Kinds
<1> QED
  BY <1>4, <1>5, <1>6, <1>7, <1>8, <1>9 DEF LookupFails

\* Sending the Charge RPC: no order is paid by the call that is only now made.
LEMMA StartChargeInv ==
    ASSUME Inv, TypeOK', NEW q \in Requests, StartCharge(q)
    PROVE  Inv'
<1> USE DEF cvars, dvars
<1> DEFINE k == DownstreamKey(q)
<1>1. k \in DownKeys /\ draft[q].total \in Int
  BY DEF Inv, TypeOK, Ask, Draft, DownstreamKey, DownKeys
<1>2. pc[q] = "pricing" /\ Goto(q, "charging") /\ P!Send(q, k, draft[q].total)
      /\ UNCHANGED <<ask, draft, cvars, dvars, price>>
  BY DEF StartCharge
<1>3. P!PInv'
  BY <1>1, <1>2, SendSound DEF Inv
<1>4. st[q] = "none" /\ q \notin ledger
  BY <1>2 DEF P!Send, Inv, P!PInv, P!StagesAreSound
<1>5. \A r \in Requests \ {q} : pc'[r] = pc[r] /\ st'[r] = st[r] /\ call'[r] = call[r]
  BY <1>2 DEF Goto, P!Send, Inv, TypeOK, P!PInv, P!PTypeOK
<1>6. pc'[q] = "charging" /\ st'[q] = "sent" /\ call'[q].key = k
  BY <1>2 DEF Goto, P!Send, Inv, TypeOK, P!PInv, P!PTypeOK
<1>7. Placed' = Placed /\ q \notin Placed
      /\ answer' = answer /\ reply' = reply /\ ledger' = ledger
  BY <1>2 DEF Goto, P!Send, Placed, Inv, HandlersAreSound
<1>8. \A r \in Requests : DownstreamKey(r)' = DownstreamKey(r)
  BY <1>2 DEF DownstreamKey
<1>9. answer[q].kind = "none"
  BY <1>2 DEF Inv, HandlersAreSound
<1>10. HandlersAreSound'
  <2>1. \A x \in Cancels : cpc'[x] = "cancelling" => target'[x] \in Placed'
    BY <1>2, <1>7 DEF Inv, HandlersAreSound
  <2>2. "none" \notin FreeKinds
    BY DEF FreeKinds
  <2>3. ask' = ask
    BY <1>2
  <2> HIDE DEF k
  <2> QED
    BY <1>5, <1>6, <1>7, <1>8, <1>9, <2>1, <2>2, <2>3
       DEF Inv, HandlersAreSound, k
<1>11. KeyRowsMatchOrders' /\ ConfirmationsAreTrue'
       /\ RejectionsAreFree'
  BY <1>2, <1>7 DEF Inv, KeyRowsMatchOrders, ConfirmationsAreTrue,
                    RejectionsAreFree
<1>12. OrdersArePaid'
  <2>1. \A c \in ledger : c \in Requests \ {q}
    BY <1>4 DEF Inv, P!PInv, P!PTypeOK
  <2>2. orders' = orders /\ Placed \subseteq Requests
    BY <1>2 DEF Placed
  <2> QED
    BY <1>5, <1>7, <1>8, <2>1, <2>2 DEF Inv, OrdersArePaid
<1> QED
  BY <1>3, <1>10, <1>11, <1>12 DEF Inv

\* The answer arrives.  What goes on to persist is an approval, because a
\* received answer is never blank.
LEMMA ChargeAnsweredInv ==
    ASSUME Inv, TypeOK', NEW q \in Requests, ChargeAnswered(q)
    PROVE  Inv'
<1> USE DEF cvars, dvars
<1>1. P!PInv'
  BY MoveSound DEF ChargeAnswered, Inv
<1>2. pc[q] = "charging" /\ st[q] = "answered" /\ st' = [st EXCEPT ![q] = "received"]
      /\ UNCHANGED <<ask, draft, cvars, dvars, price, call, live, reply, charges, ledger>>
  BY DEF ChargeAnswered, P!Receive
<1>3. st'[q] = "received"
  BY <1>2 DEF Inv, TypeOK, P!PTypeOK
<1>4. CASE reply[q].status = "DECLINED"
  <2>1. Finish(q, "payment-declined", None)
    BY <1>4 DEF ChargeAnswered
  <2>2. q \notin ledger
    BY <1>4 DEF Inv, P!PInv, P!StagesAreSound
  <2>3. "received" \in P!Stage \ {"none"}
    BY DEF P!Stage
  <2> QED
    BY <1>1, <1>2, <1>3, <2>1, <2>2, <2>3, EndInv DEF Kinds
<1>5. CASE reply[q].status = "INVALID_ARGUMENT"
  <2>1. Finish(q, "internal-error", None)
    BY <1>5 DEF ChargeAnswered
  <2>2. "received" \in P!Stage \ {"none"}
    BY DEF P!Stage
  <2> QED
    BY <1>1, <1>2, <2>1, <2>2, EndInv DEF Kinds, FreeKinds
<1>6. CASE reply[q].status \notin {"DECLINED", "INVALID_ARGUMENT"}
  <2>1. Goto(q, "persist")
    BY <1>6 DEF ChargeAnswered
  <2>2. reply[q].status = "APPROVED"
    <3>1. reply[q].status # "NONE"
      BY <1>2 DEF Inv, P!PInv, P!StagesAreSound
    <3> QED
      BY <1>6, <3>1 DEF Inv, P!PInv, P!PTypeOK, P!Answer
  <2>3. Placed' = Placed /\ q \notin Placed /\ answer[q].kind = "none"
    BY <1>2 DEF Placed, Inv, HandlersAreSound
  <2>4. HandlersAreSound'
    <3>1. \A r \in Requests \ {q} : pc'[r] = pc[r] /\ st'[r] = st[r]
      BY <1>2, <2>1 DEF Goto, Inv, TypeOK, P!PTypeOK
    <3>2. pc'[q] = "persist" /\ answer' = answer
      BY <2>1 DEF Goto, Inv, TypeOK
    <3>3. \A r \in Requests : DownstreamKey(r)' = DownstreamKey(r)
      BY <1>2 DEF DownstreamKey
    <3>4. "none" \notin FreeKinds
      BY DEF FreeKinds
    <3>5. call[q].key = DownstreamKey(q)
      BY <1>2 DEF Inv, HandlersAreSound
    <3> QED
      BY <1>2, <1>3, <2>2, <2>3, <3>1, <3>2, <3>3, <3>4, <3>5 DEF Inv, HandlersAreSound
  <2>5. KeyRowsMatchOrders' /\ OrdersArePaid' /\ ConfirmationsAreTrue'
        /\ RejectionsAreFree'
    BY <1>2, <2>1, <2>3
       DEF Goto, Inv, KeyRowsMatchOrders, OrdersArePaid, ConfirmationsAreTrue,
           RejectionsAreFree, DownstreamKey
  <2> QED
    BY <1>1, <2>4, <2>5 DEF Inv
<1> QED
  BY <1>4, <1>5, <1>6

\* A charge that is lost in transport keeps Inv.
LEMMA ChargeLostInv ==
    ASSUME Inv, TypeOK', NEW q \in Requests, ChargeLost(q)
    PROVE  Inv'
<1> USE DEF cvars, dvars
<1>1. P!PInv'
  BY MoveSound DEF ChargeLost, Inv
<1>2. /\ pc[q] = "charging" /\ Finish(q, "payments-unavailable", None)
      /\ st[q] # "none"
      /\ st' = st \/ st' = [st EXCEPT ![q] = "dead"]
      /\ UNCHANGED <<ask, draft, cvars, dvars, price, call, reply, charges, ledger>>
  BY DEF ChargeLost, P!HangUp, Inv, TypeOK, P!PTypeOK
<1>3. "dead" \in P!Stage \ {"none"}
  BY DEF P!Stage
<1> QED
  BY <1>1, <1>2, <1>3, EndInv DEF Kinds, FreeKinds

\* A transaction that is rolled back keeps Inv.
LEMMA PersistFailsInv ==
    ASSUME Inv, TypeOK', NEW q \in Requests, PersistFails(q)
    PROVE  Inv'
<1> USE DEF cvars, dvars, pvars
<1>1. P!PInv'
  BY DisconnectSound DEF PersistFails, Inv, P!PInv, P!PTypeOK
<1> QED
  BY <1>1, EndInv DEF PersistFails, Kinds, FreeKinds

\* Persisting: the order that appears is paid for by the approval its handler
\* holds, and its key named no order yet.
LEMMA WriteInv ==
    ASSUME Inv, TypeOK', NEW q \in Requests, Persist(q) \/ CommitUnacknowledged(q)
    PROVE  Inv'
<1> USE DEF cvars, pvars
<1>1. P!PInv'
  BY DisconnectSound DEF Persist, CommitUnacknowledged, Inv, P!PInv, P!PTypeOK
<1>2. /\ pc[q] = "persist" /\ ~Conflict(q) /\ Write(q)
      /\ UNCHANGED <<ask, draft, cvars, price, pvars>>
  BY DEF Persist, CommitUnacknowledged
<1>3. \/ Finish(q, "confirmed", q)
      \/ Finish(q, "internal-error", None) /\ "lost_commit" \in Faults
  BY DEF Persist, CommitUnacknowledged
<1>4. st[q] = "received" /\ reply[q].status = "APPROVED" /\ q \notin Placed
      /\ answer[q].kind = "none" /\ call[q].key = DownstreamKey(q)
  BY <1>2 DEF Inv, HandlersAreSound
<1>5. reply[q].by \in ledger /\ call[reply[q].by].key = call[q].key
  BY <1>4 DEF Inv, P!PInv, P!ApprovalsAreReal
<1>6. \A r \in Requests \ {q} :
          pc'[r] = pc[r] /\ answer'[r] = answer[r] /\ orders'[r] = orders[r]
  BY <1>2, <1>3 DEF Finish, Write, Inv, TypeOK
<1>7. pc'[q] = "done" /\ answer'[q].kind \in {"confirmed", "internal-error"}
      /\ (answer'[q].kind = "internal-error" => "lost_commit" \in Faults)
      /\ (answer'[q].kind = "confirmed" => answer'[q].order = q)
  BY <1>3 DEF Finish, Inv, TypeOK
<1>8. orders'[q].status = "CONFIRMED" /\ orders'[q].auth = reply[q].by
  BY <1>2 DEF Write, Inv, TypeOK
<1>9. Placed' = Placed \cup {q}
  BY <1>6, <1>8 DEF Placed
<1>10. \A r \in Requests : DownstreamKey(r)' = DownstreamKey(r)
  BY <1>2 DEF DownstreamKey
<1>11. HandlersAreSound'
  <2>1. /\ answer'[q].kind \notin FreeKinds
        /\ ask' = ask /\ cpc' = cpc /\ target' = target /\ st' = st
        /\ call' = call /\ reply' = reply
    BY <1>2, <1>7 DEF FreeKinds
  <2> QED
    BY <1>4, <1>6, <1>7, <1>9, <1>10, <2>1 DEF Inv, HandlersAreSound
<1>12. OrdersArePaid'
  <2>1. ledger' = ledger /\ call' = call /\ Placed \subseteq Requests
    BY <1>2 DEF Placed
  <2> QED
    BY <1>4, <1>5, <1>6, <1>8, <1>9, <1>10, <2>1 DEF Inv, OrdersArePaid
<1>13. ask[q].key # NoKey => ask[q].key \in Keys /\ idem[ask[q].key] = None
  BY <1>2 DEF Conflict, KeyTaken, Inv, TypeOK, Ask
<1>14. /\ ask[q].key = NoKey => idem' = idem
       /\ ask[q].key # NoKey => idem'[ask[q].key] = q
       /\ \A k \in Keys : k # ask[q].key => idem'[k] = idem[k]
  BY <1>2, <1>13 DEF Write, Inv, TypeOK
<1>15. None \notin Requests /\ Placed \subseteq Requests /\ ask' = ask
  BY <1>2, OrdersAssumption DEF Placed
<1>16. \A r \in Placed : ask[r].key # NoKey => ask[r].key # ask[q].key
  BY <1>13, <1>15 DEF Inv, KeyRowsMatchOrders
<1>17. KeyRowsMatchOrders'
  <2>1. ASSUME NEW k \in Keys, idem'[k] # None
        PROVE  idem'[k] \in Placed' /\ ask'[idem'[k]].key = k
    BY <1>9, <1>14, <1>15, <2>1 DEF Inv, KeyRowsMatchOrders
  <2>2. ASSUME NEW o \in Placed', ask'[o].key # NoKey
        PROVE  idem'[ask'[o].key] = o
    <3>1. ask[o].key \in Keys
      BY <1>9, <1>15, <2>2 DEF Inv, TypeOK, Ask
    <3> QED
      BY <1>9, <1>14, <1>15, <1>16, <2>2, <3>1 DEF Inv, KeyRowsMatchOrders
  <2> QED
    BY <2>1, <2>2 DEF KeyRowsMatchOrders
<1>18. ConfirmationsAreTrue'
  <2>1. ASSUME NEW r \in Requests, answer'[r].kind = "confirmed"
        PROVE  /\ answer'[r].order \in Placed'
               /\ IF ask'[r].key = NoKey THEN answer'[r].order = r
                  ELSE answer'[r].order = idem'[ask'[r].key]
    <3>1. CASE r = q
      BY <1>7, <1>9, <1>14, <1>15, <2>1, <3>1
    <3>2. CASE r # q
      <4>1. /\ answer[r].order \in Placed
            /\ IF ask[r].key = NoKey THEN answer[r].order = r
               ELSE answer[r].order = idem[ask[r].key]
        BY <1>6, <2>1, <3>2 DEF Inv, ConfirmationsAreTrue
      <4>2. ask[r].key # NoKey => ask[r].key # ask[q].key /\ ask[r].key \in Keys
        BY <1>13, <1>15, <4>1 DEF Inv, TypeOK, Ask
      <4> QED
        BY <1>6, <1>9, <1>14, <1>15, <3>2, <4>1, <4>2
    <3> QED
      BY <3>1, <3>2
  <2> QED
    BY <2>1 DEF ConfirmationsAreTrue
<1>19. RejectionsAreFree'
  <2>1. ledger' = ledger /\ ledger \subseteq Requests
    BY <1>2 DEF Inv, TypeOK, P!PTypeOK
  <2> QED
    BY <1>6, <1>7, <2>1 DEF Inv, RejectionsAreFree, FreeKinds
<1> QED
  BY <1>1, <1>11, <1>12, <1>17, <1>18, <1>19 DEF Inv

\* A request arrives: it has no order, no RPC and no answer yet.
LEMMA ArriveInv ==
    ASSUME Inv, TypeOK', NEW q \in Requests, Arrive(q)
    PROVE  Inv'
<1> USE DEF cvars, dvars, pvars
<1>1. P!PInv'
  BY DisconnectSound DEF Arrive, Inv, P!PInv, P!PTypeOK
<1>2. PICK k \in Keys \cup {NoKey}, b \in Baskets :
          /\ pc[q] = "idle"
          /\ ask' = [ask EXCEPT ![q] =
                       [key |-> k, basket |-> b,
                        late |-> IF k = NoKey THEN FALSE ELSE idem[k] # None]]
          /\ IF ~Valid(b) THEN Finish(q, "validation-failed", None)
             ELSE Goto(q, IF k = NoKey THEN "pricing" ELSE "lookup")
          /\ UNCHANGED <<draft, cvars, dvars, price, pvars>>
  BY DEF Arrive
<1>3. q \notin Placed /\ st[q] = "none" /\ q \notin ledger /\ answer[q].kind = "none"
      /\ Placed' = Placed /\ Placed \subseteq Requests
  BY <1>2 DEF Placed, Inv, HandlersAreSound, P!PInv, P!StagesAreSound
<1>4. \A r \in Requests \ {q} : pc'[r] = pc[r] /\ answer'[r] = answer[r] /\ ask'[r] = ask[r]
  BY <1>2 DEF Finish, Goto, Inv, TypeOK
<1>5. \/ pc'[q] = "done" /\ answer'[q].kind = "validation-failed"
      \/ pc'[q] \in {"pricing", "lookup"} /\ answer'[q].kind = "none"
         /\ (pc'[q] = "lookup" => ask'[q].key # NoKey)
  BY <1>2, <1>3 DEF Finish, Goto, Inv, TypeOK
<1>6. \A r \in Requests \ {q} : DownstreamKey(r)' = DownstreamKey(r)
  BY <1>4 DEF DownstreamKey
<1>7. HandlersAreSound'
  <2>1. st' = st /\ call' = call /\ reply' = reply /\ cpc' = cpc /\ target' = target
    BY <1>2
  <2> QED
    BY <1>3, <1>4, <1>5, <1>6, <2>1 DEF Inv, HandlersAreSound, FreeKinds
<1>8. KeyRowsMatchOrders' /\ OrdersArePaid'
  BY <1>2, <1>3, <1>4, <1>6 DEF Inv, KeyRowsMatchOrders, OrdersArePaid
<1>9. ConfirmationsAreTrue'
  BY <1>2, <1>3, <1>4, <1>5 DEF Inv, ConfirmationsAreTrue
<1>10. RejectionsAreFree'
  BY <1>2, <1>3, <1>4 DEF Inv, RejectionsAreFree, TypeOK, P!PTypeOK
<1> QED
  BY <1>1, <1>7, <1>8, <1>9, <1>10 DEF Inv

\* A cancel changes the status of an order that exists, and nothing else.
LEMMA CancelInv ==
    ASSUME Inv, TypeOK', NEW x \in Cancels, Cancel(x)
    PROVE  Inv'
<1> USE DEF hvars, dvars, pvars
<1>1. P!PInv'
  BY DisconnectSound
     DEF Cancel, CancelRead, CancelReadFails, CancelWrite, CancelFails, Inv, P!PInv, P!PTypeOK
<1>2. UNCHANGED <<hvars, idem, pvars>>
  BY DEF Cancel, CancelRead, CancelReadFails, CancelWrite, CancelFails, MarkCancelled
<1>3. \/ orders' = orders
      \/ target[x] \in Placed
         /\ orders' = [orders EXCEPT ![target[x]].status = "CANCELLED"]
  BY DEF Cancel, CancelRead, CancelReadFails, CancelWrite, CancelFails, MarkCancelled, Inv, HandlersAreSound
<1>4. Placed' = Placed /\ \A o \in Placed : orders'[o].auth = orders[o].auth
  <2>1. CASE orders' = orders
    BY <2>1 DEF Placed
  <2>2. CASE orders' # orders
    <3>1. /\ target[x] \in Placed
          /\ orders' = [orders EXCEPT ![target[x]] =
                          [orders[target[x]] EXCEPT !.status = "CANCELLED"]]
      BY <1>3, <2>2
    <3>2. target[x] \in Requests /\ orders[target[x]] \in Row
      BY <3>1 DEF Placed, Inv, TypeOK
    <3> DEFINE new == [orders[target[x]] EXCEPT !.status = "CANCELLED"]
    <3>3. new.status = "CANCELLED" /\ new.auth = orders[target[x]].auth
      BY <3>2 DEF Row
    <3>4. \A o \in Requests : orders'[o] = IF o = target[x] THEN new ELSE orders[o]
      BY <3>1, <3>2 DEF Inv, TypeOK
    <3> HIDE DEF new
    <3> QED
      BY <3>1, <3>3, <3>4 DEF Placed
  <2> QED
    BY <2>1, <2>2
<1>5. \A y \in Cancels : cpc'[y] = "cancelling" => target'[y] \in Placed
  BY DEF Cancel, CancelRead, CancelReadFails, CancelWrite, CancelFails, CancelDone, Inv, TypeOK,
         HandlersAreSound, Placed
<1>6. \A r \in Requests : DownstreamKey(r)' = DownstreamKey(r)
  BY <1>2 DEF DownstreamKey
<1>7. HandlersAreSound'
  BY <1>2, <1>4, <1>5, <1>6 DEF Inv, HandlersAreSound
<1>8. KeyRowsMatchOrders' /\ ConfirmationsAreTrue' /\ RejectionsAreFree'
  BY <1>2, <1>4 DEF Inv, KeyRowsMatchOrders, ConfirmationsAreTrue, RejectionsAreFree
<1>9. OrdersArePaid'
  <2>1. Placed \subseteq Requests
    BY DEF Placed
  <2> QED
    BY <1>2, <1>4, <1>6, <2>1 DEF Inv, OrdersArePaid
<1> QED
  BY <1>1, <1>7, <1>8, <1>9 DEF Inv

\* Payments works on a call: no order and no answer of orders changes, and no
\* request that was rejected has a call payments could still charge.
LEMMA PaymentsStepInv ==
    ASSUME Inv, TypeOK', NEW q \in Requests, PaymentsStep(q)
    PROVE  Inv'
<1> USE DEF hvars, cvars, dvars
<1>1. P!Serve(q) /\ UNCHANGED <<hvars, cvars, dvars, price>>
  BY DEF PaymentsStep
<1>2. P!PInv'
  BY <1>1, ServeSound DEF Inv
<1>3. /\ call' = call
      /\ st[q] \in {"sent", "working", "decided"}
      /\ st'[q] \in {"working", "decided", "answered", "abandoned"}
      /\ \A d \in Requests \ {q} : st'[d] = st[d] /\ reply'[d] = reply[d]
      /\ ledger \subseteq ledger' /\ ledger' \subseteq ledger \cup {q}
  BY <1>1, ServeEffect DEF Inv
<1>4. Placed' = Placed /\ Placed \subseteq Requests
  BY <1>1 DEF Placed
<1>5. \A r \in Requests : DownstreamKey(r)' = DownstreamKey(r)
  BY <1>1 DEF DownstreamKey
<1>6. answer[q].kind \notin FreeKinds /\ pc[q] # "persist"
  BY <1>3 DEF Inv, HandlersAreSound
<1>7. HandlersAreSound'
  BY <1>1, <1>3, <1>4, <1>5, <1>6 DEF Inv, HandlersAreSound
<1>8. KeyRowsMatchOrders' /\ ConfirmationsAreTrue'
  BY <1>1, <1>4 DEF Inv, KeyRowsMatchOrders, ConfirmationsAreTrue
<1>9. OrdersArePaid'
  BY <1>1, <1>3, <1>4, <1>5 DEF Inv, OrdersArePaid
<1>10. RejectionsAreFree'
  BY <1>1, <1>3, <1>6 DEF Inv, RejectionsAreFree
<1> QED
  BY <1>2, <1>7, <1>8, <1>9, <1>10 DEF Inv

\* Payments restarts: what was received before stays received.
LEMMA PaymentsRestartInv ==
    ASSUME Inv, TypeOK', PaymentsRestart
    PROVE  Inv'
<1> USE DEF hvars, cvars, dvars
<1>1. P!PInv'
  BY RestartSound DEF PaymentsRestart, Inv
<1>2. UNCHANGED <<hvars, cvars, dvars, price, call, live, reply, ledger>>
  BY DEF PaymentsRestart, P!Restart
<1>3. \A r \in Requests :
          \/ st'[r] = st[r]
          \/ st[r] \in {"sent", "working", "decided"} /\ st'[r] = "dead"
  BY DEF PaymentsRestart, P!Restart, P!InFlight
<1>4. Placed' = Placed /\ Placed \subseteq Requests
  BY <1>2 DEF Placed
<1>5. \A r \in Requests : DownstreamKey(r)' = DownstreamKey(r)
  BY <1>2 DEF DownstreamKey
<1>6. HandlersAreSound'
  BY <1>2, <1>3, <1>4, <1>5 DEF Inv, HandlersAreSound
<1>7. KeyRowsMatchOrders' /\ ConfirmationsAreTrue'
      /\ OrdersArePaid' /\ RejectionsAreFree'
  BY <1>2, <1>4, <1>5 DEF Inv, KeyRowsMatchOrders, ConfirmationsAreTrue,
     OrdersArePaid, RejectionsAreFree
<1> QED
  BY <1>1, <1>6, <1>7 DEF Inv

\* Every step keeps Inv.
LEMMA NextInv == Inv /\ [Next]_vars => Inv'
<1> SUFFICES ASSUME Inv, [Next]_vars PROVE Inv'
  OBVIOUS
<1>1. TypeOK'
  BY NextTypeOK DEF Inv
<1>2. ASSUME NEW q \in Requests, Arrive(q) PROVE Inv'
  BY <1>1, <1>2, ArriveInv
<1>3. ASSUME NEW q \in Requests, Checkout(q) PROVE Inv'
  BY <1>1, <1>3, BeforeChargeInv, StartChargeInv, ChargeAnsweredInv,
     ChargeLostInv, WriteInv, PersistFailsInv DEF Checkout
<1>4. ASSUME NEW q \in Requests, PaymentsStep(q) PROVE Inv'
  BY <1>1, <1>4, PaymentsStepInv
<1>5. ASSUME NEW x \in Cancels, Cancel(x)
      PROVE  Inv'
  BY <1>1, <1>5, CancelInv
<1>6. CASE PaymentsRestart
  BY <1>1, <1>6, PaymentsRestartInv
<1>7. CASE Crash
  <2>1. P!PInv'
    BY <1>1, <1>7, DisconnectSound DEF Crash, Inv, TypeOK, P!PTypeOK
  <2>2. /\ UNCHANGED <<ask, answer, orders, idem, target, call, st, reply, ledger>>
        /\ \A q \in Requests : pc'[q] = IF Running(q) THEN "crashed" ELSE pc[q]
        /\ \A x \in Cancels : cpc'[x] = "cancelling" => cpc[x] = "cancelling"
    BY <1>7 DEF Crash, dvars
  <2> QED
    BY <1>1, <2>1, <2>2, GoOnInv DEF Running
<1>8. ASSUME UNCHANGED <<hvars, cvars, dvars, pvars>> PROVE Inv'
  <2> USE <1>8 DEF hvars, cvars, dvars, pvars
  <2>1. P!PInv'
    BY DisconnectSound DEF Inv, P!PInv, P!PTypeOK
  <2> QED
    BY <1>1, <2>1, GoOnInv
<1>9. ASSUME NEW s \in Skus, NEW p \in Prices \cup {-1}, Reprice(s, p)
      PROVE  Inv'
  BY <1>8, <1>9 DEF Reprice
<1>10. CASE Idle \/ UNCHANGED vars
  BY <1>8, <1>10 DEF Idle, vars, hvars, cvars, dvars, pvars
<1> QED
  BY <1>2, <1>3, <1>4, <1>5, <1>6, <1>7, <1>9, <1>10 DEF Next

\* Inv holds in every reachable state, whatever Faults allows.
THEOREM Invariant == Spec => []Inv
BY InitInv, NextInv, PTL DEF Spec

\* A key never names two orders and an order never loses its key, for any
\* number of racing retries (repository.py:66-90).
THEOREM KeyRowsMatch == Spec => []KeyRowsMatchOrders
BY Invariant, PTL DEF Inv

\* Every order in the table was paid for under its own key, although charge
\* and insert are two steps (service.py:75-80).
THEOREM OrdersPaid == Spec => []OrdersArePaid
BY Invariant, PTL DEF Inv

\* A 201 names an order that exists, and the one its key stands for
\* (service.py:49-53, 83-90).
THEOREM ConfirmationsTrue == Spec => []ConfirmationsAreTrue
BY Invariant, PTL DEF Inv

\* A rejected checkout is never charged, not even later (service.py:58-76).
THEOREM RejectionsFree == Spec => []RejectionsAreFree
BY Invariant, PTL DEF Inv

\* A payment pays for one order.
PaymentsBuyOnce ==
    \A o, p \in Placed : orders[o].auth = orders[p].auth => o = p

\* No payment stands behind two orders, however many tries share the key it was
\* taken under: the key it was taken under names one order (service.py:75-90,
\* repository.py:66-90).
THEOREM PaymentsBoughtOnce == Spec => []PaymentsBuyOnce
<1>1. Inv => PaymentsBuyOnce
  <2> SUFFICES ASSUME Inv, NEW o \in Placed, NEW p \in Placed,
                      orders[o].auth = orders[p].auth
               PROVE  o = p
    BY DEF PaymentsBuyOnce
  <2>1. o \in Requests /\ p \in Requests
    BY DEF Placed
  <2>2. DownstreamKey(o) = DownstreamKey(p)
    BY DEF Inv, OrdersArePaid
  <2>3. ask[o].key \in Keys \cup {NoKey} /\ ask[p].key \in Keys \cup {NoKey}
    BY <2>1 DEF Inv, TypeOK, Ask
  <2>4. ask[o].key # NoKey => idem[ask[o].key] = o
    BY DEF Inv, KeyRowsMatchOrders
  <2>5. ask[p].key # NoKey => idem[ask[p].key] = p
    BY DEF Inv, KeyRowsMatchOrders
  <2> QED
    BY <2>1, <2>2, <2>3, <2>4, <2>5, OrdersAssumption DEF DownstreamKey
<1> QED
  BY <1>1, Invariant, PTL

\* How far a handler has got, its RPC, its order and its answer belong together
\* whatever fails around it (service.py:42-90).
\* In particular a handler about to write its order holds the id of a payment that
\* was really taken, and taken under the key its order will be stored under, even
\* where another try of the key made it and payments has been restarted since.
ApprovalsAreHeld ==
    \A q \in Requests : pc[q] = "persist" =>
        reply[q].by \in ledger /\ call[reply[q].by].key = DownstreamKey(q)
THEOREM HandlersSound == Spec => [](HandlersAreSound /\ ApprovalsAreHeld)
<1>1. Inv => ApprovalsAreHeld
  BY DEF Inv, HandlersAreSound, P!PInv, P!ApprovalsAreReal, ApprovalsAreHeld
<1> QED
  BY <1>1, Invariant, PTL DEF Inv

-----------------------------------------------------------------------------
(***************************************************************************)
(* Steps: what is committed stays, and the orders service implements the   *)
(* order book.                                                             *)
(***************************************************************************)

\* Every step leaves the tables alone, places one order or cancels one.
LEMMA TableSteps ==
    ASSUME Inv, [Next]_vars
    PROVE  \/ UNCHANGED dvars
           \/ \E q \in Requests : Persist(q) \/ CommitUnacknowledged(q)
           \/ \E x \in Cancels : cpc[x] = "cancelling" /\ MarkCancelled(x)
                                  /\ UNCHANGED <<hvars, pvars>>
<1> USE DEF hvars, cvars, dvars, pvars
<1>1. ASSUME NEW q \in Requests, Arrive(q) \/ PaymentsStep(q) PROVE UNCHANGED dvars
  BY <1>1 DEF Arrive, PaymentsStep
<1>2. ASSUME NEW q \in Requests, Checkout(q)
      PROVE  UNCHANGED dvars \/ Persist(q) \/ CommitUnacknowledged(q)
  BY <1>2 DEF Checkout, Lookup, LookupFails, Replay, ReplayFails, PriceLine, ProductMissing,
              CatalogFails, StartCharge, ChargeAnswered, ChargeLost, PersistFails
<1>3. ASSUME NEW x \in Cancels, Cancel(x)
      PROVE  \/ UNCHANGED dvars
             \/ cpc[x] = "cancelling" /\ MarkCancelled(x) /\ UNCHANGED <<hvars, pvars>>
  BY <1>3 DEF Cancel, CancelRead, CancelReadFails, CancelWrite, CancelFails
<1>4. CASE PaymentsRestart \/ Crash \/ Idle \/ UNCHANGED vars
  BY <1>4 DEF PaymentsRestart, Crash, Idle, vars
<1>5. ASSUME NEW s \in Skus, NEW p \in Prices \cup {-1}, Reprice(s, p)
      PROVE  UNCHANGED dvars
  BY <1>5 DEF Reprice
<1> QED
  BY <1>1, <1>2, <1>3, <1>4, <1>5 DEF Next

\* What a step may do to the tables: place an order, cancel one, store a key.
TablesKept ==
    /\ \A o \in Placed :
         orders'[o] \in {orders[o], [orders[o] EXCEPT !.status = "CANCELLED"]}
    /\ \A k \in Keys : idem[k] # None => idem'[k] = idem[k]

\* No step does more.
LEMMA KeepStep == ASSUME Inv, [Next]_vars PROVE TablesKept
<1>1. CASE UNCHANGED dvars
  BY <1>1 DEF dvars, TablesKept
<1>2. ASSUME NEW q \in Requests, Persist(q) \/ CommitUnacknowledged(q) PROVE TablesKept
  <2>1. pc[q] = "persist" /\ ~Conflict(q) /\ Write(q)
    BY <1>2 DEF Persist, CommitUnacknowledged
  <2>2. q \notin Placed
    BY <2>1 DEF Inv, HandlersAreSound
  <2> QED
    BY <2>1, <2>2 DEF TablesKept, Write, Conflict, KeyTaken, Placed, Inv, TypeOK
<1>3. ASSUME NEW x \in Cancels, MarkCancelled(x) PROVE TablesKept
  BY <1>3 DEF TablesKept, MarkCancelled, Placed, Inv, TypeOK
<1> QED
  BY <1>1, <1>2, <1>3, TableSteps

\* An order, once placed, is only ever cancelled, and a key, once stored, is
\* never moved (repository.py:66-90, 127-130).
THEOREM CommittedStays == Spec => CommittedIsForever
<1>1. Inv /\ [Next]_vars => [TablesKept]_vars
  BY KeepStep
<1> QED
  BY <1>1, Invariant, PTL DEF Spec, CommittedIsForever, TablesKept

\* A handler that is over does not answer again, and a step that answers comes
\* from the handler it answers for.
LEMMA AnswerSteps ==
    ASSUME Inv, [Next]_vars, NEW q \in Requests, answer'[q] # answer[q]
    PROVE  (Arrive(q) \/ Checkout(q)) /\ pc[q] # "done"
<1> USE DEF hvars, cvars, dvars, pvars
<1>1. ASSUME NEW r \in Requests, Arrive(r) PROVE r = q /\ pc[q] # "done"
  BY <1>1 DEF Arrive, Finish, Goto, Inv, TypeOK
<1>2. ASSUME NEW r \in Requests, Checkout(r) PROVE r = q /\ pc[q] # "done"
  BY <1>2 DEF Checkout, Lookup, LookupFails, Replay, ReplayFails, PriceLine,
     ProductMissing, CatalogFails, StartCharge, ChargeAnswered, ChargeLost, Persist,
     PersistFails, CommitUnacknowledged, Unpriced, Finish, Goto, Inv, TypeOK
<1>3. ASSUME NEW r \in Requests PROVE ~PaymentsStep(r)
  BY DEF PaymentsStep
<1>4. ASSUME NEW x \in Cancels PROVE ~Cancel(x)
  BY DEF Cancel, CancelRead, CancelReadFails, CancelWrite, CancelFails
<1>5. ~PaymentsRestart /\ ~Crash /\ ~Idle /\ ~(UNCHANGED vars)
  BY DEF PaymentsRestart, Crash, Idle, vars
<1>6. ASSUME NEW s \in Skus, NEW p \in Prices \cup {-1} PROVE ~Reprice(s, p)
  BY DEF Reprice
<1> QED
  BY <1>1, <1>2, <1>3, <1>4, <1>5, <1>6 DEF Next

\* No step leaves an order or a key row of a request that is told of a problem,
\* except the one that loses the acknowledgement of its COMMIT.
LEMMA MisledStep ==
    ASSUME Inv, [Next]_vars, NEW q \in Requests,
           answer'[q].kind \notin {"none", "confirmed"},
           orders'[q].status # "none" \/ \E k \in Keys : idem'[k] = q
    PROVE  Misled(q) \/ CommitUnacknowledged(q)
<1>1. (\E k \in Keys : idem[k] = q) => q \in Placed
  BY OrdersAssumption DEF Inv, KeyRowsMatchOrders
<1>2. q \in Placed => pc[q] = "done"
  BY DEF Inv, HandlersAreSound
<1>3. CASE q \in Placed
  BY <1>2, <1>3, AnswerSteps DEF Misled
<1>4. CASE q \notin Placed
  <2>1. ~(UNCHANGED dvars)
    BY <1>1, <1>4 DEF dvars, Placed
  <2>2. ASSUME NEW x \in Cancels, cpc[x] = "cancelling", MarkCancelled(x) PROVE FALSE
    <3>1. target[x] \in Placed
      BY <2>2 DEF Inv, HandlersAreSound
    <3> QED
      BY <1>1, <1>4, <2>2, <3>1 DEF MarkCancelled, Placed, Inv, TypeOK
  <2>3. PICK r \in Requests : Persist(r) \/ CommitUnacknowledged(r)
    BY <2>1, <2>2, TableSteps
  <2>4. r = q
    BY <1>1, <1>4, <2>3 DEF Persist, CommitUnacknowledged, Write, Placed, Inv, TypeOK
  <2>5. ~Persist(q)
    BY DEF Persist, Finish, Inv, TypeOK
  <2> QED
    BY <2>3, <2>4, <2>5
<1> QED
  BY <1>3, <1>4

\* A checkout answered with a problem has left no order and no key row and never
\* will, unless it is its own COMMIT that went through and whose acknowledgement
\* did not (contracts/orders.v1.yaml:77).
THEOREM FailuresLeaveNothing == Spec => FailuresLeaveNoOrder
<1> DEFINE Told == \A q \in Requests : Misled(q)' => Misled(q) \/ CommitUnacknowledged(q)
<1>1. Inv /\ [Next]_vars => [Told]_vars
  BY MisledStep DEF Misled, Placed
<1> QED
  BY <1>1, Invariant, PTL DEF Spec, FailuresLeaveNoOrder

\* An order whose cancel was acknowledged is cancelled in the table.
CancelsAreMarked ==
    \A y \in Cancels : canswer[y] = "cancelled" =>
        /\ cpc[y] = "done" /\ target[y] \in Requests
        /\ orders[target[y]].status = "CANCELLED"

\* No step takes an acknowledged cancel back.
LEMMA MarkedStep ==
    ASSUME Inv, CancelsAreMarked, [Next]_vars
    PROVE  CancelsAreMarked'
<1>1. ASSUME UNCHANGED cvars PROVE CancelsAreMarked'
  BY <1>1, KeepStep DEF cvars, CancelsAreMarked, TablesKept, Placed, Inv, TypeOK, Row
<1>2. ASSUME NEW x \in Cancels, NEW o \in Requests,
             CancelRead(x, o) \/ CancelReadFails(x, o)
      PROVE  CancelsAreMarked'
  BY <1>2 DEF CancelRead, CancelReadFails, ReadError, CancelDone, CancelsAreMarked, dvars, Inv, TypeOK
<1>3. ASSUME NEW x \in Cancels, CancelWrite(x) \/ CancelFails(x)
      PROVE  CancelsAreMarked'
  <2>1. target[x] \in Requests /\ target' = target
    BY <1>3 DEF CancelWrite, CancelFails, Inv, HandlersAreSound, Placed
  <2>2. \A o \in Requests : orders[o].status = "CANCELLED" => orders'[o].status = "CANCELLED"
    BY <1>3, <2>1 DEF CancelWrite, CancelFails, MarkCancelled, dvars, Inv, TypeOK, Row
  <2>3. \A y \in Cancels \ {x} : cpc'[y] = cpc[y] /\ canswer'[y] = canswer[y]
    BY <1>3 DEF CancelWrite, CancelFails, CancelDone, Inv, TypeOK
  <2>4. cpc'[x] = "done" /\ (canswer'[x] = "cancelled" => CancelWrite(x))
    BY <1>3 DEF CancelWrite, CancelFails, CancelDone, Inv, TypeOK
  <2>5. CancelWrite(x) => orders'[target[x]].status = "CANCELLED"
    BY <2>1 DEF CancelWrite, MarkCancelled, Inv, TypeOK, Row
  <2> QED
    BY <2>1, <2>2, <2>3, <2>4, <2>5 DEF CancelsAreMarked
<1>4. ASSUME NEW q \in Requests, Arrive(q) \/ PaymentsStep(q) PROVE UNCHANGED cvars
  BY <1>4 DEF Arrive, PaymentsStep
<1>5. ASSUME NEW q \in Requests, Checkout(q) PROVE UNCHANGED cvars
  BY <1>5 DEF Checkout, Lookup, LookupFails, Replay, ReplayFails, PriceLine, ProductMissing,
     CatalogFails, StartCharge, ChargeAnswered, ChargeLost, Persist, PersistFails,
     CommitUnacknowledged
<1>6. ASSUME NEW s \in Skus, NEW p \in Prices \cup {-1}, Reprice(s, p)
      PROVE  UNCHANGED cvars
  BY <1>6 DEF Reprice
<1>7. PaymentsRestart \/ Idle \/ UNCHANGED vars => UNCHANGED cvars
  BY DEF PaymentsRestart, Idle, vars, hvars, cvars, dvars, pvars
<1>8. CASE Crash
  BY <1>8 DEF Crash, CancelsAreMarked, dvars, Inv, TypeOK
<1> QED
  BY <1>1, <1>2, <1>3, <1>4, <1>5, <1>6, <1>7, <1>8 DEF Next, Cancel

\* A cancel that begins after another was acknowledged never cancels again: it is
\* refused at once, or its read failed, for any number of cancels and whatever
\* crashes between them (service.py:110-114).
THEOREM LaterCancelsRefused == Spec => LaterCancelsAreRefused
<1> DEFINE Refused ==
      \A x, y \in Cancels :
         canswer[y] = "cancelled" /\ cpc[x] = "idle" /\ cpc'[x] # "idle"
           /\ target'[x] = target[y]
         => /\ cpc'[x] = "done"
            /\ \/ canswer'[x] = "order-not-cancellable"
               \/ CancelReadFails(x, target[y])
<1>1. Init => CancelsAreMarked
  BY DEF Init, CancelsAreMarked
<1>2. Inv /\ CancelsAreMarked /\ [Next]_vars => CancelsAreMarked'
  BY MarkedStep
<1>3. ASSUME Inv, CancelsAreMarked, [Next]_vars PROVE Refused
  <2> SUFFICES ASSUME NEW x \in Cancels, NEW y \in Cancels, canswer[y] = "cancelled",
                      cpc[x] = "idle", cpc'[x] # "idle", target'[x] = target[y]
               PROVE  /\ cpc'[x] = "done"
                      /\ \/ canswer'[x] = "order-not-cancellable"
                         \/ CancelReadFails(x, target[y])
    OBVIOUS
  <2>1. cpc' # cpc
    OBVIOUS
  <2>2. ASSUME NEW q \in Requests PROVE ~Arrive(q) /\ ~PaymentsStep(q) /\ ~Checkout(q)
    BY <2>1 DEF Arrive, PaymentsStep, Checkout, Lookup, LookupFails, Replay, ReplayFails, PriceLine,
       ProductMissing, CatalogFails, StartCharge, ChargeAnswered, ChargeLost, Persist,
       PersistFails, CommitUnacknowledged, cvars
  <2>3. ~PaymentsRestart /\ ~Idle /\ ~(UNCHANGED vars)
    BY <2>1 DEF PaymentsRestart, Idle, vars, cvars
  <2>4. ASSUME NEW s \in Skus, NEW p \in Prices \cup {-1} PROVE ~Reprice(s, p)
    BY <2>1 DEF Reprice, cvars
  <2>5. ~Crash
    BY <1>3 DEF Crash, Inv, TypeOK
  <2>6. ASSUME NEW z \in Cancels PROVE ~CancelWrite(z) /\ ~CancelFails(z)
    BY <1>3, <2>6 DEF CancelWrite, CancelFails, CancelDone, Inv, TypeOK
  <2>7. PICK z \in Cancels, o \in Requests : CancelRead(z, o) \/ CancelReadFails(z, o)
    BY <1>3, <2>2, <2>3, <2>4, <2>5, <2>6 DEF Next, Cancel
  <2>8. z = x /\ o = target[y]
    BY <1>3, <2>7 DEF CancelRead, CancelReadFails, CancelDone, Inv, TypeOK
  <2>9. orders[o].status = "CANCELLED"
    BY <1>3, <2>8 DEF CancelsAreMarked
  <2> QED
    BY <1>3, <2>7, <2>8, <2>9 DEF CancelRead, CancelReadFails, CancelDone, Inv, TypeOK
<1>4. Inv /\ CancelsAreMarked /\ [Next]_vars => [Refused]_vars
  BY <1>3
<1> QED
  BY <1>1, <1>2, <1>4, Invariant, PTL DEF Spec, LaterCancelsAreRefused

\* The book's view of the state.
LEMMA BookInit == Init => Book!Init
BY DEF Init, Book!Init, NoRow, P!PInit

\* A payment step takes a payment or is none of the book's business.
LEMMA BookPayment ==
    ASSUME Inv, NEW q \in Requests, PaymentsStep(q)
    PROVE  Book!Next \/ UNCHANGED Book!bvars
<1>1. /\ call' = call /\ UNCHANGED dvars
      /\ ledger' = ledger \/ ledger' = ledger \cup {q}
      /\ st[q] # "none"
  BY ServeEffect DEF PaymentsStep, Inv
<1>2. call[q].key \in Keys \cup Requests
  BY <1>1 DEF Inv, HandlersAreSound, DownstreamKey, TypeOK, Ask
<1>3. PICK d \in Keys \cup Requests : d = call[q].key
  BY <1>2
<1>4. CASE ledger' = ledger
  BY <1>1, <1>4 DEF dvars, Book!bvars
<1>5. CASE ledger' = ledger \cup {q}
  <2>1. {call'[c].key : c \in ledger'} = {call[c].key : c \in ledger} \cup {d}
    BY <1>1, <1>3, <1>5
  <2>2. Book!TakePayment(d)
    BY <1>1, <2>1 DEF Book!TakePayment, dvars
  <2> QED
    BY <2>2 DEF Book!Next
<1> QED
  BY <1>1, <1>4, <1>5

\* Persisting places an order whose key has been paid under.
LEMMA BookPlace ==
    ASSUME Inv, NEW q \in Requests, Persist(q) \/ CommitUnacknowledged(q)
    PROVE  Book!Next
<1> DEFINE stat == [o \in Requests |-> orders[o].status]
           pd   == {call[c].key : c \in ledger}
<1>1. /\ pc[q] = "persist" /\ ~Conflict(q) /\ Write(q)
      /\ UNCHANGED <<ask, pvars>>
  BY DEF Persist, CommitUnacknowledged
<1>2. q \notin Placed /\ reply[q].status = "APPROVED" /\ call[q].key = DownstreamKey(q)
  BY <1>1 DEF Inv, HandlersAreSound
<1>3. reply[q].by \in ledger /\ call[reply[q].by].key = DownstreamKey(q)
  BY <1>2 DEF Inv, P!PInv, P!ApprovalsAreReal
<1>4. DownstreamKey(q) \in pd
  BY <1>3
<1>5. stat[q] = "none"
  BY <1>2 DEF Placed
<1>6. [o \in Requests |-> orders'[o].status] = [stat EXCEPT ![q] = "CONFIRMED"]
  BY <1>1 DEF Write, Inv, TypeOK
<1>7. {call'[c].key : c \in ledger'} = pd
  BY <1>1 DEF pvars
<1>8. CASE ask[q].key = NoKey
  <2>1. Book!PlaceUnnamed(q)
    BY <1>1, <1>4, <1>5, <1>6, <1>7, <1>8
       DEF Book!PlaceUnnamed, Write, DownstreamKey
  <2> QED
    BY <2>1 DEF Book!Next
<1>9. CASE ask[q].key # NoKey
  <2>1. PICK k \in Keys : k = ask[q].key
    BY <1>9 DEF Inv, TypeOK, Ask
  <2>2. Book!PlaceNamed(q, k)
    BY <1>1, <1>4, <1>5, <1>6, <1>7, <1>9, <2>1
       DEF Book!PlaceNamed, Write, DownstreamKey, Conflict, KeyTaken
  <2> QED
    BY <2>2 DEF Book!Next
<1> QED
  BY <1>8, <1>9

\* Marking an order cancelled cancels it in the book, or says it again.
LEMMA BookCancel ==
    ASSUME Inv, NEW x \in Cancels, cpc[x] = "cancelling", MarkCancelled(x),
           UNCHANGED <<hvars, pvars>>
    PROVE  Book!Next \/ UNCHANGED Book!bvars
<1> DEFINE stat == [r \in Requests |-> orders[r].status]
<1>6. PICK o \in Requests : o = target[x]
  BY DEF Inv, HandlersAreSound, Placed
<1>1. orders[o] \in Row /\ orders[o].status # "none"
  BY <1>6 DEF Inv, HandlersAreSound, TypeOK, Placed
<1>2. [r \in Requests |-> orders'[r].status] = [stat EXCEPT ![o] = "CANCELLED"]
      /\ idem' = idem
  BY <1>1, <1>6 DEF MarkCancelled, Inv, TypeOK, Row
<1>3. {call'[c].key : c \in ledger'} = {call[c].key : c \in ledger}
  BY DEF pvars
<1>4. CASE orders[o].status = "CANCELLED"
  <2>1. [stat EXCEPT ![o] = "CANCELLED"] = stat
    BY <1>1, <1>4
  <2> QED
    BY <1>2, <1>3, <2>1 DEF Book!bvars
<1>5. CASE orders[o].status = "CONFIRMED"
  <2>1. Book!Cancel(o)
    BY <1>1, <1>2, <1>3, <1>5 DEF Book!Cancel
  <2> QED
    BY <2>1 DEF Book!Next
<1> QED
  BY <1>1, <1>4, <1>5 DEF Row

\* Every step of the service is a step of the book, or none to be seen.
LEMMA BookStep == Inv /\ [Next]_vars => [Book!Next]_(Book!bvars)
<1> SUFFICES ASSUME Inv, [Next]_vars PROVE Book!Next \/ UNCHANGED Book!bvars
  OBVIOUS
<1>1. ASSUME NEW q \in Requests, PaymentsStep(q)
      PROVE  Book!Next \/ UNCHANGED Book!bvars
  BY <1>1, BookPayment
<1>2. ASSUME NEW q \in Requests, Persist(q) \/ CommitUnacknowledged(q)
      PROVE  Book!Next
  BY <1>2, BookPlace
<1>3. ASSUME NEW x \in Cancels, cpc[x] = "cancelling", MarkCancelled(x),
             UNCHANGED <<hvars, pvars>>
      PROVE  Book!Next \/ UNCHANGED Book!bvars
  BY <1>3, BookCancel
<1>4. CASE UNCHANGED dvars /\ \A q \in Requests : ~PaymentsStep(q)
  <2>1. ledger' = ledger /\ \A c \in ledger : call'[c].key = call[c].key
    <3> USE DEF hvars, cvars, dvars, pvars
    <3>1. ASSUME NEW q \in Requests, Arrive(q) \/ (Checkout(q) /\ ~StartCharge(q))
          PROVE  call' = call /\ ledger' = ledger
      BY <3>1 DEF Arrive, Checkout, Lookup, LookupFails, Replay, ReplayFails, PriceLine,
         ProductMissing, CatalogFails, ChargeAnswered, ChargeLost, Persist,
         PersistFails, CommitUnacknowledged, P!Receive, P!HangUp
    <3>2. ASSUME NEW q \in Requests, StartCharge(q)
          PROVE  ledger' = ledger /\ \A c \in ledger : call'[c].key = call[c].key
      BY <3>2 DEF StartCharge, P!Send, Inv, TypeOK, P!PTypeOK, P!PInv, P!StagesAreSound
    <3>3. ASSUME NEW x \in Cancels, Cancel(x)
          PROVE  call' = call /\ ledger' = ledger
      BY <3>3 DEF Cancel, CancelRead, CancelReadFails, CancelWrite, CancelFails
    <3>4. CASE PaymentsRestart \/ Crash \/ Idle \/ UNCHANGED vars
      BY <3>4 DEF PaymentsRestart, P!Restart, Crash, Idle, vars
    <3>5. ASSUME NEW s \in Skus, NEW p \in Prices \cup {-1}, Reprice(s, p)
          PROVE  call' = call /\ ledger' = ledger
      BY <3>5 DEF Reprice
    <3> QED
      BY <1>4, <3>1, <3>2, <3>3, <3>4, <3>5 DEF Next
  <2>2. {call'[c].key : c \in ledger'} = {call[c].key : c \in ledger}
    BY <2>1
  <2> QED
    BY <1>4, <2>2 DEF dvars, Book!bvars
<1> QED
  BY <1>1, <1>2, <1>3, <1>4, TableSteps

\* The orders service implements the order book: whatever fails, no order is
\* placed that was not paid for, a key names one order, and a cancel that runs
\* twice cancels once (service.py, repository.py).
THEOREM ImplementsBook == Spec => BookSpec
BY BookInit, BookStep, Invariant, PTL DEF Spec, BookSpec, Book!Spec

-----------------------------------------------------------------------------
(***************************************************************************)
(* Retries.                                                                *)
(***************************************************************************)

\* A request whose key had an order on arrival never gets as far as pricing
\* (service.py:46-53).
LateAreReplayed ==
    \A q \in Requests : ask[q].late =>
        /\ ask[q].key \in Keys /\ idem[ask[q].key] # None
        /\ pc[q] \in {"lookup", "replay", "done", "crashed"}
        /\ st[q] = "none"

\* Every step keeps late requests away from payments.
LEMMA LateStep ==
    ASSUME ~ErrorMeansNoRow \/ "database" \notin Faults,
           Inv, LateAreReplayed, [Next]_vars
    PROVE  LateAreReplayed'
<1> USE DEF hvars, cvars, dvars, pvars
<1>1. \A k \in Keys : idem[k] # None => idem'[k] = idem[k]
  <2>1. CASE UNCHANGED dvars
    BY <2>1
  <2>2. ASSUME NEW q \in Requests, Persist(q) \/ CommitUnacknowledged(q)
        PROVE  \A k \in Keys : idem[k] # None => idem'[k] = idem[k]
    BY <2>2 DEF Persist, CommitUnacknowledged, Write, Conflict, KeyTaken, Inv, TypeOK
  <2> QED
    BY <2>1, <2>2, TableSteps DEF MarkCancelled
<1>2. ASSUME NEW q \in Requests, Arrive(q) PROVE LateAreReplayed'
  <2>1. PICK k \in Keys \cup {NoKey}, b \in Baskets :
          /\ pc[q] = "idle"
          /\ ask' = [ask EXCEPT ![q] =
                       [key |-> k, basket |-> b,
                        late |-> IF k = NoKey THEN FALSE ELSE idem[k] # None]]
          /\ IF ~Valid(b) THEN Finish(q, "validation-failed", None)
             ELSE Goto(q, IF k = NoKey THEN "pricing" ELSE "lookup")
          /\ UNCHANGED <<draft, cvars, dvars, price, pvars>>
    BY <1>2 DEF Arrive
  <2>2. st[q] = "none"
    BY <2>1 DEF Inv, HandlersAreSound
  <2>3. /\ ask'[q].key = k
        /\ ask'[q].late => k \in Keys /\ idem[k] # None
        /\ ask'[q].late => pc'[q] \in {"done", "lookup"}
    BY <2>1 DEF Finish, Goto, Inv, TypeOK
  <2>4. \A r \in Requests \ {q} : ask'[r] = ask[r] /\ pc'[r] = pc[r]
    BY <2>1 DEF Finish, Goto, Inv, TypeOK
  <2> QED
    BY <2>1, <2>2, <2>3, <2>4 DEF LateAreReplayed
<1>3. ASSUME ask' = ask,
             \A q \in Requests : ask[q].late =>
                 /\ pc'[q] = pc[q] \/ pc'[q] \in {"replay", "done", "crashed"}
                 /\ st'[q] = st[q]
      PROVE  LateAreReplayed'
  BY <1>1, <1>3 DEF LateAreReplayed
<1>4. ASSUME NEW q \in Requests, Lookup(q) PROVE LateAreReplayed'
  BY <1>3, <1>4 DEF Lookup, Goto, LateAreReplayed, Inv, TypeOK
<1>5. ASSUME NEW q \in Requests, LookupFails(q) \/ Replay(q) \/ ReplayFails(q)
      PROVE  LateAreReplayed'
  BY <1>3, <1>5 DEF LookupFails, Replay, ReplayFails, Finish, Inv, TypeOK
<1>6. ASSUME NEW q \in Requests,
             \/ PriceLine(q) \/ ProductMissing(q) \/ CatalogFails(q)
             \/ Persist(q) \/ PersistFails(q) \/ CommitUnacknowledged(q)
      PROVE  LateAreReplayed'
  BY <1>3, <1>6 DEF PriceLine, ProductMissing, CatalogFails, Persist, PersistFails,
     CommitUnacknowledged, Finish, Inv, TypeOK
<1>7. ASSUME NEW q \in Requests, StartCharge(q) \/ ChargeAnswered(q) \/ ChargeLost(q)
      PROVE  LateAreReplayed'
  <2>1. ~ask[q].late
    BY <1>7 DEF LateAreReplayed, StartCharge, ChargeAnswered, ChargeLost
  <2>2. ask' = ask
    BY <1>7 DEF StartCharge, ChargeAnswered, ChargeLost
  <2>3. \A r \in Requests \ {q} : pc'[r] = pc[r] /\ st'[r] = st[r]
    BY <1>7 DEF StartCharge, ChargeAnswered, ChargeLost, Finish, Goto, P!Send,
       P!Receive, P!HangUp, Inv, TypeOK, P!PTypeOK
  <2> QED
    BY <1>3, <2>1, <2>2, <2>3
<1>8. ASSUME NEW q \in Requests, PaymentsStep(q) PROVE LateAreReplayed'
  BY <1>3, <1>8, ServeEffect DEF PaymentsStep, LateAreReplayed, Inv
<1>9. CASE PaymentsRestart
  BY <1>3, <1>9 DEF PaymentsRestart, P!Restart, P!InFlight, LateAreReplayed
<1>10. CASE Crash
  BY <1>3, <1>10 DEF Crash
<1>11. ASSUME UNCHANGED <<hvars, pvars>> PROVE LateAreReplayed'
  BY <1>3, <1>11
<1>12. ASSUME NEW x \in Cancels, Cancel(x)
       PROVE  LateAreReplayed'
  BY <1>11, <1>12 DEF Cancel, CancelRead, CancelReadFails, CancelWrite, CancelFails
<1>13. ASSUME NEW s \in Skus, NEW p \in Prices \cup {-1}, Reprice(s, p)
       PROVE  LateAreReplayed'
  BY <1>11, <1>13 DEF Reprice
<1>14. CASE Idle \/ UNCHANGED vars
  BY <1>11, <1>14 DEF Idle, vars
<1> QED
  BY <1>2, <1>4, <1>5, <1>6, <1>7, <1>8, <1>9, <1>10, <1>12, <1>13, <1>14
     DEF Next, Checkout

\* A retry that arrives after its key's order is committed takes no money, even
\* if payments has restarted since, in the implementations whose failed key
\* lookup is an error (all but Go), or if no lookup fails (service.py:46-53).
THEOREM LateRetriesFree ==
    ASSUME ~ErrorMeansNoRow \/ "database" \notin Faults
    PROVE  Spec => []LateRetriesAreFree
<1>1. Init => LateAreReplayed
  BY DEF Init, LateAreReplayed, NoAsk
<1>2. Inv /\ LateAreReplayed /\ [Next]_vars => LateAreReplayed'
  BY LateStep
<1>3. Inv /\ LateAreReplayed => LateRetriesAreFree
  BY DEF Inv, LateAreReplayed, LateRetriesAreFree, P!PInv, P!PTypeOK, P!StagesAreSound
<1> QED
  BY <1>1, <1>2, <1>3, Invariant, PTL DEF Spec

\* Of two tries of one key, one is over.
OneTryAtATime ==
    \A q, r \in Requests :
        q # r /\ pc[q] # "idle" /\ pc[r] # "idle"
          /\ ask[q].key = ask[r].key /\ ask[q].key # NoKey
        => Over(q) \/ Over(r)

\* A handler that is past the lookup works on a key that has no order.
KeysAreFree ==
    \A q \in Requests :
        pc[q] \in {"pricing", "charging", "persist"} => ~KeyTaken(ask[q].key)

\* A handler only goes forward, and past the lookup by finding no order.
LEMMA HandlerSteps ==
    ASSUME ~ErrorMeansNoRow \/ "database" \notin Faults, Inv, [Next]_vars
    PROVE  \/ \E q \in Requests : Arrive(q)
           \/ /\ ask' = ask
              /\ \A q \in Requests :
                  /\ pc[q] = "idle" => pc'[q] = "idle"
                  /\ Over(q) => pc'[q] = pc[q]
                  /\ pc'[q] \in {"pricing", "charging", "persist"} =>
                        \/ pc[q] \in {"pricing", "charging", "persist"}
                        \/ pc[q] = "lookup" /\ idem[ask[q].key] = None
<1> USE DEF hvars, cvars, dvars, pvars, Over
<1>1. ASSUME NEW q \in Requests, Checkout(q)
      PROVE  /\ ask' = ask
             /\ \A r \in Requests \ {q} : pc'[r] = pc[r]
             /\ pc[q] \notin {"idle", "done", "crashed"} /\ pc'[q] # "idle"
             /\ pc'[q] \in {"pricing", "charging", "persist"} =>
                  \/ pc[q] \in {"pricing", "charging", "persist"}
                  \/ pc[q] = "lookup" /\ idem[ask[q].key] = None
  BY <1>1 DEF Checkout, Lookup, LookupFails, Replay, ReplayFails, PriceLine, ProductMissing,
     CatalogFails, StartCharge, ChargeAnswered, ChargeLost, Persist, PersistFails,
     CommitUnacknowledged, Unpriced, Finish, Goto, Inv, TypeOK
<1>2. ASSUME NEW q \in Requests, PaymentsStep(q) PROVE UNCHANGED <<ask, pc>>
  BY <1>2 DEF PaymentsStep
<1>3. ASSUME NEW x \in Cancels, Cancel(x)
      PROVE  UNCHANGED <<ask, pc>>
  BY <1>3 DEF Cancel, CancelRead, CancelReadFails, CancelWrite, CancelFails
<1>4. CASE PaymentsRestart \/ Idle \/ UNCHANGED vars
  BY <1>4 DEF PaymentsRestart, Idle, vars
<1>5. CASE Crash
  BY <1>5 DEF Crash, Running
<1>6. ASSUME NEW s \in Skus, NEW p \in Prices \cup {-1}, Reprice(s, p)
      PROVE  UNCHANGED <<ask, pc>>
  BY <1>6 DEF Reprice
<1> QED
  BY <1>1, <1>2, <1>3, <1>4, <1>5, <1>6 DEF Next

\* Clients that wait for their last try keep it at one try at a time.
LEMMA OneTryStep ==
    ASSUME Patient, ~ErrorMeansNoRow \/ "database" \notin Faults,
           Inv, OneTryAtATime, [Next]_vars
    PROVE  OneTryAtATime'
<1>1. ASSUME NEW q \in Requests, Arrive(q) PROVE OneTryAtATime'
  <2>1. PICK k \in Keys \cup {NoKey}, b \in Baskets :
          /\ Allowed(q, k, b)
          /\ ask' = [ask EXCEPT ![q] =
                       [key |-> k, basket |-> b,
                        late |-> IF k = NoKey THEN FALSE ELSE idem[k] # None]]
    BY <1>1 DEF Arrive
  <2>2. ask'[q].key = k
    BY <2>1 DEF Inv, TypeOK
  <2>3. \A r \in Requests \ {q} : ask'[r] = ask[r] /\ pc'[r] = pc[r]
    BY <1>1, <2>1 DEF Arrive, Finish, Goto, Inv, TypeOK
  <2>4. \A r \in Requests :
            k # NoKey /\ pc[r] # "idle" /\ ask[r].key = k => Over(r)
    BY <2>1 DEF Allowed
  <2> QED
    BY <2>2, <2>3, <2>4 DEF OneTryAtATime, Over
<1>2. ASSUME ask' = ask,
             \A q \in Requests : /\ pc[q] = "idle" => pc'[q] = "idle"
                                 /\ Over(q) => pc'[q] = pc[q]
      PROVE  OneTryAtATime'
  BY <1>2 DEF OneTryAtATime, Over
<1> QED
  BY <1>1, <1>2, HandlerSteps

\* So no try stores the key of another that is past the lookup.
LEMMA KeysFreeStep ==
    ASSUME ~ErrorMeansNoRow \/ "database" \notin Faults,
           Inv, OneTryAtATime, KeysAreFree, [Next]_vars
    PROVE  KeysAreFree'
<1>1. ASSUME NEW q \in Requests, Arrive(q) PROVE KeysAreFree'
  <2>1. PICK k \in Keys \cup {NoKey}, b \in Baskets :
          /\ ask' = [ask EXCEPT ![q] =
                       [key |-> k, basket |-> b,
                        late |-> IF k = NoKey THEN FALSE ELSE idem[k] # None]]
          /\ IF ~Valid(b) THEN Finish(q, "validation-failed", None)
             ELSE Goto(q, IF k = NoKey THEN "pricing" ELSE "lookup")
    BY <1>1 DEF Arrive
  <2>2. ask'[q].key = k /\ (pc'[q] = "pricing" => k = NoKey)
        /\ pc'[q] \in {"pricing", "lookup", "done"}
    BY <2>1 DEF Finish, Goto, Inv, TypeOK
  <2>3. \A r \in Requests \ {q} : ask'[r] = ask[r] /\ pc'[r] = pc[r]
    BY <2>1 DEF Finish, Goto, Inv, TypeOK
  <2>4. idem' = idem
    BY <1>1 DEF Arrive, dvars
  <2> QED
    BY <2>2, <2>3, <2>4 DEF KeysAreFree, KeyTaken
<1>2. ASSUME NEW q \in Requests, Persist(q) \/ CommitUnacknowledged(q)
      PROVE  KeysAreFree'
  <2>1. /\ pc[q] = "persist" /\ pc'[q] = "done" /\ ask' = ask
        /\ \A r \in Requests \ {q} : pc'[r] = pc[r]
    BY <1>2 DEF Persist, CommitUnacknowledged, Finish, Inv, TypeOK
  <2>2. \A k \in Keys : k # ask[q].key => idem'[k] = idem[k]
    BY <1>2 DEF Persist, CommitUnacknowledged, Write, Inv, TypeOK
  <2>3. ASSUME NEW r \in Requests \ {q}, pc[r] \in {"pricing", "charging", "persist"},
               ask[r].key # NoKey
        PROVE  ask[r].key \in Keys /\ ask[r].key # ask[q].key
    BY <2>1, <2>3 DEF OneTryAtATime, Over, Inv, TypeOK, Ask
  <2> QED
    BY <2>1, <2>2, <2>3 DEF KeysAreFree, KeyTaken
<1>3. ASSUME idem' = idem, ask' = ask,
             \A q \in Requests :
                pc'[q] \in {"pricing", "charging", "persist"} =>
                    \/ pc[q] \in {"pricing", "charging", "persist"}
                    \/ pc[q] = "lookup" /\ idem[ask[q].key] = None
      PROVE  KeysAreFree'
  BY <1>3 DEF KeysAreFree, KeyTaken
<1>4. UNCHANGED dvars \/ (\E x \in Cancels : MarkCancelled(x)) => idem' = idem
  BY DEF dvars, MarkCancelled
<1> QED
  BY <1>1, <1>2, <1>3, <1>4, HandlerSteps, TableSteps

\* A client that sends a key again only when its last try is over never runs into
\* the primary key of idempotency_keys: a try that has got past the lookup finds its
\* key still without an order, until and when it persists (service.py:46-80).  So
\* the 500 that OrdersSameKey shows takes two tries at once.
THEOREM PatientTriesFindKeysFree ==
    ASSUME Patient, ~ErrorMeansNoRow \/ "database" \notin Faults
    PROVE  Spec => []KeysAreFree
<1>1. Init => OneTryAtATime /\ KeysAreFree
  BY DEF Init, OneTryAtATime, KeysAreFree
<1>2. Inv /\ OneTryAtATime /\ KeysAreFree /\ [Next]_vars
        => OneTryAtATime' /\ KeysAreFree'
  BY OneTryStep, KeysFreeStep
<1> QED
  BY <1>1, <1>2, Invariant, PTL DEF Spec

\* What a request is told whose key had an order when it arrived: that order,
\* unless it is no valid request or the database fails it.
LateAnswersAreOriginal ==
    \A q \in Requests : ask[q].late /\ answer[q].kind # "none" =>
        \/ answer[q].kind = "confirmed" /\ answer[q].order = idem[ask[q].key]
        \/ answer[q].kind = "validation-failed"
        \/ answer[q].kind = "internal-error" /\ "database" \in Faults

\* Every answer to a late request is such a one.
LEMMA LateAnswerStep ==
    ASSUME ~ErrorMeansNoRow \/ "database" \notin Faults,
           Inv, LateAreReplayed, LateAnswersAreOriginal, [Next]_vars
    PROVE  LateAnswersAreOriginal'
<1> USE DEF hvars, cvars, dvars, pvars
<1> SUFFICES ASSUME NEW q \in Requests, ask'[q].late, answer'[q].kind # "none"
             PROVE  \/ answer'[q].kind = "confirmed" /\ answer'[q].order = idem'[ask'[q].key]
                    \/ answer'[q].kind = "validation-failed"
                    \/ answer'[q].kind = "internal-error" /\ "database" \in Faults
  BY DEF LateAnswersAreOriginal
<1>1. \A k \in Keys : idem[k] # None => idem'[k] = idem[k]
  BY KeepStep DEF TablesKept
<1>2. CASE answer'[q] = answer[q]
  <2>1. pc[q] = "done"
    BY <1>2 DEF Inv, HandlersAreSound
  <2>2. ask'[q] = ask[q]
    <3>1. ASSUME NEW r \in Requests, Arrive(r) PROVE ask'[q] = ask[q]
      BY <2>1, <3>1 DEF Arrive, Inv, TypeOK
    <3> QED
      BY <3>1, HandlerSteps
  <2> QED
    BY <1>1, <1>2, <2>2 DEF LateAnswersAreOriginal, LateAreReplayed
<1>3. CASE Arrive(q)
  <2>1. answer[q].kind = "none"
    BY <1>3 DEF Arrive, Inv, HandlersAreSound
  <2> QED
    BY <1>3, <2>1 DEF Arrive, Finish, Goto, Inv, TypeOK
<1>4. CASE Checkout(q) /\ answer'[q] # answer[q]
  <2>1. ask' = ask
    BY <1>4 DEF Checkout, Lookup, LookupFails, Replay, ReplayFails, PriceLine,
       ProductMissing, CatalogFails, StartCharge, ChargeAnswered, ChargeLost, Persist,
       PersistFails, CommitUnacknowledged
  <2>2. /\ pc[q] \in {"lookup", "replay", "done", "crashed"}
        /\ ask[q].key \in Keys /\ idem[ask[q].key] # None
    BY <2>1 DEF LateAreReplayed
  <2>3. LookupFails(q) \/ Replay(q) \/ ReplayFails(q)
    BY <1>4, <2>2 DEF Checkout, Lookup, Goto, PriceLine, ProductMissing, CatalogFails,
       Unpriced, StartCharge, ChargeAnswered, ChargeLost, Persist, PersistFails,
       CommitUnacknowledged
  <2>4. idem[ask[q].key] \in Placed
    BY <2>2 DEF Inv, KeyRowsMatchOrders
  <2> QED
    BY <1>1, <1>4, <2>1, <2>2, <2>3, <2>4
       DEF LookupFails, Replay, ReplayFails, ReadError, Finish, Goto, Inv, TypeOK
<1> QED
  BY <1>2, <1>3, <1>4, AnswerSteps

\* "Same key, seen before -> the original order" (contracts/orders.v1.yaml:84),
\* for a request that arrives once the order is there: it is told of that order,
\* and of nothing else but an invalid basket or a failure of its own reads,
\* whatever catalog and payments do and however impatient the client is, in the
\* implementations whose failed key lookup is an error (all but Go), or if the
\* database does not fail (service.py:46-53).
THEOREM LateRetriesGetTheOriginal ==
    ASSUME ~ErrorMeansNoRow \/ "database" \notin Faults
    PROVE  Spec => []LateAnswersAreOriginal
<1>1. Init => LateAreReplayed /\ LateAnswersAreOriginal
  BY DEF Init, LateAreReplayed, LateAnswersAreOriginal, NoAsk
<1>2. Inv /\ LateAreReplayed /\ LateAnswersAreOriginal /\ [Next]_vars
        => LateAreReplayed' /\ LateAnswersAreOriginal'
  BY LateStep, LateAnswerStep
<1> QED
  BY <1>1, <1>2, Invariant, PTL DEF Spec
=============================================================================
