------------------------ MODULE OrdersPaymentsProofs ------------------------
(***************************************************************************)
(* Theorems about Orders and Payments together, checked by TLAPS: orders   *)
(* uses payments as module Payments supposes, so that what is proved of    *)
(* payments by itself holds of the payments that orders charges through.   *)
(***************************************************************************)
EXTENDS OrdersProofs

-----------------------------------------------------------------------------
(***************************************************************************)
(* What payments sees of the orders service.                               *)
(***************************************************************************)

\* The orders process dies: every connection it has breaks at once.
Disconnect ==
    /\ live' \in [Requests -> BOOLEAN]
    /\ UNCHANGED <<call, st, reply, charges, ledger>>

\* Every step of the service is a step payments may see: one that Payments
\* has, none at all, or a crash.
LEMMA PaymentsSees ==
    ASSUME Inv, Inv', [Next]_vars
    PROVE  P!PNext \/ UNCHANGED P!pvars \/ (Crash /\ Disconnect)
<1> USE DEF hvars, cvars, dvars, pvars
<1>1. ASSUME UNCHANGED pvars PROVE UNCHANGED P!pvars
  BY <1>1 DEF P!pvars
<1>2. ASSUME NEW q \in Requests, StartCharge(q) PROVE P!PNext
  <2>1. P!Send(q, DownstreamKey(q), draft[q].total)
    BY <1>2 DEF StartCharge
  <2>2. DownstreamKey(q) \in DownKeys \cup {NoKey} /\ draft[q].total \in Int
    BY DEF DownstreamKey, DownKeys, Inv, TypeOK, Ask, Draft
  <2> QED
    BY <2>1, <2>2 DEF P!PNext
<1>3. ASSUME NEW q \in Requests, ChargeAnswered(q) \/ ChargeLost(q) \/ PaymentsStep(q)
      PROVE  P!PNext
  BY <1>3 DEF ChargeAnswered, ChargeLost, PaymentsStep, P!PNext
<1>4. CASE PaymentsRestart
  BY <1>4 DEF PaymentsRestart, P!PNext
<1>5. ASSUME NEW q \in Requests,
             \/ Arrive(q) \/ Lookup(q) \/ LookupFails(q) \/ Replay(q) \/ ReplayFails(q)
             \/ PriceLine(q) \/ ProductMissing(q) \/ CatalogFails(q)
             \/ Persist(q) \/ PersistFails(q) \/ CommitUnacknowledged(q)
      PROVE  UNCHANGED pvars
  BY <1>5 DEF Arrive, Lookup, LookupFails, Replay, ReplayFails, PriceLine, ProductMissing,
     CatalogFails, Persist, PersistFails, CommitUnacknowledged
<1>6. ASSUME NEW x \in Cancels, Cancel(x)
      PROVE  UNCHANGED pvars
  BY <1>6 DEF Cancel, CancelRead, CancelReadFails, CancelWrite, CancelFails
<1>7. ASSUME NEW s \in Skus, NEW p \in Prices \cup {-1}, Reprice(s, p)
      PROVE  UNCHANGED pvars
  BY <1>7 DEF Reprice
<1>8. CASE Crash
  BY <1>8 DEF Crash, Disconnect, Inv, TypeOK, P!PTypeOK
<1>9. CASE Idle \/ UNCHANGED vars
  BY <1>1, <1>9 DEF Idle, vars
<1> QED
  BY <1>1, <1>2, <1>3, <1>4, <1>5, <1>6, <1>7, <1>8, <1>9 DEF Next, Checkout

\* Seen from payments, orders is a caller as Payments has them - each call made
\* once, with a key and a whole amount - whose connections may all break
\* together (payments_client.py:145-183).
THEOREM OrdersIsACaller ==
    Spec => P!PInit /\ [][P!PNext \/ Disconnect]_(P!pvars)
<1>1. Init => P!PInit
  BY DEF Init
<1>2. Inv /\ Inv' /\ [Next]_vars => [P!PNext \/ Disconnect]_(P!pvars)
  BY PaymentsSees
<1> QED
  BY <1>1, <1>2, Invariant, PTL DEF Spec

\* The orders service implements Payments, as long as its process does not die:
\* a crash is more than Payments has, where connections break one at a time
\* (payments_client.py:145-183, server.py:60-118).
THEOREM ImplementsPayments ==
    ASSUME "crash" \notin Faults
    PROVE  Spec => P!PSpec
<1>1. Init => P!PInit
  BY DEF Init
<1>2. Inv /\ Inv' /\ [Next]_vars => [P!PNext]_(P!pvars)
  BY PaymentsSees DEF Crash
<1> QED
  BY <1>1, <1>2, Invariant, PTL DEF Spec, P!PSpec

-----------------------------------------------------------------------------
(***************************************************************************)
(* What payments keeps by itself, kept.  P and PP instantiate one module   *)
(* alike, so each fact about PP is carried over to P.                      *)
(***************************************************************************)

\* The two have the same steps.
LEMMA SameNext ==
    P!PNext => PP!PNext \/ UNCHANGED <<call, st, live, reply, charges, ledger>>
<1>1. ASSUME NEW c \in Requests, NEW k \in DownKeys \cup {NoKey}, NEW a \in Int,
             P!Send(c, k, a)
      PROVE  PP!PNext
  BY <1>1 DEF P!Send, PP!Send, PP!PNext
<1>2. ASSUME NEW c \in Requests, P!Receive(c) \/ P!HangUp(c) PROVE PP!PNext
  BY <1>2 DEF P!Receive, PP!Receive, P!HangUp, PP!HangUp, PP!PNext
<1>3. ASSUME NEW c \in Requests, P!Serve(c) PROVE PP!PNext
  BY <1>3, SameServe DEF PP!PNext
<1>4. ASSUME P!Restart PROVE PP!PNext
  BY <1>4 DEF P!Restart, PP!Restart, P!InFlight, PP!InFlight, P!Forgotten,
     PP!Forgotten, P!NoAnswer, PP!NoAnswer, PP!PNext
<1> QED
  BY <1>1, <1>2, <1>3, <1>4 DEF P!PNext, P!Idle, P!pvars

\* A step of the service is a step of the module that is proved about.
LEMMA StepSeen ==
    ASSUME Inv, Inv', [Next]_vars
    PROVE  [PP!PNext]_(PP!pvars) \/ Disconnect
BY PaymentsSees, SameNext DEF P!pvars, PP!pvars

\* Payments on an event loop knows every payment it took.
LEMMA SameKnows == P!TableKnowsPayments <=> PP!TableKnowsPayments
BY DEF P!TableKnowsPayments, PP!TableKnowsPayments, P!Keyed, PP!Keyed

\* Every step keeps the table of payments complete.
LEMMA KnowsStep ==
    ASSUME EventLoop, ~Latency, "payments_restart" \notin Faults,
           Inv, Inv', P!TableKnowsPayments, [Next]_vars
    PROVE  P!TableKnowsPayments'
<1>1. CASE [PP!PNext]_(PP!pvars)
  <2>1. PP!PInv /\ PP!TableKnowsPayments /\ PP!QuickLoop
    BY SameInv, SameKnows DEF Inv, PP!QuickLoop
  <2>2. PP!TableKnowsPayments'
    BY <1>1, <2>1, PaymentsConstants, PP!PNextKnows
  <2> QED
    BY <2>2, SameKnows, PTL
<1>2. CASE Disconnect
  BY <1>2 DEF Disconnect, P!TableKnowsPayments, P!Keyed
<1> QED
  BY <1>1, <1>2, StepSeen

\* With payments on an event loop that neither waits nor restarts, a key is
\* charged once however many checkouts of that key race, crash or lose their
\* connection (contracts/orders.v1.yaml:84-85, server.ts:43-45).
THEOREM KeyChargedOnce ==
    ASSUME EventLoop, ~Latency, "payments_restart" \notin Faults
    PROVE  Spec => []ChargedOncePerKey
<1>1. Init => P!TableKnowsPayments
  BY DEF Init, P!PInit, P!TableKnowsPayments
<1>2. Inv /\ Inv' /\ P!TableKnowsPayments /\ [Next]_vars => P!TableKnowsPayments'
  BY KnowsStep
<1>3. Inv /\ P!TableKnowsPayments => ChargedOncePerKey
  <2> SUFFICES ASSUME Inv, P!TableKnowsPayments, NEW c \in ledger, NEW d \in ledger,
                      call[c].key = call[d].key
               PROVE  c = d
    BY DEF ChargedOncePerKey
  <2>1. c \in Requests /\ d \in Requests
    BY DEF Inv, TypeOK, P!PTypeOK
  <2>2. call[c].key = DownstreamKey(c)
    BY <2>1 DEF Inv, HandlersAreSound, P!PInv, P!StagesAreSound
  <2>3. P!Keyed(c) /\ P!Keyed(d)
    BY <2>1, <2>2, OrdersAssumption DEF P!Keyed, DownstreamKey
  <2>4. [status |-> "APPROVED", by |-> c] = [status |-> "APPROVED", by |-> d]
    BY <2>1, <2>3 DEF P!TableKnowsPayments
  <2>5. [status |-> "APPROVED", by |-> c].by = [status |-> "APPROVED", by |-> d].by
    BY <2>4
  <2> QED
    BY <2>5
<1> QED
  BY <1>1, <1>2, <1>3, Invariant, PTL DEF Spec

\* On such an event loop the table knows every payment, whatever orders, its
\* crashes and its broken connections do meanwhile (server.ts:43-45, 96-141).
THEOREM PaymentsAreKnown ==
    ASSUME EventLoop, ~Latency, "payments_restart" \notin Faults
    PROVE  Spec => []TableKnowsPayments
<1>1. Init => TableKnowsPayments
  BY DEF Init, P!PInit, TableKnowsPayments, P!TableKnowsPayments
<1>2. Inv /\ Inv' /\ TableKnowsPayments /\ [Next]_vars => TableKnowsPayments'
  BY KnowsStep DEF TableKnowsPayments
<1> QED
  BY <1>1, <1>2, Invariant, PTL DEF Spec

\* Every step keeps the event loop without a gap between lookup and record, and
\* changes no answer but by forgetting all.
LEMMA StableSeen ==
    ASSUME EventLoop, ~Latency, Inv, Inv', PP!NoGap, [Next]_vars
    PROVE  PP!NoGap' /\ PP!Stable
<1>1. CASE [PP!PNext]_(PP!pvars)
  <2>1. PP!PInv
    BY SameInv DEF Inv
  <2> QED
    BY <1>1, <2>1, PaymentsConstants, PP!NoGapStep, PP!StableStep
<1>2. CASE Disconnect
  BY <1>2 DEF Disconnect, PP!NoGap, PP!Stable
<1> QED
  BY <1>1, <1>2, StepSeen

\* On an event loop that does not wait, a key's answer stays its answer until
\* payments restarts, whatever orders, its crashes and its broken connections
\* do meanwhile (server.ts:96-141, server.py:61-63).
THEOREM AnswersStay ==
    ASSUME EventLoop, ~Latency
    PROVE  Spec => AnswersAreStable
<1>1. Init => PP!NoGap
  BY DEF Init, P!PInit, PP!NoGap
<1>2. Inv /\ Inv' /\ PP!NoGap /\ [Next]_vars => PP!NoGap'
  BY StableSeen
<1> DEFINE Stays == \A k \in DownKeys :
                       charges[k] # P!NoAnswer /\ charges' # P!Forgotten
                         => charges'[k] = charges[k]
<1>3. Inv /\ Inv' /\ PP!NoGap /\ [Next]_vars => [Stays]_(P!pvars)
  <2> SUFFICES ASSUME Inv, Inv', PP!NoGap, [Next]_vars PROVE Stays
    OBVIOUS
  <2>1. PP!Stable
    BY StableSeen
  <2> QED
    BY <2>1 DEF PP!Stable, PP!NoAnswer, P!NoAnswer, PP!Forgotten, P!Forgotten
<1>4. Spec => [][Stays]_(P!pvars)
  BY <1>1, <1>2, <1>3, Invariant, PTL DEF Spec
<1> QED
  BY <1>4 DEF AnswersAreStable, P!AnswersAreStable

\* Every step keeps a worker with each call that may still charge.
LEMMA HoldsSeen ==
    ASSUME ~EventLoop, "payments_restart" \notin Faults,
           Inv, Inv', PP!WorkersHoldChargers, [Next]_vars
    PROVE  PP!WorkersHoldChargers'
<1>1. CASE [PP!PNext]_(PP!pvars)
  <2>1. PP!PInv
    BY SameInv DEF Inv
  <2> QED
    BY <1>1, <2>1, PaymentsConstants, PP!PNextHolds
<1>2. CASE Disconnect
  <2>1. UNCHANGED <<call, st, charges, ledger>>
    BY <1>2 DEF Disconnect
  <2>2. PP!Busy' = PP!Busy /\ \A k \in DownKeys : PP!Chargers(k)' = PP!Chargers(k)
    BY <2>1 DEF PP!Busy, PP!Chargers
  <2> QED
    BY <2>1, <2>2, PaymentsConstants, PP!ShrinkHolds
<1> QED
  BY <1>1, <1>2, StepSeen

\* On threads, the checkouts of one key, however many there are and however
\* they crash or lose their connection, have it charged at most once for each
\* worker of payments' pool (server.py:64-118, 148).
THEOREM KeyChargedWithinWorkers ==
    ASSUME ~EventLoop, "payments_restart" \notin Faults
    PROVE  Spec => []P!ChargesBoundedByWorkers
<1>1. Init => PP!WorkersHoldChargers
  <2>1. P!PInit => PP!PInit
    BY DEF P!PInit, PP!PInit, P!Blank, PP!Blank, P!NoAnswer, PP!NoAnswer,
           P!Forgotten, PP!Forgotten
  <2> QED
    BY <2>1, PaymentsConstants, PP!InitHolds DEF Init
<1>2. Inv /\ Inv' /\ PP!WorkersHoldChargers /\ [Next]_vars => PP!WorkersHoldChargers'
  BY HoldsSeen
<1>3. Inv /\ PP!WorkersHoldChargers => P!ChargesBoundedByWorkers
  <2> SUFFICES ASSUME Inv, PP!WorkersHoldChargers PROVE P!ChargesBoundedByWorkers
    OBVIOUS
  <2>1. PP!ChargesBoundedByWorkers
    BY SameInv, PaymentsConstants, PP!HoldsBounds DEF Inv
  <2> QED
    BY <2>1 DEF P!ChargesBoundedByWorkers, PP!ChargesBoundedByWorkers,
       P!ChargesUnder, PP!ChargesUnder, P!Cardinality, PP!Cardinality
<1> QED
  BY <1>1, <1>2, <1>3, Invariant, PTL DEF Spec

-----------------------------------------------------------------------------
(***************************************************************************)
(* A decline stays a decline.                                              *)
(***************************************************************************)

\* Whoever was given a verdict under a key was given what the table holds for
\* that key, and nobody stands between lookup and record.
VerdictsAreRemembered ==
    \A c \in Requests :
        /\ st[c] \notin {"working", "decided"}
        /\ st[c] \in {"answered", "received"} /\ P!Keyed(c)
             /\ reply[c].status \in {"APPROVED", "DECLINED"}
           => charges[call[c].key] = reply[c]

\* A declined checkout has received a decline, and an order an approval.
VerdictsAreHeard ==
    \A q \in Requests :
        /\ answer[q].kind = "payment-declined"
             => st[q] = "received" /\ reply[q].status = "DECLINED"
        /\ q \in Placed => st[q] = "received" /\ reply[q].status = "APPROVED"

\* The call that is served is remembered, and no other is forgotten.
LEMMA ServeRemembers ==
    ASSUME EventLoop, ~Latency, P!PInv, VerdictsAreRemembered,
           NEW c \in Requests, P!Serve(c)
    PROVE  VerdictsAreRemembered'
<1> USE DEF P!PInv, P!PTypeOK
<1>1. P!OneTurn
  BY DEF P!OneTurn
<1>2. CASE P!Replay(c)
  BY <1>2 DEF P!Replay, VerdictsAreRemembered, P!Keyed, P!Seen
<1>3. CASE P!Refuse(c)
  BY <1>3 DEF P!Refuse, VerdictsAreRemembered, P!Keyed, P!Invalid
<1>4. CASE P!Settle(c)
  <2>1. /\ UNCHANGED call
        /\ st' = [st EXCEPT ![c] = "answered"]
        /\ reply' = [reply EXCEPT ![c] = P!Fresh(c)]
        /\ charges' = IF P!Keyed(c) THEN [charges EXCEPT ![call[c].key] = P!Fresh(c)]
                      ELSE charges
        /\ ~P!Seen(c)
    BY <1>1, <1>4 DEF P!Settle, P!AtAmount, P!Remember
  <2> SUFFICES ASSUME NEW d \in Requests, st[d] \in {"answered", "received"}, d # c,
                      P!Keyed(d), reply[d].status \in {"APPROVED", "DECLINED"}
               PROVE  charges'[call[d].key] = reply[d]
    <3>1. P!Keyed(c) => charges'[call[c].key] = P!Fresh(c)
      BY <2>1 DEF P!Keyed, P!Request, P!Blank
    <3> QED
      BY <2>1, <3>1 DEF VerdictsAreRemembered, P!Keyed
  <2>2. charges[call[d].key] = reply[d]
    BY DEF VerdictsAreRemembered
  <2>3. reply[d] # P!NoAnswer
    BY DEF P!NoAnswer
  <2>4. call[d].key # call[c].key \/ ~P!Keyed(c)
    BY <2>1, <2>2, <2>3 DEF P!Seen
  <2> QED
    BY <2>1, <2>2, <2>4
<1>5. ~P!Begin(c) /\ ~P!Abandon(c) /\ ~P!Decide(c) /\ ~P!Record(c)
  BY <1>1 DEF P!Begin, P!Abandon, P!Decide, P!Record, VerdictsAreRemembered
<1> QED
  BY <1>2, <1>3, <1>4, <1>5 DEF P!Serve

\* No step of the caller's side, and no crash, changes what was answered.
LEMMA RememberedStep ==
    ASSUME EventLoop, ~Latency, "payments_restart" \notin Faults,
           Inv, Inv', VerdictsAreRemembered, [Next]_vars
    PROVE  VerdictsAreRemembered'
<1> USE DEF Inv, P!PInv, P!PTypeOK
<1>1. ASSUME NEW c \in Requests, NEW k \in DownKeys \cup {NoKey}, NEW a \in Int,
             P!Send(c, k, a)
      PROVE  VerdictsAreRemembered'
  BY <1>1 DEF P!Send, VerdictsAreRemembered, P!Keyed
<1>2. ASSUME NEW c \in Requests, P!Receive(c) \/ P!HangUp(c)
      PROVE  VerdictsAreRemembered'
  BY <1>2 DEF P!Receive, P!HangUp, VerdictsAreRemembered, P!Keyed
<1>3. ASSUME NEW c \in Requests, P!Serve(c) PROVE VerdictsAreRemembered'
  BY <1>3, ServeRemembers
<1>4. ~P!Restart
  BY DEF P!Restart
<1>5. CASE UNCHANGED <<call, st, reply, charges>>
  BY <1>5 DEF VerdictsAreRemembered, P!Keyed
<1> QED
  BY <1>1, <1>2, <1>3, <1>4, <1>5, PaymentsSees
     DEF P!PNext, P!Idle, P!pvars, Disconnect

\* What was received stays received.
LEMMA ReceivedStays ==
    ASSUME Inv, Inv', [Next]_vars, NEW q \in Requests, st[q] = "received"
    PROVE  st'[q] = "received" /\ reply'[q] = reply[q]
<1> USE DEF Inv, P!PInv, P!PTypeOK
<1>1. ASSUME NEW c \in Requests, NEW k \in DownKeys \cup {NoKey}, NEW a \in Int,
             P!Send(c, k, a)
      PROVE  st'[q] = "received" /\ reply'[q] = reply[q]
  BY <1>1 DEF P!Send
<1>2. ASSUME NEW c \in Requests, P!Receive(c) \/ P!HangUp(c)
      PROVE  st'[q] = "received" /\ reply'[q] = reply[q]
  BY <1>2 DEF P!Receive, P!HangUp
<1>3. ASSUME NEW c \in Requests, P!Serve(c)
      PROVE  st'[q] = "received" /\ reply'[q] = reply[q]
  BY <1>3 DEF P!Serve, P!Replay, P!Begin, P!Abandon, P!Refuse, P!Decide, P!Record,
     P!Settle, P!AtAmount
<1>4. CASE P!Restart
  BY <1>4 DEF P!Restart, P!InFlight
<1>5. CASE UNCHANGED <<st, reply>>
  BY <1>5
<1> QED
  BY <1>1, <1>2, <1>3, <1>4, <1>5, PaymentsSees
     DEF P!PNext, P!Idle, P!pvars, Disconnect

\* Only an answer that has arrived makes a decline or an order.
LEMMA HeardStep ==
    ASSUME Inv, Inv', VerdictsAreHeard, [Next]_vars
    PROVE  VerdictsAreHeard'
<1> SUFFICES ASSUME NEW q \in Requests
             PROVE  /\ answer'[q].kind = "payment-declined"
                         => st'[q] = "received" /\ reply'[q].status = "DECLINED"
                    /\ orders'[q].status # "none"
                         => st'[q] = "received" /\ reply'[q].status = "APPROVED"
  BY DEF VerdictsAreHeard, Placed
<1>1. ASSUME answer'[q] = answer[q], answer'[q].kind = "payment-declined"
      PROVE  st'[q] = "received" /\ reply'[q].status = "DECLINED"
  BY <1>1, ReceivedStays DEF VerdictsAreHeard
<1>2. ASSUME answer'[q] # answer[q], answer'[q].kind = "payment-declined"
      PROVE  st'[q] = "received" /\ reply'[q].status = "DECLINED"
  <2>1. Arrive(q) \/ Checkout(q)
    BY <1>2, AnswerSteps
  <2>2. ASSUME NEW kind, NEW o, Finish(q, kind, o) PROVE kind = "payment-declined"
    BY <1>2, <2>2 DEF Finish, Inv, TypeOK
  <2>3. ~(UNCHANGED answer)
    BY <1>2
  <2>4. ~Arrive(q)
    BY <2>2, <2>3 DEF Arrive, Goto
  <2>5. /\ ~Lookup(q) /\ ~LookupFails(q) /\ ~Replay(q) /\ ~ReplayFails(q)
        /\ ~PriceLine(q) /\ ~ProductMissing(q) /\ ~CatalogFails(q) /\ ~StartCharge(q)
    BY <2>2, <2>3 DEF Lookup, LookupFails, Replay, ReplayFails, ReadError, PriceLine,
       ProductMissing, CatalogFails, StartCharge, Goto
  <2>6. /\ ~ChargeLost(q) /\ ~Persist(q) /\ ~PersistFails(q)
        /\ ~CommitUnacknowledged(q)
    BY <2>2 DEF ChargeLost, Persist, PersistFails, CommitUnacknowledged
  <2>7. ChargeAnswered(q)
    BY <2>1, <2>4, <2>5, <2>6 DEF Checkout
  <2>8. reply[q].status = "DECLINED"
    BY <2>2, <2>3, <2>7 DEF ChargeAnswered, Goto
  <2>9. P!Receive(q)
    BY <2>7 DEF ChargeAnswered
  <2> QED
    BY <2>8, <2>9 DEF P!Receive, Inv, TypeOK, P!PTypeOK
<1>3. ASSUME orders'[q].status # "none"
      PROVE  st'[q] = "received" /\ reply'[q].status = "APPROVED"
  <2>1. CASE q \in Placed
    BY <2>1, ReceivedStays DEF VerdictsAreHeard
  <2>2. CASE q \notin Placed
    <3>1. ~(UNCHANGED dvars)
      BY <1>3, <2>2 DEF dvars, Placed
    <3>2. ASSUME NEW x \in Cancels, cpc[x] = "cancelling", MarkCancelled(x) PROVE FALSE
      <4>1. target[x] \in Placed
        BY <3>2 DEF Inv, HandlersAreSound
      <4> QED
        BY <1>3, <2>2, <3>2, <4>1 DEF MarkCancelled, Placed, Inv, TypeOK
    <3>3. PICK r \in Requests : Persist(r) \/ CommitUnacknowledged(r)
      BY <3>1, <3>2, TableSteps
    <3>4. r = q /\ pc[q] = "persist"
      BY <1>3, <2>2, <3>3 DEF Persist, CommitUnacknowledged, Write, Placed, Inv, TypeOK
    <3>5. st[q] = "received" /\ reply[q].status = "APPROVED"
      BY <3>4 DEF Inv, HandlersAreSound
    <3> QED
      BY <3>5, ReceivedStays
  <2> QED
    BY <2>1, <2>2
<1> QED
  BY <1>1, <1>2, <1>3

\* What was declined under a key is what the table holds, and so is the payment
\* of the order of that key: there cannot be both.
LEMMA VerdictsDisagree ==
    ASSUME Inv, VerdictsAreRemembered, VerdictsAreHeard
    PROVE  DeclinesAreFinal
<1> SUFFICES ASSUME NEW q \in Requests, NEW r \in Requests, ask[q].key # NoKey,
                    ask[q].key = ask[r].key, answer[q].kind = "payment-declined"
             PROVE  answer[r].kind # "confirmed" /\ idem[ask[q].key] = None
  BY DEF DeclinesAreFinal
<1>1. ask[q].key \in Keys
  BY DEF Inv, TypeOK, Ask
<1>2. ASSUME NEW c \in Requests, ask[c].key = ask[q].key, st[c] = "received",
             reply[c].status \in {"APPROVED", "DECLINED"}
      PROVE  charges[ask[q].key] = reply[c]
  <2>1. call[c].key = ask[q].key
    BY <1>2 DEF Inv, HandlersAreSound, DownstreamKey
  <2> QED
    BY <1>2, <2>1 DEF VerdictsAreRemembered, P!Keyed
<1>3. charges[ask[q].key].status = "DECLINED"
  BY <1>2 DEF VerdictsAreHeard
<1>4. idem[ask[q].key] = None
  <2> SUFFICES ASSUME idem[ask[q].key] # None PROVE FALSE
    OBVIOUS
  <2> DEFINE o == idem[ask[q].key]
  <2>1. o \in Placed /\ ask[o].key = ask[q].key
    BY <1>1 DEF Inv, KeyRowsMatchOrders
  <2>2. o \in Requests /\ st[o] = "received" /\ reply[o].status = "APPROVED"
    BY <2>1 DEF VerdictsAreHeard, Placed
  <2>3. charges[ask[q].key] = reply[o]
    BY <1>2, <2>1, <2>2
  <2> QED
    BY <1>3, <2>2, <2>3
<1>5. answer[r].kind # "confirmed"
  <2> SUFFICES ASSUME answer[r].kind = "confirmed" PROVE FALSE
    OBVIOUS
  <2>1. answer[r].order \in Placed /\ answer[r].order = None
    BY <1>4 DEF Inv, ConfirmationsAreTrue
  <2> QED
    BY <2>1, OrdersAssumption DEF Placed
<1> QED
  BY <1>4, <1>5

\* "A decision that will never change": with payments on an event loop that
\* neither waits nor restarts, no try of a declined key is ever confirmed, nor was
\* one before, whatever price or basket it comes with (payments_client.py:176-179,
\* server.ts:96-141).
THEOREM DeclinesStay ==
    ASSUME EventLoop, ~Latency, "payments_restart" \notin Faults
    PROVE  Spec => []DeclinesAreFinal
<1>1. Init => VerdictsAreRemembered /\ VerdictsAreHeard
  BY DEF Init, P!PInit, VerdictsAreRemembered, VerdictsAreHeard, NoAnswer, NoRow, Placed
<1>2. Inv /\ Inv' /\ VerdictsAreRemembered /\ VerdictsAreHeard /\ [Next]_vars
        => VerdictsAreRemembered' /\ VerdictsAreHeard'
  BY RememberedStep, HeardStep
<1>3. Inv /\ VerdictsAreRemembered /\ VerdictsAreHeard => DeclinesAreFinal
  BY VerdictsDisagree
<1> QED
  BY <1>1, <1>2, <1>3, Invariant, PTL DEF Spec
=============================================================================
