--------------------------- MODULE PaymentsProofs ---------------------------
(***************************************************************************)
(* Theorems about Payments for every set of calls and keys, every pool and *)
(* every limit, checked by TLAPS.                                          *)
(***************************************************************************)
EXTENDS Payments, FiniteSetTheorems, TLAPS

-----------------------------------------------------------------------------
(***************************************************************************)
(* Each step keeps PInv.  The lemmas are also used, through INSTANCE, for  *)
(* the orders service that calls payments.                                 *)
(***************************************************************************)
LEMMA PInitInv == PInit => PInv
BY PaymentsAssumption
   DEF PInit, PInv, PTypeOK, ApprovalsAreReal, LedgerIsWithinLimit,
       StagesAreSound, Request, Blank, Answer, NoAnswer, Stage, Forgotten

\* A call that was not sent has taken no money and answers nobody.
LEMMA SendInv ==
    ASSUME PInv, NEW c \in Calls, NEW k \in Keys \cup {NoKey}, NEW a \in Amounts,
           Send(c, k, a)
    PROVE  PInv'
<1> USE DEF PInv
<1>1. PTypeOK'
  BY DEF Send, PTypeOK, Request, Stage
<1>2. \A d \in ledger : d # c /\ call'[d] = call[d]
  BY DEF Send, StagesAreSound, PTypeOK
<1>3. \A d \in Calls : reply[d].status = "APPROVED" =>
          reply[d].by \in ledger /\ d # c
  BY DEF Send, StagesAreSound, ApprovalsAreReal, NoAnswer
<1>4. ApprovalsAreReal'
  BY <1>2, <1>3 DEF Send, ApprovalsAreReal, Keyed, PTypeOK
<1>5. LedgerIsWithinLimit'
  BY <1>2 DEF Send, LedgerIsWithinLimit
<1>6. StagesAreSound'
  BY DEF Send, StagesAreSound, PTypeOK, Fresh, Verdict
<1> QED
  BY <1>1, <1>4, <1>5, <1>6

\* Steps that move a call or break a connection, and touch no answer.
LEMMA MoveInv ==
    ASSUME PInv, NEW c \in Calls, Receive(c) \/ HangUp(c) \/ Begin(c) \/ Abandon(c)
    PROVE  PInv'
<1> USE DEF PInv, Receive, HangUp, Begin, Abandon
<1>1. PTypeOK'
  BY DEF PTypeOK, Stage
<1>2. ApprovalsAreReal' /\ LedgerIsWithinLimit'
  BY DEF ApprovalsAreReal, LedgerIsWithinLimit, Keyed
<1>3. StagesAreSound'
  BY DEF StagesAreSound, PTypeOK, Fresh, Verdict
<1> QED
  BY <1>1, <1>2, <1>3

\* The caller's process may end in the middle of anything.
LEMMA DisconnectInv ==
    ASSUME PInv, live' \in [Calls -> BOOLEAN],
           UNCHANGED <<call, st, reply, charges, ledger>>
    PROVE  PInv'
BY DEF PInv, PTypeOK, ApprovalsAreReal, LedgerIsWithinLimit, StagesAreSound,
       Keyed, Fresh, Verdict

\* Amounts are numbers, so that the limit can be compared with them.
LEMMA AmountType ==
    ASSUME PTypeOK, NEW c \in Calls
    PROVE  call[c].amount \in Int
<1>1. call[c] \in Request \cup {Blank}
  BY DEF PTypeOK
<1>2. CASE call[c] \in Request
  <2>1. call[c].amount \in Amounts
    BY <1>2 DEF Request
  <2>2. Amounts \subseteq Int
    BY PaymentsAssumption
  <2> QED
    BY <2>1, <2>2
<1>3. CASE call[c] = Blank
  BY <1>3 DEF Blank
<1> QED
  BY <1>1, <1>2, <1>3

\* A new answer is an approval exactly if the amount may be charged.
LEMMA FreshAnswer ==
    ASSUME PTypeOK, NEW c \in Calls
    PROVE  /\ Fresh(c) \in Answer /\ Fresh(c).by = c /\ Fresh(c) # NoAnswer
           /\ Fresh(c).status \in {"APPROVED", "DECLINED"}
           /\ Fresh(c).status = "APPROVED" <=>
                 ~AlwaysDecline /\ call[c].amount <= Limit
           /\ Verdict(c) = Fresh(c).status
<1>1. call[c].amount \in Int
  BY AmountType
<1> QED
  BY <1>1, PaymentsAssumption DEF Fresh, Verdict, Answer, NoAnswer

\* A replay keeps PInv: the table only replays answers that are real.
LEMMA ReplayInv ==
    ASSUME PInv, NEW c \in Calls, Replay(c)
    PROVE  PInv'
<1> USE DEF PInv, Replay
<1>1. call[c].key \in Keys /\ charges[call[c].key] # NoAnswer
  BY DEF Seen, Keyed, PTypeOK, Request, Blank
<1>2. PTypeOK'
  BY <1>1 DEF PTypeOK, Stage
<1>3. ApprovalsAreReal'
  BY <1>1 DEF ApprovalsAreReal, Seen, Keyed, PTypeOK
<1>4. LedgerIsWithinLimit'
  BY DEF LedgerIsWithinLimit
<1>5. StagesAreSound'
  BY <1>1 DEF StagesAreSound, PTypeOK, Fresh, Verdict, NoAnswer
<1> QED
  BY <1>2, <1>3, <1>4, <1>5

\* A refusal takes no money and keeps PInv.
LEMMA RefuseInv ==
    ASSUME PInv, NEW c \in Calls, Refuse(c)
    PROVE  PInv'
<1> USE DEF PInv, Refuse
<1>1. st[c] \in {"sent", "working"}
  BY DEF AtAmount
<1>2. PTypeOK'
  BY DEF PTypeOK, Stage, Answer, Invalid
<1>3. ApprovalsAreReal' /\ LedgerIsWithinLimit'
  BY DEF ApprovalsAreReal, LedgerIsWithinLimit, Keyed, Invalid, PTypeOK
<1>4. StagesAreSound'
  BY <1>1 DEF StagesAreSound, PTypeOK, Fresh, Verdict, Invalid, NoAnswer
<1> QED
  BY <1>2, <1>3, <1>4

\* Deciding: the answer is new, and the money is taken if it is an approval.
LEMMA DecideInv ==
    ASSUME PInv, NEW c \in Calls, Decide(c)
    PROVE  PInv'
<1> USE DEF PInv, Decide, TakePayment
<1>1. st[c] \in {"sent", "working"} /\ c \notin ledger
  BY DEF AtAmount, StagesAreSound
<1>2. PTypeOK'
  BY FreshAnswer DEF PTypeOK, Stage
<1>3. ApprovalsAreReal'
  BY <1>1, FreshAnswer DEF ApprovalsAreReal, Keyed, PTypeOK
<1>4. LedgerIsWithinLimit'
  <2>1. call[c].amount \in Int /\ Limit \in Int
    BY AmountType, PaymentsAssumption
  <2> QED
    BY <2>1, FreshAnswer DEF LedgerIsWithinLimit
<1>5. StagesAreSound'
  <2>1. Fresh(c)' = Fresh(c) /\ \A d \in Calls : Fresh(d)' = Fresh(d)
    BY DEF Fresh, Verdict
  <2> QED
    BY <1>1, <2>1, FreshAnswer DEF StagesAreSound, PTypeOK
<1> QED
  BY <1>2, <1>3, <1>4, <1>5

\* The second critical section keeps PInv.
LEMMA RecordInv ==
    ASSUME PInv, NEW c \in Calls, Record(c)
    PROVE  PInv'
<1> USE DEF PInv, Record, Remember
<1>1. reply[c] = Fresh(c) /\ (Keyed(c) => call[c].key \in Keys)
  BY DEF StagesAreSound, Keyed, PTypeOK, Request, Blank
<1>2. PTypeOK'
  BY <1>1, FreshAnswer DEF PTypeOK, Stage
<1>3. ApprovalsAreReal'
  BY <1>1, FreshAnswer DEF ApprovalsAreReal, Keyed, PTypeOK
<1>4. LedgerIsWithinLimit'
  BY DEF LedgerIsWithinLimit
<1>5. StagesAreSound'
  <2>1. \A d \in Calls : Fresh(d)' = Fresh(d)
    BY DEF Fresh, Verdict
  <2> QED
    BY <1>1, <2>1, FreshAnswer DEF StagesAreSound, PTypeOK
<1> QED
  BY <1>2, <1>3, <1>4, <1>5

\* The event loop decides and records in one step.
LEMMA SettleInv ==
    ASSUME PInv, NEW c \in Calls, Settle(c)
    PROVE  PInv'
<1> USE DEF PInv, Settle, TakePayment, Remember
<1>1. st[c] \in {"sent", "working"} /\ c \notin ledger
      /\ (Keyed(c) => call[c].key \in Keys)
  BY DEF AtAmount, StagesAreSound, Keyed, PTypeOK, Request, Blank
<1>2. PTypeOK'
  BY <1>1, FreshAnswer DEF PTypeOK, Stage
<1>3. ApprovalsAreReal'
  BY <1>1, FreshAnswer DEF ApprovalsAreReal, Keyed, PTypeOK
<1>4. LedgerIsWithinLimit'
  <2>1. call[c].amount \in Int /\ Limit \in Int
    BY AmountType, PaymentsAssumption
  <2> QED
    BY <2>1, FreshAnswer DEF LedgerIsWithinLimit
<1>5. StagesAreSound'
  <2>1. \A d \in Calls : Fresh(d)' = Fresh(d)
    BY DEF Fresh, Verdict
  <2> QED
    BY <1>1, <2>1, FreshAnswer DEF StagesAreSound, PTypeOK
<1> QED
  BY <1>2, <1>3, <1>4, <1>5

\* Every step of the server keeps PInv.
LEMMA ServeInv ==
    ASSUME PInv, NEW c \in Calls, Serve(c)
    PROVE  PInv'
BY ReplayInv, MoveInv, RefuseInv, DecideInv, RecordInv, SettleInv DEF Serve

\* A restart forgets answers, and never invents one.
LEMMA RestartInv == PInv /\ Restart => PInv'
<1> SUFFICES ASSUME PInv, Restart PROVE PInv'
  OBVIOUS
<1> USE DEF PInv, Restart
<1>1. \A c \in Calls : st'[c] = IF c \in InFlight THEN "dead" ELSE st[c]
  OBVIOUS
<1>2. PTypeOK'
  BY DEF PTypeOK, Stage, Forgotten, NoAnswer, Answer
<1>3. ApprovalsAreReal' /\ LedgerIsWithinLimit'
  BY DEF ApprovalsAreReal, LedgerIsWithinLimit, Keyed, Forgotten, NoAnswer
<1>4. StagesAreSound'
  BY <1>1 DEF StagesAreSound, Fresh, Verdict, Forgotten, InFlight
<1> QED
  BY <1>2, <1>3, <1>4

\* Every step of server, callers and restarts keeps PInv.
LEMMA PNextInv == PInv /\ [PNext]_pvars => PInv'
<1> SUFFICES ASSUME PInv, [PNext]_pvars PROVE PInv'
  OBVIOUS
<1>1. CASE UNCHANGED pvars
  BY <1>1 DEF pvars, PInv, PTypeOK, ApprovalsAreReal, LedgerIsWithinLimit,
              StagesAreSound, Keyed, Fresh, Verdict
<1>2. CASE PNext
  BY <1>1, <1>2, SendInv, MoveInv, ServeInv, RestartInv DEF PNext, Idle
<1> QED
  BY <1>1, <1>2

\* PInv holds in every reachable state, however calls interleave.
THEOREM PInvariant == PSpec => []PInv
BY PInitInv, PNextInv, PTL DEF PSpec

\* The state of payments always has the types PTypeOK gives it.
THEOREM PTypeCorrect == PSpec => []PTypeOK
BY PInvariant, PTL DEF PInv

\* Whatever calls run at once and however often the process restarts, an
\* APPROVED names a payment taken under the caller's own key
\* (server.py:64-70, 107-118).
THEOREM ApprovalsReal == PSpec => []ApprovalsAreReal
BY PInvariant, PTL DEF PInv

\* No money is taken above the limit, or for an amount that is not positive
\* (server.py:86-92).
THEOREM LedgerWithinLimit == PSpec => []LedgerIsWithinLimit
BY PInvariant, PTL DEF PInv

\* Stage, answer, table and ledger of every call belong together in every
\* state (server.py:86-118).
THEOREM StagesSound == PSpec => []StagesAreSound
BY PInvariant, PTL DEF PInv

-----------------------------------------------------------------------------
(***************************************************************************)
(* The event loop without injected latency: one payment per key.           *)
(***************************************************************************)
QuickLoop == EventLoop /\ ~Latency /\ ~MayRestart

\* The turn that charges a key is the first one that sees it, so the table
\* has no answer of the key that could be overwritten.
LEMMA SettleKnows ==
    ASSUME QuickLoop, PInv, TableKnowsPayments, NEW c \in Calls, Settle(c)
    PROVE  TableKnowsPayments'
<1> USE DEF QuickLoop, TableKnowsPayments
<1>1. st[c] = "sent" /\ ~Seen(c)
  BY DEF Settle, AtAmount, OneTurn
<1>2. \A d \in ledger : d \in Calls /\ d # c
  BY <1>1 DEF PInv, PTypeOK, StagesAreSound
<1>3. ASSUME NEW d \in ledger, Keyed(d), Keyed(c) PROVE call[d].key # call[c].key
  <2>1. charges[call[d].key] = [status |-> "APPROVED", by |-> d]
    BY <1>2, <1>3
  <2>2. charges[call[d].key].status = "APPROVED" /\ NoAnswer.status = "NONE"
    BY <2>1 DEF NoAnswer
  <2>3. charges[call[c].key].status = "NONE"
    BY <1>1, <1>3, <2>2 DEF Seen
  <2> QED
    BY <2>2, <2>3
<1>4. Keyed(c) => call[c].key \in Keys
  BY DEF PInv, PTypeOK, Request, Blank, Keyed
<1>5. \A d \in Calls : Keyed(d)' = Keyed(d)
  BY DEF Settle, Keyed
<1>6. Verdict(c) = "APPROVED" => Fresh(c) = [status |-> "APPROVED", by |-> c]
  BY DEF Fresh
<1>7. \A d \in Calls : st'[d] \notin {"working", "decided"}
  BY DEF Settle, PInv, PTypeOK
<1>8. ASSUME NEW d \in ledger', Keyed(d)
      PROVE  charges'[call[d].key] = [status |-> "APPROVED", by |-> d]
  <2>1. CASE d = c
    BY <1>2, <1>4, <1>6, <1>8, <2>1
       DEF Settle, TakePayment, Remember, PInv, PTypeOK
  <2>2. CASE d # c
    <3>1. d \in ledger
      BY <1>8, <2>2 DEF Settle, TakePayment
    <3>2. charges[call[d].key] = [status |-> "APPROVED", by |-> d]
      BY <1>2, <1>8, <3>1
    <3> QED
      BY <1>3, <1>4, <1>8, <3>1, <3>2 DEF Settle, Remember, PInv, PTypeOK
  <2> QED
    BY <2>1, <2>2
<1> QED
  BY <1>5, <1>7, <1>8 DEF Settle

\* No step of a quick event loop leaves a payment out of the table.
LEMMA ServeKnows ==
    ASSUME QuickLoop, PInv, TableKnowsPayments, NEW c \in Calls, Serve(c)
    PROVE  TableKnowsPayments'
<1>1. CASE Replay(c) \/ Refuse(c)
  BY <1>1 DEF QuickLoop, TableKnowsPayments, Replay, Refuse, Keyed, PInv, PTypeOK
<1>2. ~Begin(c) /\ ~Abandon(c) /\ ~Decide(c) /\ ~Record(c)
  BY DEF QuickLoop, TableKnowsPayments, Begin, Abandon, Decide, Record, OneTurn
<1> QED
  BY <1>1, <1>2, SettleKnows DEF Serve

\* No step of its surroundings does either.
LEMMA PNextKnows ==
    ASSUME QuickLoop, PInv, TableKnowsPayments, [PNext]_pvars
    PROVE  TableKnowsPayments'
<1> USE DEF QuickLoop, TableKnowsPayments, Keyed
<1>1. ASSUME NEW c \in Calls, NEW k \in Keys \cup {NoKey}, NEW a \in Amounts,
             Send(c, k, a)
      PROVE  TableKnowsPayments'
  <2>1. \A d \in ledger : d # c
    BY <1>1 DEF Send, PInv, StagesAreSound
  <2> QED
    BY <1>1, <2>1 DEF Send, PInv, PTypeOK
<1>2. ASSUME NEW c \in Calls, Receive(c) \/ HangUp(c) PROVE TableKnowsPayments'
  BY <1>2 DEF Receive, HangUp, PInv, PTypeOK
<1>3. ~Restart
  BY DEF Restart
<1>4. CASE UNCHANGED pvars
  BY <1>4 DEF pvars
<1> QED
  BY <1>1, <1>2, <1>3, <1>4, ServeKnows DEF PNext, Idle

\* One event loop that gives up its turn nowhere between lookup and record
\* charges a key once, for any number of calls and keys (server.ts:43-45).
THEOREM OneChargePerKey ==
    ASSUME EventLoop, ~Latency, ~MayRestart
    PROVE  PSpec => []ChargedOncePerKey
<1>1. QuickLoop
  BY DEF QuickLoop
<1>2. PInit => TableKnowsPayments
  BY DEF PInit, TableKnowsPayments
<1>3. PInv /\ TableKnowsPayments /\ [PNext]_pvars => TableKnowsPayments'
  BY <1>1, PNextKnows
<1>4. PInv /\ TableKnowsPayments => ChargedOncePerKey
  <2> SUFFICES ASSUME PInv, TableKnowsPayments, NEW c \in ledger, NEW d \in ledger,
                      Keyed(c), call[c].key = call[d].key
               PROVE  c = d
    BY DEF ChargedOncePerKey
  <2>1. c \in Calls /\ d \in Calls /\ Keyed(d)
    BY DEF PInv, PTypeOK, Keyed
  <2>2. [status |-> "APPROVED", by |-> c] = [status |-> "APPROVED", by |-> d]
    BY <2>1 DEF TableKnowsPayments
  <2>3. [status |-> "APPROVED", by |-> c].by = [status |-> "APPROVED", by |-> d].by
    BY <2>2
  <2> QED
    BY <2>3
<1> QED
  BY <1>2, <1>3, <1>4, PInvariant, PTL DEF PSpec

\* In a quick event loop the table knows every payment that was taken under a
\* key, whoever asks and whenever (server.ts:96-141).
THEOREM TableKnows ==
    ASSUME EventLoop, ~Latency, ~MayRestart
    PROVE  PSpec => []TableKnowsPayments
<1>1. QuickLoop
  BY DEF QuickLoop
<1>2. PInit => TableKnowsPayments
  BY DEF PInit, TableKnowsPayments
<1>3. PInv /\ TableKnowsPayments /\ [PNext]_pvars => TableKnowsPayments'
  BY <1>1, PNextKnows
<1> QED
  BY <1>2, <1>3, PInvariant, PTL DEF PSpec

-----------------------------------------------------------------------------
(***************************************************************************)
(* Threads: how often a key can be charged at the worst.                   *)
(***************************************************************************)

\* The calls that have charged k or still may.
Chargers(k) == {c \in Calls : /\ call[c].key = k
                              /\ c \in ledger \/ st[c] \in {"working", "decided"}}

\* Until the first answer of k is recorded, whoever has charged k or may do so
\* still holds a worker.
WorkersHoldChargers ==
    /\ IsFiniteSet(Busy) /\ Cardinality(Busy) <= Workers
    /\ \A k \in Keys :
        /\ IsFiniteSet(Chargers(k)) /\ Cardinality(Chargers(k)) <= Workers
        /\ charges[k] = NoAnswer => Chargers(k) \subseteq Busy

\* A smaller set of workers is no more than a larger one.
LEMMA FewerWorkers ==
    ASSUME NEW S, NEW T, T \subseteq S, IsFiniteSet(S), Cardinality(S) <= Workers
    PROVE  IsFiniteSet(T) /\ Cardinality(T) <= Workers
<1>1. IsFiniteSet(T) /\ Cardinality(T) <= Cardinality(S)
  BY FS_Subset
<1>2. Cardinality(T) \in Nat /\ Cardinality(S) \in Nat
  BY <1>1, FS_CardinalityType
<1> QED
  BY <1>1, <1>2, PaymentsAssumption

\* A step by which nobody gets a worker or a chance to charge.
LEMMA ShrinkHolds ==
    ASSUME WorkersHoldChargers, Busy' \subseteq Busy,
           \A k \in Keys : /\ Chargers(k)' \subseteq Chargers(k)
                           /\ charges'[k] = NoAnswer =>
                                 charges[k] = NoAnswer /\ Chargers(k)' \cap Busy \subseteq Busy'
    PROVE  WorkersHoldChargers'
<1>1. IsFiniteSet(Busy') /\ Cardinality(Busy') <= Workers
  BY FewerWorkers DEF WorkersHoldChargers
<1>2. ASSUME NEW k \in Keys
      PROVE  IsFiniteSet(Chargers(k)') /\ Cardinality(Chargers(k)') <= Workers
  BY FewerWorkers DEF WorkersHoldChargers
<1>3. ASSUME NEW k \in Keys, charges'[k] = NoAnswer PROVE Chargers(k)' \subseteq Busy'
  BY <1>3 DEF WorkersHoldChargers
<1> QED
  BY <1>1, <1>2, <1>3 DEF WorkersHoldChargers

\* A call that begins gets a free worker, and finds no answer of its key.
LEMMA BeginHolds ==
    ASSUME PInv, WorkersHoldChargers, NEW c \in Calls, Begin(c)
    PROVE  WorkersHoldChargers'
<1> USE DEF WorkersHoldChargers
<1>1. Busy' = Busy \cup {c} /\ c \notin Busy
  BY DEF Begin, Busy, PInv, PTypeOK
<1>2. IsFiniteSet(Busy') /\ Cardinality(Busy') = Cardinality(Busy) + 1
  BY <1>1, FS_AddElement
<1>3. Cardinality(Busy) \in Nat
  BY FS_CardinalityType
<1>4. Cardinality(Busy') <= Workers
  BY <1>2, <1>3, PaymentsAssumption DEF Begin, WorkerFree
<1>5. ASSUME NEW k \in Keys, call[c].key = k
      PROVE  /\ IsFiniteSet(Chargers(k)') /\ Cardinality(Chargers(k)') <= Workers
             /\ Chargers(k)' \subseteq Busy'
  <2>1. charges[k] = NoAnswer
    BY <1>5, PaymentsAssumption DEF Begin, Seen, Keyed
  <2>2. Chargers(k)' \subseteq Chargers(k) \cup {c}
    BY DEF Chargers, Begin, PInv, PTypeOK
  <2>3. Chargers(k)' \subseteq Busy'
    BY <1>1, <2>1, <2>2
  <2> QED
    BY <1>2, <1>4, <2>3, FewerWorkers
<1>6. ASSUME NEW k \in Keys, call[c].key # k PROVE Chargers(k)' = Chargers(k)
  BY <1>6 DEF Chargers, Begin, PInv, PTypeOK
<1>7. ASSUME NEW k \in Keys, call[c].key # k, charges'[k] = NoAnswer
      PROVE  Chargers(k)' \subseteq Busy'
  BY <1>1, <1>6, <1>7 DEF Begin
<1>8. ASSUME NEW k \in Keys
      PROVE  /\ IsFiniteSet(Chargers(k)') /\ Cardinality(Chargers(k)') <= Workers
             /\ charges'[k] = NoAnswer => Chargers(k)' \subseteq Busy'
  BY <1>5, <1>6, <1>7
<1> QED
  BY <1>2, <1>4, <1>8

\* The other steps of the server end a call's chance to charge, or use it.
LEMMA ServeHolds ==
    ASSUME ~EventLoop, PInv, WorkersHoldChargers, NEW c \in Calls, Serve(c)
    PROVE  WorkersHoldChargers'
<1> USE DEF PInv, PTypeOK
<1>1. CASE Replay(c)
  <2>1. Busy' = Busy /\ \A k \in Keys : Chargers(k)' = Chargers(k)
    BY <1>1 DEF Replay, Busy, Chargers
  <2> QED
    BY <1>1, <2>1, ShrinkHolds DEF Replay
<1>2. CASE Abandon(c) \/ Refuse(c)
  <2>1. st[c] = "working" /\ c \notin ledger
    BY <1>2 DEF Abandon, Refuse, AtAmount, OneTurn, StagesAreSound
  <2>2. Busy' = Busy \ {c} /\ \A k \in Keys : Chargers(k)' = Chargers(k) \ {c}
    BY <1>2, <2>1 DEF Abandon, Refuse, Busy, Chargers
  <2> QED
    BY <1>2, <2>2, ShrinkHolds DEF Abandon, Refuse
<1>3. CASE Decide(c)
  <2>1. st[c] = "working"
    BY <1>3 DEF Decide, AtAmount, OneTurn
  <2>2. Busy' = Busy /\ \A k \in Keys : Chargers(k)' \subseteq Chargers(k)
    BY <1>3, <2>1 DEF Decide, TakePayment, Busy, Chargers
  <2> QED
    BY <1>3, <2>2, ShrinkHolds DEF Decide
<1>4. CASE Record(c)
  <2>1. Busy' = Busy \ {c} /\ \A k \in Keys : Chargers(k)' \subseteq Chargers(k)
    BY <1>4 DEF Record, Busy, Chargers
  <2>2. ASSUME NEW k \in Keys, charges'[k] = NoAnswer
        PROVE  charges[k] = NoAnswer /\ call[c].key # k
    BY <1>4, <2>2, FreshAnswer, PaymentsAssumption DEF Record, Remember, Keyed
  <2>3. ASSUME NEW k \in Keys, charges'[k] = NoAnswer
        PROVE  Chargers(k)' \cap Busy \subseteq Busy'
    BY <1>4, <2>1, <2>2, <2>3 DEF Record, Chargers
  <2> QED
    BY <2>1, <2>2, <2>3, ShrinkHolds
<1>5. ~Settle(c)
  BY DEF Settle
<1> QED
  BY <1>1, <1>2, <1>3, <1>4, <1>5, BeginHolds DEF Serve

\* What callers do changes neither workers nor chargers.
LEMMA PNextHolds ==
    ASSUME ~EventLoop, ~MayRestart, PInv, WorkersHoldChargers, [PNext]_pvars
    PROVE  WorkersHoldChargers'
<1> USE DEF PInv, PTypeOK
<1>1. ASSUME NEW c \in Calls, NEW k \in Keys \cup {NoKey}, NEW a \in Amounts,
             Send(c, k, a)
      PROVE  WorkersHoldChargers'
  <2>1. c \notin ledger
    BY <1>1 DEF Send, StagesAreSound
  <2>2. Busy' = Busy /\ \A i \in Keys : Chargers(i)' = Chargers(i)
    BY <1>1, <2>1 DEF Send, Busy, Chargers
  <2> QED
    BY <1>1, <2>2, ShrinkHolds DEF Send
<1>2. ASSUME NEW c \in Calls, Receive(c) \/ HangUp(c) PROVE WorkersHoldChargers'
  <2>1. Busy' = Busy /\ \A i \in Keys : Chargers(i)' = Chargers(i)
    BY <1>2 DEF Receive, HangUp, Busy, Chargers
  <2> QED
    BY <1>2, <2>1, ShrinkHolds DEF Receive, HangUp
<1>3. CASE UNCHANGED pvars
  <2>1. Busy' = Busy /\ \A i \in Keys : Chargers(i)' = Chargers(i)
    BY <1>3 DEF pvars, Busy, Chargers
  <2> QED
    BY <1>3, <2>1, ShrinkHolds DEF pvars
<1>4. ~Restart
  BY DEF Restart
<1> QED
  BY <1>1, <1>2, <1>3, <1>4, ServeHolds DEF PNext, Idle

\* Nobody holds a worker at first, and nobody has charged.
LEMMA InitHolds == PInit => WorkersHoldChargers
<1> SUFFICES ASSUME PInit PROVE WorkersHoldChargers
  OBVIOUS
<1>1. Busy = {} /\ \A k \in Keys : Chargers(k) = {}
  BY DEF PInit, Busy, Chargers
<1>2. IsFiniteSet({}) /\ Cardinality({}) = 0
  BY FS_EmptySet
<1>3. IsFiniteSet(Busy) /\ Cardinality(Busy) <= Workers
  BY <1>1, <1>2, PaymentsAssumption
<1>4. ASSUME NEW k \in Keys
      PROVE  IsFiniteSet(Chargers(k)) /\ Cardinality(Chargers(k)) <= Workers
  BY <1>1, <1>2, PaymentsAssumption
<1> QED
  BY <1>1, <1>3, <1>4 DEF WorkersHoldChargers

\* Whoever charged a key is among those its bound counts.
LEMMA HoldsBounds == PInv /\ WorkersHoldChargers => ChargesBoundedByWorkers
<1> SUFFICES ASSUME PInv, WorkersHoldChargers, NEW k \in Keys
             PROVE  Cardinality(ChargesUnder(k)) <= Workers
  BY DEF ChargesBoundedByWorkers
<1>1. ChargesUnder(k) \subseteq Chargers(k)
  BY DEF ChargesUnder, Chargers, PInv, PTypeOK
<1> QED
  BY <1>1, FewerWorkers DEF WorkersHoldChargers

\* On threads, one key is charged at most once for each worker of the pool,
\* however many calls use it, for as long as the process lives
\* (server.py:64-118, 148).
THEOREM ChargesBounded ==
    ASSUME ~EventLoop, ~MayRestart
    PROVE  PSpec => []ChargesBoundedByWorkers
<1>1. PInv /\ WorkersHoldChargers /\ [PNext]_pvars => WorkersHoldChargers'
  BY PNextHolds
<1> QED
  BY <1>1, InitHolds, HoldsBounds, PInvariant, PTL DEF PSpec

-----------------------------------------------------------------------------
(***************************************************************************)
(* The event loop without injected latency: an answer is an answer, even   *)
(* if the process may be restarted.                                        *)
(***************************************************************************)

\* No call is between its lookup and its record.
NoGap == \A c \in Calls : st[c] \notin {"working", "decided"}

\* An answer stays, unless all of them are forgotten.
Stable == \A k \in Keys : charges[k] # NoAnswer /\ charges' # Forgotten
                             => charges'[k] = charges[k]

\* An event loop that does not wait opens no gap.
LEMMA NoGapStep ==
    ASSUME EventLoop, ~Latency, PInv, NoGap, [PNext]_pvars
    PROVE  NoGap'
BY DEF NoGap, PNext, Send, Receive, HangUp, Serve, Replay, Begin, Abandon, Refuse,
       Decide, Record, Settle, Restart, Idle, pvars, OneTurn, PInv, PTypeOK

\* Where there is no gap, an answer is recorded only for a key that has none.
LEMMA StableStep ==
    ASSUME EventLoop, ~Latency, PInv, NoGap, [PNext]_pvars
    PROVE  Stable
<1> SUFFICES ASSUME NEW k \in Keys, charges[k] # NoAnswer, charges' # Forgotten
             PROVE  charges'[k] = charges[k]
  BY DEF Stable
<1>1. ASSUME NEW c \in Calls, Settle(c) PROVE charges'[k] = charges[k]
  BY <1>1 DEF Settle, AtAmount, OneTurn, Seen, Remember, PInv, PTypeOK
<1>2. ASSUME NEW c \in Calls PROVE ~Record(c)
  BY <1>2 DEF NoGap, Record
<1> QED
  BY <1>1, <1>2 DEF PNext, Send, Receive, HangUp, Serve, Replay, Begin, Abandon,
     Refuse, Decide, Restart, Idle, pvars

\* In a quick event loop a key's answer is its answer for as long as the
\* process lives (server.ts:96-141).
THEOREM AnswersStable ==
    ASSUME EventLoop, ~Latency
    PROVE  PSpec => AnswersAreStable
<1>1. PInit => NoGap
  BY DEF PInit, NoGap
<1>2. PInv /\ NoGap /\ [PNext]_pvars => NoGap'
  BY NoGapStep
<1>3. PInv /\ NoGap /\ [PNext]_pvars => [Stable]_pvars
  BY StableStep
<1>4. PSpec => [][Stable]_pvars
  BY <1>1, <1>2, <1>3, PInvariant, PTL DEF PSpec
<1> QED
  BY <1>4 DEF AnswersAreStable, Stable
=============================================================================
