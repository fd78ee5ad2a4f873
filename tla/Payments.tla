------------------------------ MODULE Payments ------------------------------
(***************************************************************************)
(* The payments service: one unary RPC, Charge, answered from an in-memory *)
(* table of idempotency keys.  The six servers (services/payments/) run    *)
(* the same steps; what differs is which steps another call can get        *)
(* between:                                                                *)
(*   - Python, Go, Java, C#, Ruby serve each call on a thread of its own,  *)
(*     and the lookup of the key and the storing of the answer are two     *)
(*     separate critical sections;                                         *)
(*   - the TypeScript server runs on one event loop, and gives up its turn *)
(*     only while it waits for the injected latency.                       *)
(***************************************************************************)
EXTENDS Integers, FiniteSets

CONSTANTS
    Calls,          \* the RPCs; each is made once (no client retries an RPC)
    Keys,           \* idempotency keys
    NoKey,          \* the empty idempotency_key
    Nobody,         \* no payment_id
    Amounts,        \* the amounts a caller may ask for
    Limit,          \* PAYMENT_DECLINE_OVER_CENTS
    AlwaysDecline,  \* PAYMENT_ALWAYS_DECLINE
    Latency,        \* PAYMENT_LATENCY_MS > 0
    EventLoop,      \* TRUE for the TypeScript server
    Workers,        \* threads of the server's pool
    MayRestart,     \* the process may be restarted
    MayHangUp       \* a caller's connection may break

ASSUME PaymentsAssumption ==
    /\ NoKey \notin Keys
    /\ Nobody \notin Calls
    /\ Amounts \subseteq Int
    /\ Limit \in Int
    /\ {AlwaysDecline, Latency, EventLoop, MayRestart, MayHangUp} \subseteq BOOLEAN
    /\ Workers \in Nat \ {0}

VARIABLES
    call,     \* call[c]: the ChargeRequest of call c
    st,       \* st[c]: how far the server is with call c
    live,     \* live[c]: the caller of c is still connected
    reply,    \* reply[c]: the ChargeResponse of call c
    charges,  \* charges[k]: the answer remembered for key k
    ledger    \* the calls that took money (history: approved payment_ids)

pvars == <<call, st, live, reply, charges, ledger>>

(***************************************************************************)
(* A ChargeRequest keeps the key and the amount, a ChargeResponse its      *)
(* status and its payment_id, which is the call that made it.              *)
(***************************************************************************)
Request  == [key : Keys \cup {NoKey}, amount : Amounts]
Blank    == [key |-> NoKey, amount |-> 0]
Answer   == [status : {"NONE", "APPROVED", "DECLINED", "INVALID_ARGUMENT"},
             by : Calls \cup {Nobody}]
NoAnswer == [status |-> "NONE", by |-> Nobody]
Invalid  == [status |-> "INVALID_ARGUMENT", by |-> Nobody]
Forgotten == [k \in Keys |-> NoAnswer]

Stage == {"none", "sent", "working", "decided", "answered", "received",
          "abandoned", "dead"}

\* Mutant: a worker whose caller has gone is never given back.
BusyForever == {c \in Calls : st[c] \in {"working", "decided", "abandoned"}}

\* Calls that hold a worker, and calls the server has not finished with.
Busy     == {c \in Calls : st[c] \in {"working", "decided"}}
InFlight == {c \in Calls : st[c] \in {"sent", "working", "decided"}}
\* Mutant: a thread for every call, as many as there are.
AnyWorker == TRUE
WorkerFree == Cardinality(Busy) < Workers

\* Mutant: an await between the lookup and the record.
TurnGivenUp == FALSE

\* The whole handler runs in one turn of the event loop.
OneTurn == EventLoop /\ ~Latency

Keyed(c) == call[c].key # NoKey
Seen(c)  == Keyed(c) /\ charges[call[c].key] # NoAnswer

\* Mutant: the limit is not looked at.
VerdictUnlimited(c) == IF AlwaysDecline THEN "DECLINED" ELSE "APPROVED"

Verdict(c) == IF AlwaysDecline \/ call[c].amount > Limit
              THEN "DECLINED" ELSE "APPROVED"
\* Mutant: the key in the place of the payment_id.
FreshSwapped(c) == [status |-> Verdict(c), by |-> call[c].key]
Fresh(c)   == [status |-> Verdict(c), by |-> c]

PInit ==
    /\ call = [c \in Calls |-> Blank]
    /\ st = [c \in Calls |-> "none"]
    /\ live = [c \in Calls |-> FALSE]
    /\ reply = [c \in Calls |-> NoAnswer]
    /\ charges = Forgotten
    /\ ledger = {}

(***************************************************************************)
(* The caller's side of the RPC.                                           *)
(***************************************************************************)
Send(c, k, a) ==
    /\ st[c] = "none"
    /\ call' = [call EXCEPT ![c] = [key |-> k, amount |-> a]]
    /\ st' = [st EXCEPT ![c] = "sent"]
    /\ live' = [live EXCEPT ![c] = TRUE]
    /\ UNCHANGED <<reply, charges, ledger>>

Receive(c) ==
    /\ st[c] = "answered" /\ live[c]
    /\ st' = [st EXCEPT ![c] = "received"]
    /\ UNCHANGED <<call, live, reply, charges, ledger>>

\* The connection of c breaks, or the caller dies, or the caller is told that
\* the server went away.  A request still on the wire may or may not arrive.
HangUp(c) ==
    /\ MayHangUp \/ st[c] = "dead"
    /\ live[c] /\ st[c] \in {"sent", "working", "decided", "answered", "dead"}
    /\ live' = [live EXCEPT ![c] = FALSE]
    /\ st' \in {st} \cup {[st EXCEPT ![c] = IF @ = "sent" THEN "dead" ELSE @]}
    /\ UNCHANGED <<call, reply, charges, ledger>>

(***************************************************************************)
(* The server's side: the critical sections of Charge.                     *)
(***************************************************************************)

\* First critical section, key found: the original answer, nothing charged.
Replay(c) ==
    /\ st[c] = "sent" /\ WorkerFree
    /\ Seen(c)
    /\ reply' = [reply EXCEPT ![c] = charges[call[c].key]]
    /\ st' = [st EXCEPT ![c] = "answered"]
    /\ UNCHANGED <<call, live, charges, ledger>>

\* First critical section, key not found (or none given).
Begin(c) ==
    /\ ~OneTurn
    /\ st[c] = "sent" /\ WorkerFree
    /\ ~Seen(c)
    /\ st' = [st EXCEPT ![c] = "working"]
    /\ UNCHANGED <<call, live, reply, charges, ledger>>

\* The wait for the injected latency notices that the caller has gone.
Abandon(c) ==
    /\ Latency
    /\ st[c] = "working" /\ ~live[c]
    /\ st' = [st EXCEPT ![c] = "abandoned"]
    /\ UNCHANGED <<call, live, reply, charges, ledger>>

\* Where the handler stands when it looks at the amount.
AtAmount(c) == IF OneTurn THEN st[c] = "sent" /\ WorkerFree /\ ~Seen(c)
               ELSE st[c] = "working"

Refuse(c) ==
    /\ AtAmount(c)
    /\ call[c].amount <= 0
    /\ reply' = [reply EXCEPT ![c] = Invalid]
    /\ st' = [st EXCEPT ![c] = "answered"]
    /\ UNCHANGED <<call, live, charges, ledger>>

\* Mutants: no money for a caller that has gone; money for a declined card.
TakePaymentIfLive(c) ==
    ledger' = IF Verdict(c) = "APPROVED" /\ live[c] THEN ledger \cup {c} ELSE ledger
TakePaymentAnyway(c) == ledger' = ledger \cup {c}

\* The money moves when the response is built ...
TakePayment(c) ==
    ledger' = IF Verdict(c) = "APPROVED" THEN ledger \cup {c} ELSE ledger

\* Mutants: nothing is remembered; declines are not.
RememberNothing(c) == charges' = charges
RememberApproved(c) ==
    charges' = IF Keyed(c) /\ Verdict(c) = "APPROVED"
               THEN [charges EXCEPT ![call[c].key] = Fresh(c)] ELSE charges

\* ... and the answer is remembered when it is put in the table.
Remember(c) ==
    charges' = IF Keyed(c) THEN [charges EXCEPT ![call[c].key] = Fresh(c)]
               ELSE charges

Decide(c) ==
    /\ ~EventLoop
    /\ AtAmount(c)
    /\ call[c].amount > 0
    /\ reply' = [reply EXCEPT ![c] = Fresh(c)]
    /\ TakePayment(c)
    /\ st' = [st EXCEPT ![c] = "decided"]
    /\ UNCHANGED <<call, live, charges>>

\* Second critical section.
Record(c) ==
    /\ st[c] = "decided"
    /\ Remember(c)
    /\ st' = [st EXCEPT ![c] = "answered"]
    /\ UNCHANGED <<call, live, reply, ledger>>

\* The event loop's settle(): decision and record without a gap.
Settle(c) ==
    /\ EventLoop
    /\ AtAmount(c)
    /\ call[c].amount > 0
    /\ reply' = [reply EXCEPT ![c] = Fresh(c)]
    /\ TakePayment(c)
    /\ Remember(c)
    /\ st' = [st EXCEPT ![c] = "answered"]
    /\ UNCHANGED <<call, live>>

Serve(c) == Replay(c) \/ Begin(c) \/ Abandon(c) \/ Refuse(c) \/ Decide(c)
            \/ Record(c) \/ Settle(c)

\* The process is restarted: the table is gone and so are the calls in it.
Restart ==
    /\ MayRestart
    /\ InFlight # {} \/ charges # Forgotten
    /\ charges' = Forgotten
    /\ st' = [c \in Calls |-> IF c \in InFlight THEN "dead" ELSE st[c]]
    /\ UNCHANGED <<call, live, reply, ledger>>

\* Nothing is left to do: every call is over and none is left to make.
AllOver == \A c \in Calls : \/ st[c] \in {"received", "abandoned", "dead"}
                            \/ st[c] = "answered" /\ ~live[c]
Idle == AllOver /\ UNCHANGED pvars

PNext ==
    \/ \E c \in Calls :
        \/ \E k \in Keys \cup {NoKey}, a \in Amounts : Send(c, k, a)
        \/ Receive(c)
        \/ HangUp(c)
        \/ Serve(c)
    \/ Restart
    \/ Idle

PSpec == PInit /\ [][PNext]_pvars

\* The server runs every call it has accepted, and serves its queue.
PFairness == \A c \in Calls : WF_pvars(Serve(c))
FairPSpec == PSpec /\ PFairness

-----------------------------------------------------------------------------
(***************************************************************************)
(* Properties.                                                             *)
(***************************************************************************)

\* The types of the server's state and of every request and response.
PTypeOK ==
    /\ call \in [Calls -> Request \cup {Blank}]
    /\ st \in [Calls -> Stage]
    /\ live \in [Calls -> BOOLEAN]
    /\ reply \in [Calls -> Answer]
    /\ charges \in [Keys -> Answer]
    /\ ledger \subseteq Calls

\* An APPROVED that reaches a caller, and an APPROVED the table would replay,
\* names a payment that was really taken, and taken under the caller's own
\* key: interleaved calls never exchange answers (server.py:64-70, 107-118).
ApprovalsAreReal ==
    /\ \A c \in Calls : reply[c].status = "APPROVED" =>
           /\ reply[c].by \in ledger
           /\ call[reply[c].by].key = call[c].key
           /\ ~Keyed(c) => reply[c].by = c
    /\ \A k \in Keys : charges[k].status = "APPROVED" =>
           charges[k].by \in ledger /\ call[charges[k].by].key = k

\* No money is taken for an amount the server must refuse or decline, even
\* when a refused or declined call shares its key with an accepted one
\* (server.py:86-92).
LedgerIsWithinLimit ==
    \A c \in ledger : ~AlwaysDecline /\ call[c].amount \in 1..Limit

\* How a call's stage, its answer, the table and the ledger belong together:
\* money is taken in the step that decides, never before and never for a call
\* whose answer is DECLINED, and no answer that can reach a caller or the table
\* is blank (server.py:86-118).  With the two properties above it is inductive;
\* PaymentsProofs proves it.
StagesAreSound ==
    /\ \A c \in Calls :
        /\ c \in ledger => st[c] \notin {"none", "sent", "working"}
        /\ st[c] = "none" => reply[c] = NoAnswer
        /\ st[c] = "decided" => reply[c] = Fresh(c)
        /\ st[c] \in {"answered", "received"} => reply[c] # NoAnswer
        /\ reply[c].status = "DECLINED" => c \notin ledger
        /\ reply[c].status = "NONE" => reply[c] = NoAnswer
    /\ \A k \in Keys :
        charges[k] = NoAnswer \/ charges[k].status \in {"APPROVED", "DECLINED"}

PInv == PTypeOK /\ ApprovalsAreReal /\ LedgerIsWithinLimit /\ StagesAreSound

\* One idempotency key takes at most one payment: "a repeat of a key we have
\* seen returns the ORIGINAL answer and charges nothing" (server.py:61-63).
ChargedOncePerKey ==
    \A c, d \in ledger : Keyed(c) /\ call[c].key = call[d].key => c = d

\* What keeps an event loop without latency to one payment per key: nothing is
\* between the lookup and the record, and the table knows every payment
\* (server.ts:43-45, 96-141).
TableKnowsPayments ==
    \A c \in Calls :
        /\ st[c] \notin {"working", "decided"}
        /\ c \in ledger /\ Keyed(c) =>
               charges[call[c].key] = [status |-> "APPROVED", by |-> c]

ChargesUnder(k) == {c \in ledger : call[c].key = k}

\* How bad the gap between the two critical sections can get while the
\* process lives: a key is never charged more often than there are workers,
\* since every double charge holds a worker from before the first record
\* (server.py:64-118, pool of server.py:148).
ChargesBoundedByWorkers ==
    \A k \in Keys : Cardinality(ChargesUnder(k)) <= Workers

\* The table never changes its mind about a key: the answer a key was given
\* stays the answer of that key for as long as the process lives
\* (server.py:61-63, 116-118).
AnswersAreStable ==
    [][\A k \in Keys : charges[k] # NoAnswer /\ charges' # Forgotten
                         => charges'[k] = charges[k]]_pvars

\* A call that a connected caller waits for is eventually answered, however
\* few workers there are and whatever the other callers do: a slow or
\* abandoned call gives its worker back (server.py:79-84, 148).
CallsAreAnswered ==
    \A c \in Calls :
        st[c] = "sent" ~> st[c] \in {"answered", "received", "abandoned", "dead"}
=============================================================================
