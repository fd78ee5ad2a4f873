------------------------------ MODULE Capacity ------------------------------
(***************************************************************************)
(* What the orders service runs on: a limited number of request threads, a *)
(* pool of database connections, and two services that may hang or go away *)
(* while it waits for them without a deadline.  Every endpoint is a plain  *)
(* `def`, so each request, GET /health too, holds a thread from its first  *)
(* step to its last; a client that gives up frees nothing.  A connection is *)
(* held for one local transaction at a time, and the channel to payments is *)
(* one for the life of the process.                                        *)
(*                                                                         *)
(* What the requests read, write and charge is the business of Orders;     *)
(* here a step ends in any of the ways its code can end.                   *)
(***************************************************************************)
EXTENDS Integers, FiniteSets

CONSTANTS
    Checkouts,    \* POST /v1/orders
    Locals,       \* GET /v1/orders/{id} and POST /v1/orders/{id}/cancel
    Probes,       \* GET /health
    Threads,      \* worker threads of the web server
    Connections,  \* max_size of the database pool
    MaxOutages    \* bound on how often a dependency hangs or goes away

\* Clients by what they ask for; each asks again when it has been answered.
Requests == Checkouts \cup Locals \cup Probes
Deps == {"catalog", "payments"}

ASSUME CapacityAssumption ==
    /\ Checkouts \cap (Locals \cup Probes) = {} /\ Locals \cap Probes = {}
    /\ Threads \in Nat \ {0} /\ Connections \in Nat \ {0}
    /\ MaxOutages \in Nat

VARIABLES
    pc,      \* pc[r]: where request r stands
    conn,    \* the requests that hold a database connection
    net,     \* net[d]: "up", "hung" or "down"
    channel, \* of orders to payments: "ready" or "failing"
    lost,    \* the requests whose connection to a dependency broke
    outages  \* how often a dependency has hung or gone away

kvars == <<pc, conn, net, channel, lost, outages>>

\* The steps that need the database, and those that wait for another service.
DbSteps  == {"lookup", "replay", "persist", "find", "mark"}
NetSteps == {"pricing", "charging"}

Working == {r \in Requests : pc[r] \in DbSteps \cup NetSteps}
Dep(r) == IF pc[r] = "pricing" THEN "catalog" ELSE "payments"

\* Nobody to send the request to.  A connection to catalog is opened for the
\* call; calls to payments fail as long as their channel does, which may be
\* longer than payments is away.
NoLink(r) == net[Dep(r)] = "down" \/ (pc[r] = "charging" /\ channel = "failing")

\* Requests in a call to another service, and those of them that wait for an
\* answer that is not on its way.
Calling == {r \in Requests : pc[r] \in NetSteps}
Stuck == {r \in Calling \ lost : net[Dep(r)] = "hung" /\ ~NoLink(r)}

Init ==
    /\ pc = [r \in Requests |-> "idle"]
    /\ conn = {}
    /\ net = [d \in Deps |-> "up"]
    /\ channel = "ready"
    /\ lost = {}
    /\ outages = 0

Arrive(r) ==
    /\ pc[r] \in {"idle", "done"}
    /\ pc' = [pc EXCEPT ![r] = "queued"]
    /\ UNCHANGED <<conn, net, channel, lost, outages>>

\* Mutant: the probe asks payments before it answers.
FirstStepsProbing(r) ==
    CASE r \in Checkouts -> {"lookup", "pricing", "done"}
      [] r \in Probes    -> {"charging"}
      [] OTHER           -> {"find"}

\* The first step of r: a checkout with a key is looked up, one without is
\* priced, an invalid one ends; GET /health ends where it begins.
FirstSteps(r) ==
    CASE r \in Checkouts -> {"lookup", "pricing", "done"}
      [] r \in Probes    -> {"done"}
      [] OTHER           -> {"find"}

\* Mutant: as many threads as there are requests.
AnyThread == TRUE
ThreadFree == Cardinality(Working) < Threads

GetThread(r) ==
    /\ pc[r] = "queued" /\ ThreadFree
    /\ \E step \in FirstSteps(r) : pc' = [pc EXCEPT ![r] = step]
    /\ UNCHANGED <<conn, net, channel, lost, outages>>

-----------------------------------------------------------------------------
(***************************************************************************)
(* Local transactions: with pool.connection().                             *)
(***************************************************************************)
PoolEmpty == Cardinality(conn) >= Connections

Acquire(r) ==
    /\ pc[r] \in DbSteps /\ r \notin conn
    /\ ~PoolEmpty
    /\ conn' = conn \cup {r}
    /\ UNCHANGED <<pc, net, channel, lost, outages>>

\* No connection comes free in time: PoolTimeout, an internal error.
PoolTimesOut(r) ==
    /\ pc[r] \in DbSteps /\ r \notin conn
    /\ PoolEmpty
    /\ pc' = [pc EXCEPT ![r] = "done"]
    /\ UNCHANGED <<conn, net, channel, lost, outages>>

\* What a transaction of r may lead to; each may also fail and end r.  A read
\* ends where a cancel goes on to mark the order.
AfterDb(r) ==
    CASE pc[r] = "lookup" -> {"replay", "pricing", "done"}
      [] pc[r] = "find" -> {"mark", "done"}
      [] OTHER -> {"done"}

\* Mutant: one connection from the top of a checkout to its bottom.
GiveBackAtTheEnd(r) == conn' = IF pc'[r] = "done" THEN conn \ {r} ELSE conn

GiveBack(r) == conn' = conn \ {r}

Transact(r) ==
    /\ pc[r] \in DbSteps /\ r \in conn
    /\ \E step \in AfterDb(r) : pc' = [pc EXCEPT ![r] = step]
    /\ GiveBack(r)
    /\ UNCHANGED <<net, channel, lost, outages>>

-----------------------------------------------------------------------------
(***************************************************************************)
(* Calls to catalog (all lines of a basket are one step here) and payments.*)
(***************************************************************************)

CallReturns(r) ==
    /\ pc[r] \in NetSteps /\ r \notin lost
    /\ net[Dep(r)] = "up" /\ ~NoLink(r)
    /\ \E step \in {IF pc[r] = "pricing" THEN "charging" ELSE "persist", "done"} :
        pc' = [pc EXCEPT ![r] = step]
    /\ UNCHANGED <<conn, net, channel, lost, outages>>

\* A broken connection, or nobody to send to: catalog-unavailable or
\* payments-unavailable.
CallFails(r) ==
    /\ pc[r] \in NetSteps
    /\ r \in lost \/ NoLink(r)
    /\ pc' = [pc EXCEPT ![r] = "done"]
    /\ lost' = lost \ {r}
    /\ UNCHANGED <<conn, net, channel, outages>>

\* No deadline, no retry, no circuit breaker: nothing else ends a call.
Serve(r) == \/ GetThread(r) \/ Acquire(r) \/ PoolTimesOut(r) \/ Transact(r)
            \/ CallReturns(r) \/ CallFails(r)

-----------------------------------------------------------------------------
(***************************************************************************)
(* The dependencies: slow or paused, stopped, and back again.              *)
(***************************************************************************)
Hang(d) ==
    /\ net[d] = "up" /\ outages < MaxOutages
    /\ net' = [net EXCEPT ![d] = "hung"]
    /\ outages' = outages + 1
    /\ UNCHANGED <<pc, conn, channel, lost>>

Stop(d) ==
    /\ net[d] # "down" /\ outages < MaxOutages
    /\ net' = [net EXCEPT ![d] = "down"]
    /\ outages' = outages + 1
    /\ lost' = lost \cup {r \in Calling : Dep(r) = d}
    /\ channel' = IF d = "payments" THEN "failing" ELSE channel
    /\ UNCHANGED <<pc, conn>>

Recover(d) ==
    /\ net[d] # "up"
    /\ net' = [net EXCEPT ![d] = "up"]
    /\ UNCHANGED <<pc, conn, channel, lost, outages>>

\* Mutant: a circuit breaker that closes after the first outage only.
ReconnectOnce ==
    /\ channel = "failing" /\ net["payments"] = "up" /\ outages <= 1
    /\ channel' = "ready"
    /\ UNCHANGED <<pc, conn, net, lost, outages>>

\* The channel "reconnects on its own after a failure", some time after
\* payments is back (the gRPC library).
Reconnect ==
    /\ channel = "failing" /\ net["payments"] = "up"
    /\ channel' = "ready"
    /\ UNCHANGED <<pc, conn, net, lost, outages>>

Next ==
    \/ \E r \in Requests : Arrive(r) \/ Serve(r)
    \/ \E d \in Deps : Hang(d) \/ Stop(d) \/ Recover(d)
    \/ Reconnect

Spec == Init /\ [][Next]_kvars

\* Threads run and the database answers; the requests that wait for a thread
\* stand in a queue, and the channel keeps trying to connect.  Nothing makes a
\* hung service recover.
Fairness ==
    /\ \A r \in Requests : WF_kvars(Serve(r)) /\ SF_kvars(GetThread(r))
    /\ WF_kvars(Reconnect)
FairSpec == Spec /\ Fairness

-----------------------------------------------------------------------------
(***************************************************************************)
(* Properties.                                                             *)
(***************************************************************************)

\* The types of the service's state, and its limits: never more requests at
\* work than threads, nor more connections out than the pool has
\* (main.py:9-11, repository.py:26).
KTypeOK ==
    /\ pc \in [Requests -> {"idle", "queued", "done"} \cup DbSteps \cup NetSteps]
    /\ conn \subseteq Working
    /\ net \in [Deps -> {"up", "hung", "down"}]
    /\ channel \in {"ready", "failing"}
    /\ lost \subseteq Calling
    /\ outages \in 0..MaxOutages
    /\ Cardinality(Working) <= Threads
    /\ Cardinality(conn) <= Connections

\* "Talk to the network first, hold no locks while doing it": no request holds
\* a connection while it waits for another service, so however many checkouts
\* hang, the pool is as full as it was (service.py:24-36).
CallsHoldNoConnection == \A r \in conn : pc[r] \in DbSteps

\* A connection that is out comes back: who holds one waits for nothing that
\* another request or service has, so a pool that is empty is not for ever,
\* even if both dependencies hang for good (service.py:24-36).
PoolRefills == PoolEmpty ~> ~PoolEmpty

\* As long as hung calls leave a thread over, every request that needs no other
\* service is answered: an outage of payments is not an outage of reads,
\* cancels and GET /health (main.py:69-81, service.py:24-33).  When they leave
\* none, even GET /health waits.
ServedWhileThreadsLast ==
    <>[](Cardinality(Stuck) < Threads) =>
        \A r \in Requests \ Checkouts : pc[r] = "queued" ~> pc[r] = "done"

\* "Recovery: checkout works again without restarting orders"
\* (resilience.py:287).  Once both dependencies are up for good, no checkout
\* is told any more that one of them is unavailable, from some time on, however
\* often the clients ask; and every request ends, those that hung through the
\* outage and those queued behind them too.  What the checkout then says (201,
\* a decline, a database error) is the business of Orders.
RecoversByItself ==
    <>[](\A d \in Deps : net[d] = "up") =>
        /\ <>[][\A r \in Requests : ~CallFails(r)]_kvars
        /\ \A r \in Requests : pc[r] = "queued" ~> pc[r] = "done"
=============================================================================
