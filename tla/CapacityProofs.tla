--------------------------- MODULE CapacityProofs ---------------------------
(***************************************************************************)
(* Theorems about Capacity for every number of requests, threads and       *)
(* connections and every history of outages, checked by TLAPS.             *)
(***************************************************************************)
EXTENDS Capacity, FiniteSetTheorems, TLAPS

\* The two invariants, and that what is counted is finite.
KInv == KTypeOK /\ CallsHoldNoConnection /\ IsFiniteSet(Working) /\ IsFiniteSet(conn)

\* Fewer requests at work are still no more than there are threads.
LEMMA WorkShrinks ==
    ASSUME IsFiniteSet(Working), Cardinality(Working) <= Threads,
           Working' \subseteq Working
    PROVE  IsFiniteSet(Working') /\ Cardinality(Working') <= Threads
<1>1. /\ IsFiniteSet(Working') /\ Cardinality(Working') <= Cardinality(Working)
  BY FS_Subset
<1>2. Cardinality(Working') \in Nat /\ Cardinality(Working) \in Nat
  BY <1>1, FS_CardinalityType
<1> QED
  BY <1>1, <1>2, CapacityAssumption

\* Giving connections back keeps the pool within its size.
LEMMA PoolShrinks ==
    ASSUME IsFiniteSet(conn), Cardinality(conn) <= Connections, conn' \subseteq conn
    PROVE  IsFiniteSet(conn') /\ Cardinality(conn') <= Connections
<1>1. /\ IsFiniteSet(conn') /\ Cardinality(conn') <= Cardinality(conn)
  BY FS_Subset
<1>2. Cardinality(conn') \in Nat /\ Cardinality(conn) \in Nat
  BY <1>1, FS_CardinalityType
<1> QED
  BY <1>1, <1>2, CapacityAssumption

\* Nobody works at first, and no connection is out.
LEMMA KInitInv == Init => KInv
<1> SUFFICES ASSUME Init PROVE KInv
  OBVIOUS
<1>1. Working = {} /\ conn = {}
  BY DEF Init, Working, DbSteps, NetSteps
<1>2. IsFiniteSet({}) /\ Cardinality({}) = 0
  BY FS_EmptySet
<1>3. IsFiniteSet(Working) /\ Cardinality(Working) = 0
  BY <1>1, <1>2
<1>4. IsFiniteSet(conn) /\ Cardinality(conn) = 0
  BY <1>1, <1>2
<1>5. KTypeOK
  BY <1>1, <1>3, <1>4, CapacityAssumption DEF Init, KTypeOK
<1> QED
  BY <1>1, <1>3, <1>4, <1>5 DEF KInv, CallsHoldNoConnection

\* A request that gets a thread finds one free.
LEMMA GetThreadInv ==
    ASSUME KInv, NEW r \in Requests, GetThread(r)
    PROVE  KInv'
<1> USE DEF KInv
<1>1. PICK step \in FirstSteps(r) : pc' = [pc EXCEPT ![r] = step]
  BY DEF GetThread
<1>2. step \in {"done"} \cup DbSteps \cup NetSteps
  BY <1>1 DEF FirstSteps, DbSteps, NetSteps
<1>3. Working' \subseteq Working \cup {r}
  BY <1>1 DEF Working, KTypeOK
<1>4. pc[r] \notin DbSteps \cup NetSteps
  BY DEF GetThread, DbSteps, NetSteps
<1>5. r \notin Working /\ Working \subseteq Working'
  BY <1>1, <1>4 DEF Working, KTypeOK
<1>6. /\ IsFiniteSet(Working \cup {r})
      /\ Cardinality(Working \cup {r}) = Cardinality(Working) + 1
  BY <1>5, FS_AddElement
<1>7. /\ IsFiniteSet(Working') /\ Cardinality(Working') <= Cardinality(Working) + 1
  BY <1>3, <1>6, FS_Subset
<1>8. Cardinality(Working') \in Nat /\ Cardinality(Working) \in Nat
  BY <1>7, FS_CardinalityType
<1>9. Cardinality(Working') <= Threads
  BY <1>7, <1>8, CapacityAssumption DEF GetThread, ThreadFree
<1>10. lost' \subseteq Calling'
  BY <1>1, <1>4 DEF GetThread, KTypeOK, Calling
<1>11. KTypeOK'
  BY <1>1, <1>2, <1>5, <1>9, <1>10 DEF GetThread, KTypeOK
<1>12. CallsHoldNoConnection'
  BY <1>1, <1>4 DEF GetThread, CallsHoldNoConnection, KTypeOK
<1> QED
  BY <1>7, <1>11, <1>12 DEF GetThread

\* A request takes a connection only if the pool has one, and only for a local
\* transaction.
LEMMA AcquireInv ==
    ASSUME KInv, NEW r \in Requests, Acquire(r)
    PROVE  KInv'
<1> USE DEF KInv, Acquire
<1>1. IsFiniteSet(conn') /\ Cardinality(conn') = Cardinality(conn) + 1
  BY FS_AddElement
<1>2. Cardinality(conn) \in Nat
  BY FS_CardinalityType
<1>3. Cardinality(conn') <= Connections
  BY <1>1, <1>2, CapacityAssumption DEF PoolEmpty
<1>4. Working' = Working /\ Calling' = Calling /\ r \in Working
  BY DEF Working, Calling
<1>5. KTypeOK'
  BY <1>3, <1>4 DEF KTypeOK
<1> QED
  BY <1>1, <1>4, <1>5 DEF CallsHoldNoConnection

\* A transaction that ends gives its connection back before anything else is
\* done with its result.
LEMMA TransactInv ==
    ASSUME KInv, NEW r \in Requests, Transact(r)
    PROVE  KInv'
<1> USE DEF KInv
<1>1. PICK step \in AfterDb(r) : pc' = [pc EXCEPT ![r] = step]
  BY DEF Transact
<1>2. step \in {"done"} \cup DbSteps \cup NetSteps
  BY <1>1 DEF AfterDb, DbSteps, NetSteps
<1>3. r \in Working /\ Working' \subseteq Working
  BY <1>1 DEF Transact, Working, KTypeOK
<1>4. IsFiniteSet(Working') /\ Cardinality(Working') <= Threads
  BY <1>3, WorkShrinks DEF KTypeOK
<1>5. conn' = conn \ {r} /\ UNCHANGED <<net, channel, lost, outages>>
  BY DEF Transact, GiveBack
<1>6. IsFiniteSet(conn') /\ Cardinality(conn') <= Connections
  BY <1>5, PoolShrinks DEF KTypeOK
<1>7. lost' \subseteq Calling'
  BY <1>1, <1>5 DEF Transact, KTypeOK, Calling, DbSteps, NetSteps
<1>8. Working \ {r} \subseteq Working'
  BY <1>1 DEF Working, KTypeOK
<1>9. KTypeOK'
  BY <1>1, <1>2, <1>4, <1>5, <1>6, <1>7, <1>8 DEF KTypeOK
<1>10. CallsHoldNoConnection'
  BY <1>1, <1>5 DEF CallsHoldNoConnection, KTypeOK
<1> QED
  BY <1>4, <1>6, <1>9, <1>10

\* A request that ends, whatever it waited for, frees a thread and holds no
\* connection.
LEMMA EndInv ==
    ASSUME KInv, NEW r \in Requests, r \notin conn,
           pc' = [pc EXCEPT ![r] = "done"], lost' = lost \ {r},
           UNCHANGED <<conn, net, channel, outages>>
    PROVE  KInv'
<1> USE DEF KInv
<1>1. Working' = Working \ {r}
  BY DEF Working, KTypeOK, DbSteps, NetSteps
<1>2. IsFiniteSet(Working') /\ Cardinality(Working') <= Threads
  BY <1>1, WorkShrinks DEF KTypeOK
<1>3. lost' \subseteq Calling'
  BY DEF Calling, KTypeOK
<1>4. KTypeOK'
  BY <1>1, <1>2, <1>3 DEF KTypeOK
<1>5. CallsHoldNoConnection'
  BY DEF CallsHoldNoConnection, KTypeOK
<1> QED
  BY <1>2, <1>4, <1>5

\* Nobody who ends here holds a connection or has lost one.
LEMMA TimeoutInv ==
    ASSUME KInv, NEW r \in Requests, PoolTimesOut(r) \/ CallFails(r)
    PROVE  KInv'
<1>1. CASE PoolTimesOut(r)
  <2>1. r \notin lost
    BY <1>1 DEF KInv, KTypeOK, Calling, PoolTimesOut, DbSteps, NetSteps
  <2> QED
    BY <1>1, <2>1, EndInv DEF PoolTimesOut
<1>2. CASE CallFails(r)
  <2>1. r \notin conn
    BY <1>2 DEF KInv, CallsHoldNoConnection, CallFails, DbSteps, NetSteps
  <2> QED
    BY <1>2, <2>1, EndInv DEF CallFails
<1> QED
  BY <1>1, <1>2

\* An answer from another service finds its caller without a connection.
LEMMA CallReturnsInv ==
    ASSUME KInv, NEW r \in Requests, CallReturns(r)
    PROVE  KInv'
<1> USE DEF KInv
<1>1. PICK step \in {"charging", "persist", "done"} : pc' = [pc EXCEPT ![r] = step]
  BY DEF CallReturns
<1>2. r \in Working /\ r \notin conn /\ r \notin lost /\ UNCHANGED <<conn, net, channel, lost, outages>>
  BY DEF CallReturns, Working, CallsHoldNoConnection, DbSteps, NetSteps
<1>3. Working' \subseteq Working /\ Working \ {r} \subseteq Working'
  BY <1>1, <1>2 DEF Working, KTypeOK
<1>4. IsFiniteSet(Working') /\ Cardinality(Working') <= Threads
  BY <1>3, WorkShrinks DEF KTypeOK
<1>5. lost' \subseteq Calling'
  BY <1>1, <1>2 DEF Calling, KTypeOK
<1>6. KTypeOK'
  BY <1>1, <1>2, <1>3, <1>4, <1>5 DEF KTypeOK, DbSteps, NetSteps
<1>7. CallsHoldNoConnection'
  BY <1>1, <1>2 DEF CallsHoldNoConnection, KTypeOK
<1> QED
  BY <1>2, <1>4, <1>6, <1>7

\* A request that arrives is at work only once it has a thread.
LEMMA ArriveInv ==
    ASSUME KInv, NEW r \in Requests, Arrive(r)
    PROVE  KInv'
<1> USE DEF KInv
<1>1. Working' = Working /\ Calling' = Calling
  BY DEF Arrive, Working, Calling, KTypeOK, DbSteps, NetSteps
<1>2. KTypeOK'
  BY <1>1 DEF Arrive, KTypeOK
<1>3. CallsHoldNoConnection'
  BY DEF Arrive, CallsHoldNoConnection, KTypeOK, DbSteps
<1> QED
  BY <1>1, <1>2, <1>3 DEF Arrive

\* Outages, and the ends of outages, touch no thread and no connection of the pool.
LEMMA OutageInv ==
    ASSUME KInv, NEW d \in Deps, Hang(d) \/ Stop(d) \/ Recover(d) \/ Reconnect
    PROVE  KInv'
<1> USE DEF KInv
<1>1. UNCHANGED <<pc, conn>>
  BY DEF Hang, Stop, Recover, Reconnect
<1>2. Working' = Working /\ Calling' = Calling
  BY <1>1 DEF Working, Calling
<1>3. lost' \subseteq Calling'
  BY <1>2 DEF Hang, Stop, Recover, Reconnect, KTypeOK
<1>4. outages' \in 0..MaxOutages
  BY CapacityAssumption DEF Hang, Stop, Recover, Reconnect, KTypeOK
<1>5. net' \in [Deps -> {"up", "hung", "down"}]
  BY DEF Hang, Stop, Recover, Reconnect, KTypeOK
<1>6. channel' \in {"ready", "failing"}
  BY DEF Hang, Stop, Recover, Reconnect, KTypeOK
<1>7. KTypeOK'
  BY <1>1, <1>2, <1>3, <1>4, <1>5, <1>6 DEF KTypeOK
<1>8. CallsHoldNoConnection'
  BY <1>1 DEF CallsHoldNoConnection
<1> QED
  BY <1>1, <1>2, <1>7, <1>8

\* KInv is inductive.
LEMMA KNextInv == KInv /\ [Next]_kvars => KInv'
<1> SUFFICES ASSUME KInv, [Next]_kvars PROVE KInv'
  OBVIOUS
<1>1. ASSUME NEW r \in Requests, Arrive(r) \/ Serve(r) PROVE KInv'
  BY <1>1, ArriveInv, GetThreadInv, AcquireInv, TimeoutInv, TransactInv,
     CallReturnsInv DEF Serve
<1>2. ASSUME NEW d \in Deps, Hang(d) \/ Stop(d) \/ Recover(d) \/ Reconnect PROVE KInv'
  BY <1>2, OutageInv
<1>3. CASE UNCHANGED kvars
  BY <1>3 DEF kvars, KInv, KTypeOK, CallsHoldNoConnection, Working, Calling
<1> QED
  BY <1>1, <1>2, <1>3 DEF Next, Deps

\* KInv holds in every state of the service.
THEOREM KInvariant == Spec => []KInv
<1> QED
  BY KInitInv, KNextInv, PTL DEF Spec

\* Whatever hangs, for however long: never more requests at work than there
\* are threads, never more connections out than the pool has.
THEOREM KTypeCorrect == Spec => []KTypeOK
<1>1. KInv => KTypeOK
  BY DEF KInv
<1> QED
  BY <1>1, KInvariant, PTL

\* No request ever waits for another service with a connection in its hand.
THEOREM CallsHoldNothing == Spec => []CallsHoldNoConnection
<1>1. KInv => CallsHoldNoConnection
  BY DEF KInv
<1> QED
  BY <1>1, KInvariant, PTL
=============================================================================
