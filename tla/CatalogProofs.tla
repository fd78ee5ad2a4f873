--------------------------- MODULE CatalogProofs ----------------------------
(***************************************************************************)
(* Theorems about Catalog for every set of clients and skus, every limit   *)
(* and every history of inserts and withdrawals, checked by TLAPS.         *)
(***************************************************************************)
EXTENDS Catalog, FiniteSetTheorems, TLAPS

\* The properties of Catalog and the finiteness of the shelf, together
\* inductive.
CInv == /\ CTypeOK /\ IsFiniteSet(products)
        /\ NothingTwice /\ NothingMissed /\ CursorsSplitTheShelf

\* Skus and cursors are numbers, so that they can be compared.
LEMMA PositionsAreNumbers ==
    ASSUME CTypeOK, NEW w \in Clients
    PROVE  /\ products \subseteq Nat \ {0}
           /\ cursor[w] \in Nat /\ page[w].next \in Nat
           /\ page[w].items \subseteq Nat \ {0}
           /\ seen[w] \subseteq Nat \ {0} /\ there[w] \subseteq Nat \ {0}
<1>1. Skus \subseteq Nat /\ 0 \notin Skus
  BY CatalogAssumption
<1>2. /\ products \subseteq Skus /\ cursor[w] \in Skus \cup {0}
      /\ seen[w] \subseteq Skus /\ there[w] \subseteq Skus
  BY DEF CTypeOK
<1>3. page[w] \in [items : SUBSET Skus, next : Skus \cup {0}]
  BY DEF CTypeOK
<1>4. page[w].items \subseteq Skus /\ page[w].next \in Skus \cup {0}
  BY <1>3
<1>5. cursor[w] \in Nat /\ page[w].next \in Nat
  <2>1. \A n \in Skus \cup {0} : n \in Nat
    BY <1>1
  <2> QED
    BY <1>2, <1>4, <2>1
<1>6. products \subseteq Nat \ {0} /\ page[w].items \subseteq Nat \ {0}
  BY <1>1, <1>2, <1>4
<1>7. seen[w] \subseteq Nat \ {0} /\ there[w] \subseteq Nat \ {0}
  BY <1>1, <1>2
<1> QED
  BY <1>5, <1>6, <1>7

\* What a page is, whatever was on the shelf: no longer than the limit; all of
\* it beyond the cursor; and nothing left out up to the next cursor, or at all
\* if there is none.
LEMMA PageIsASlice ==
    ASSUME CTypeOK, IsFiniteSet(products), NEW w \in Clients, Serve(w)
    PROVE  LET items == page'[w].items  next == page'[w].next IN
           /\ page' = [page EXCEPT ![w] = [items |-> items, next |-> next]]
           /\ items \subseteq Beyond(w)
           /\ Cardinality(items) <= MaxLimit
           /\ next \in items \cup {0}
           /\ next # 0 => \A s \in items : s <= next
           /\ \A s \in Beyond(w) : next = 0 \/ s <= next => s \in items
<1>0. PICK rows \in SUBSET Beyond(w) :
        /\ IsFirst(rows, Beyond(w), Peek(w))
        /\ \E items \in SUBSET rows : \E next \in items \cup {0} :
            /\ IsFirst(items, rows, limit[w])
            /\ IF Cardinality(rows) > limit[w] /\ items # {}
               THEN next \in items /\ \A s \in items : s <= next
               ELSE next = 0
            /\ page' = [page EXCEPT ![w] = [items |-> items, next |-> next]]
  BY Zenon DEF Serve
<1>1. PICK items \in SUBSET rows : \E next \in items \cup {0} :
        /\ IsFirst(items, rows, limit[w])
        /\ IF Cardinality(rows) > limit[w] /\ items # {}
           THEN next \in items /\ \A s \in items : s <= next
           ELSE next = 0
        /\ page' = [page EXCEPT ![w] = [items |-> items, next |-> next]]
  BY <1>0
<1>a. PICK next \in items \cup {0} :
        /\ IF Cardinality(rows) > limit[w] /\ items # {}
           THEN next \in items /\ \A s \in items : s <= next
           ELSE next = 0
        /\ page' = [page EXCEPT ![w] = [items |-> items, next |-> next]]
  BY <1>1
<1>2. page'[w] = [items |-> items, next |-> next]
  BY <1>0, <1>1, <1>a DEF CTypeOK
<1>b. page'[w].items = items /\ page'[w].next = next
  BY <1>2
<1>3. limit[w] \in 1..MaxLimit /\ Peek(w) = limit[w] + 1 /\ limit[w] \in Nat \ {0}
  BY CatalogAssumption DEF Serve, LimitIsValid, Peek, CTypeOK
<1>4. Beyond(w) \subseteq Nat \ {0} /\ Beyond(w) \subseteq products
  BY CatalogAssumption DEF Beyond, CTypeOK
<1>5. /\ IsFiniteSet(Beyond(w)) /\ IsFiniteSet(rows) /\ IsFiniteSet(items)
      /\ Cardinality(rows) = Cardinality(Beyond(w)) => rows = Beyond(w)
      /\ Cardinality(items) = Cardinality(rows) => items = rows
  <2>1. IsFiniteSet(Beyond(w))
    BY <1>4, FS_Subset
  <2>2. IsFiniteSet(rows) /\ (Cardinality(rows) = Cardinality(Beyond(w)) => rows = Beyond(w))
    BY <1>0, <1>1, <1>a, <2>1, FS_Subset
  <2>3. IsFiniteSet(items) /\ (Cardinality(items) = Cardinality(rows) => items = rows)
    BY <1>0, <1>1, <1>a, <2>2, FS_Subset
  <2> QED
    BY <2>1, <2>2, <2>3
<1>6. /\ Cardinality(Beyond(w)) \in Nat
      /\ Cardinality(rows) \in Nat
      /\ Cardinality(items) \in Nat
  BY <1>5, FS_CardinalityType
<1>7. Cardinality(items) <= limit[w]
  BY <1>0, <1>1, <1>a, <1>3, <1>6 DEF IsFirst
<1>10. Cardinality(items) <= MaxLimit
  BY <1>3, <1>6, <1>7, CatalogAssumption
<1>8. CASE next # 0
  <2>1. next \in items /\ \A s \in items : s <= next
    BY <1>0, <1>1, <1>a, <1>8
  <2>2. \A s \in Beyond(w) : s <= next => s \in items
    <3> SUFFICES ASSUME NEW s \in Beyond(w), s <= next, s \notin items
                 PROVE  FALSE
      OBVIOUS
    <3>1. s \in Nat /\ next \in Nat
      BY <1>0, <1>1, <1>a, <1>4, <2>1
    <3>2. CASE s \in rows
      BY <1>0, <1>1, <1>a, <2>1, <3>1, <3>2 DEF IsFirst
    <3>3. CASE s \notin rows
      BY <1>0, <1>1, <1>a, <2>1, <3>1, <3>3 DEF IsFirst
    <3> QED
      BY <3>2, <3>3
  <2> QED
    BY <1>a, <1>b, <1>8, <1>10, <2>1, <2>2
<1>9. CASE next = 0
  <2>1. 0 \notin items
    BY <1>0, <1>1, <1>a, <1>4
  <2>2. Cardinality(rows) <= limit[w] \/ items = {}
    BY <1>0, <1>1, <1>a, <1>3, <1>6, <1>9, <2>1
  <2>3. Cardinality(rows) <= limit[w]
    <3>1. ASSUME items = {} PROVE Cardinality(items) = 0
      BY <3>1, FS_EmptySet
    <3> QED
      BY <1>0, <1>1, <1>a, <1>3, <1>6, <2>2, <3>1 DEF IsFirst
  <2>4. items = Beyond(w)
    BY <1>0, <1>1, <1>a, <1>3, <1>5, <1>6, <2>3 DEF IsFirst
  <2> QED
    BY <1>a, <1>b, <1>9, <1>10, <2>4
<1> QED
  BY <1>8, <1>9

\* An empty shelf walked by nobody is in order.
LEMMA CInitInv == Init => CInv
<1> SUFFICES ASSUME Init PROVE CInv
  OBVIOUS
<1>1. CTypeOK
  <2>1. Seed \subseteq Skus /\ MaxLimit \in Nat /\ Cardinality({}) = 0
    BY CatalogAssumption, FS_EmptySet
  <2>2. page \in [Clients -> [items : SUBSET Skus, next : Skus \cup {0}]]
    BY DEF Init, NoPage
  <2>3. \A w \in Clients : Cardinality(page[w].items) <= MaxLimit
    <3>1. \A w \in Clients : page[w].items = {}
      BY DEF Init, NoPage
    <3>2. 0 <= MaxLimit
      BY <2>1
    <3> QED
      BY <2>1, <3>1, <3>2, Zenon
  <2> QED
    BY <2>1, <2>2, <2>3 DEF Init, CTypeOK
<1>2. IsFiniteSet(products)
  BY CatalogAssumption DEF Init
<1>3. NothingTwice /\ NothingMissed /\ CursorsSplitTheShelf
  BY CatalogAssumption DEF Init, NothingTwice, NothingMissed, CursorsSplitTheShelf
<1> QED
  BY <1>1, <1>2, <1>3 DEF CInv

\* A request, a refusal and a failure move no cursor.
LEMMA AskInv ==
    ASSUME CInv, NEW w \in Clients, (\E n \in Limits : Ask(w, n)) \/ Refuse(w) \/ Fail(w)
    PROVE  CInv'
<1> USE DEF CInv, Ask, Refuse, Fail
<1>1. CTypeOK'
  BY CatalogAssumption DEF CTypeOK, Ended
<1>2. \A v \in Clients : pc'[v] \in {"answered", "done"} => pc[v] = pc'[v]
  BY DEF CTypeOK
<1>3. NothingTwice'
  BY <1>2 DEF NothingTwice
<1>4. \A v \in Clients : there'[v] = there[v] \/ (there'[v] = products /\ cursor[v] = 0)
  BY DEF CTypeOK
<1>5. \A v \in Clients : pc'[v] \in {"answered", "done"} => there'[v] = there[v]
  BY DEF CTypeOK
<1>6. products \subseteq Nat \ {0}
  BY PositionsAreNumbers
<1>7. NothingMissed'
  <2> SUFFICES ASSUME NEW v \in Clients
               PROVE  /\ \A s \in there'[v] : s <= cursor[v] => s \in seen[v]
                      /\ pc'[v] = "done" => there'[v] \subseteq seen[v]
    BY DEF NothingMissed
  <2>1. \A s \in there'[v] : s <= cursor[v] => s \in seen[v]
    <3>1. CASE there'[v] = there[v]
      BY <3>1 DEF NothingMissed
    <3>2. CASE there'[v] = products /\ cursor[v] = 0
      <4>1. \A s \in products : ~(s <= 0)
        BY <1>6
      <4> QED
        BY <3>2, <4>1, Zenon
    <3>3. there'[v] = there[v] \/ (there'[v] = products /\ cursor[v] = 0)
      BY <1>4
    <3> QED
      BY <3>1, <3>2, <3>3
  <2>2. pc'[v] = "done" => there'[v] \subseteq seen[v]
    BY <1>2, <1>5 DEF NothingMissed
  <2> QED
    BY <2>1, <2>2
<1>8. \A v \in Clients : pc'[v] # "done" => pc[v] # "done"
  BY DEF CTypeOK
<1>9. CursorsSplitTheShelf'
  BY <1>2, <1>4, <1>5, <1>8 DEF CursorsSplitTheShelf
<1> QED
  BY <1>1, <1>3, <1>7, <1>9

\* The page served is a slice of the shelf that begins at the cursor.
LEMMA ServeInv ==
    ASSUME CInv, NEW w \in Clients, Serve(w)
    PROVE  CInv'
<1> DEFINE items == page'[w].items
           next == page'[w].next
<1> USE DEF CInv
<1>1. /\ page' = [page EXCEPT ![w] = [items |-> items, next |-> next]]
      /\ items \subseteq Beyond(w)
      /\ Cardinality(items) <= MaxLimit
      /\ next \in items \cup {0}
      /\ next # 0 => \A s \in items : s <= next
      /\ \A s \in Beyond(w) : next = 0 \/ s <= next => s \in items
  BY PageIsASlice
<1>2. /\ pc' = [pc EXCEPT ![w] = "answered"]
      /\ pc[w] = "asked"
      /\ UNCHANGED <<products, cursor, limit, seen, there>>
  BY DEF Serve
<1>3. Beyond(w) \subseteq Skus
  BY DEF Beyond, CTypeOK
<1>4. \A v \in Clients \ {w} : page'[v] = page[v] /\ pc'[v] = pc[v]
  BY <1>1, <1>2 DEF CTypeOK
<1> HIDE DEF items, next
<1>5. CTypeOK'
  <2>1. page'[w] = [items |-> items, next |-> next]
    BY <1>1 DEF CTypeOK
  <2>2. page' \in [Clients -> [items : SUBSET Skus, next : Skus \cup {0}]]
    BY <1>1, <1>3 DEF CTypeOK
  <2>3. \A v \in Clients : Cardinality(page'[v].items) <= MaxLimit
    BY <1>1, <1>4, <2>1 DEF CTypeOK
  <2> QED
    BY <1>2, <2>2, <2>3 DEF CTypeOK
<1>6. /\ pc'[w] = "answered" /\ page'[w].items = items /\ page'[w].next = next
  BY <1>1, <1>2 DEF CTypeOK
<1>7. \A s \in items, t \in seen[w] : t < s
  <2>1. \A t \in seen[w] : t <= cursor[w]
    BY <1>2 DEF CursorsSplitTheShelf
  <2>2. /\ cursor[w] \in Nat /\ seen[w] \subseteq Nat /\ items \subseteq Nat
    BY <1>1, <1>3, CatalogAssumption, PositionsAreNumbers
  <2>3. \A s \in items : s > cursor[w]
    BY <1>1 DEF Beyond
  <2> QED
    BY <2>1, <2>2, <2>3
<1>8. NothingTwice'
  BY <1>2, <1>4, <1>6, <1>7 DEF NothingTwice
<1>9. NothingMissed'
  BY <1>2, <1>4, <1>6 DEF NothingMissed
<1>10. \A s \in there[w] : s > cursor[w] => s \in Beyond(w)
  BY DEF CursorsSplitTheShelf, Beyond
<1>11. \A s \in items : s > cursor[w]
  BY <1>1 DEF Beyond
<1>12. CursorsSplitTheShelf'
  <2> SUFFICES ASSUME NEW v \in Clients
               PROVE  /\ there[v] \subseteq products
                      /\ pc'[v] # "done" => \A s \in seen[v] : s <= cursor[v]
                      /\ pc'[v] = "answered" =>
                          /\ page'[v].next \in page'[v].items \cup {0}
                          /\ \A s \in page'[v].items : s > cursor[v] /\
                                (page'[v].next # 0 => s <= page'[v].next)
                          /\ \A s \in there[v] :
                                s > cursor[v] /\ (page'[v].next = 0 \/ s <= page'[v].next)
                                  => s \in page'[v].items
    BY <1>2 DEF CursorsSplitTheShelf
  <2>1. CASE v = w
    BY <1>1, <1>2, <1>6, <1>10, <1>11, <2>1 DEF CursorsSplitTheShelf
  <2>2. CASE v # w
    BY <1>4, <2>2 DEF CursorsSplitTheShelf
  <2> QED
    BY <2>1, <2>2
<1> QED
  BY <1>2, <1>5, <1>8, <1>9, <1>12

\* What the client takes, it takes up to the next cursor.
LEMMA TakeInv ==
    ASSUME CInv, NEW w \in Clients, Take(w)
    PROVE  CInv'
<1> USE DEF CInv, Take
<1> DEFINE items == page[w].items
           next == page[w].next
<1>1. CTypeOK'
  BY DEF CTypeOK, Ended
<1>2. \A v \in Clients \ {w} :
        pc'[v] = pc[v] /\ seen'[v] = seen[v] /\ cursor'[v] = cursor[v]
  BY DEF CTypeOK
<1>3. /\ pc'[w] = IF next = 0 THEN "done" ELSE "idle"
      /\ seen'[w] = seen[w] \cup items
      /\ cursor'[w] = next
  BY DEF CTypeOK
<1>4. NothingTwice'
  BY <1>2, <1>3 DEF NothingTwice
<1>5. /\ next \in Nat /\ cursor[w] \in Nat /\ items \subseteq Nat \ {0}
      /\ seen[w] \subseteq Nat \ {0} /\ there[w] \subseteq Nat \ {0}
  BY PositionsAreNumbers
<1>6. /\ \A s \in items : s > cursor[w] /\ (next # 0 => s <= next)
      /\ \A s \in there[w] : s > cursor[w] /\ (next = 0 \/ s <= next) => s \in items
      /\ \A s \in seen[w] : s <= cursor[w]
      /\ there[w] \subseteq products
  BY DEF CursorsSplitTheShelf
<1>7. \A s \in there[w] : s <= cursor[w] => s \in seen[w]
  BY DEF NothingMissed
<1>8. NothingMissed'
  <2>1. \A s \in there[w] : next = 0 \/ s <= next => s \in seen'[w]
    BY <1>3, <1>5, <1>6, <1>7
  <2> QED
    BY <1>2, <1>3, <2>1 DEF NothingMissed
<1>9. CursorsSplitTheShelf'
  <2>1. next # 0 => \A s \in seen'[w] : s <= next
    <3> SUFFICES ASSUME next # 0, NEW s \in seen'[w], s \in seen[w] PROVE s <= next
      BY <1>3, <1>6
    <3>1. s <= cursor[w]
      BY <1>6
    <3>2. next \in items
      BY DEF CursorsSplitTheShelf
    <3> QED
      BY <1>5, <1>6, <3>1, <3>2
  <2> QED
    BY <1>2, <1>3, <1>6, <2>1 DEF CursorsSplitTheShelf
<1> QED
  BY <1>1, <1>4, <1>8, <1>9

\* Whatever is put on or taken off the shelf, the walks stay in order.
LEMMA InsertInv ==
    ASSUME CInv, NEW s \in Skus, Insert(s)
    PROVE  CInv'
<1> USE DEF CInv, Insert, wvars
<1>1. CTypeOK'
  BY DEF CTypeOK
<1>2. IsFiniteSet(products')
  BY FS_AddElement
<1>3. NothingTwice' /\ NothingMissed'
  BY DEF NothingTwice, NothingMissed
<1>4. CursorsSplitTheShelf'
  BY DEF CursorsSplitTheShelf
<1> QED
  BY <1>1, <1>2, <1>3, <1>4

\* A product that is taken off the shelf no longer counts as one to be seen.
LEMMA WithdrawInv ==
    ASSUME CInv, NEW s \in Skus, Withdraw(s)
    PROVE  CInv'
<1> USE DEF CInv, Withdraw
<1>1. CTypeOK'
  BY DEF CTypeOK
<1>2. IsFiniteSet(products')
  BY FS_RemoveElement
<1>3. \A w \in Clients : there'[w] = there[w] \ {s}
  OBVIOUS
<1>4. NothingTwice' /\ NothingMissed'
  BY <1>3 DEF NothingTwice, NothingMissed
<1>5. CursorsSplitTheShelf'
  BY <1>3 DEF CursorsSplitTheShelf
<1> QED
  BY <1>1, <1>2, <1>4, <1>5

\* Every step keeps CInv.
LEMMA CNextInv == CInv /\ [Next]_lvars => CInv'
<1> SUFFICES ASSUME CInv, [Next]_lvars PROVE CInv'
  OBVIOUS
<1>1. ASSUME NEW w \in Clients, Walk(w) \/ \E n \in Limits : Ask(w, n)
      PROVE  CInv'
  BY <1>1, AskInv, ServeInv, TakeInv DEF Walk
<1>2. ASSUME NEW s \in Skus, Insert(s) \/ Withdraw(s)
      PROVE  CInv'
  BY <1>2, InsertInv, WithdrawInv
<1>3. CASE UNCHANGED lvars
  BY <1>3 DEF lvars, CInv, CTypeOK, NothingTwice, NothingMissed, CursorsSplitTheShelf
<1> QED
  BY <1>1, <1>2, <1>3 DEF Next

-----------------------------------------------------------------------------
(***************************************************************************)
(* The theorems.                                                           *)
(***************************************************************************)

\* CInv holds in every reachable state.
THEOREM CInvariant == Spec => []CInv
BY CInitInv, CNextInv, PTL DEF Spec

\* Tables, requests and pages keep their types, and no page is longer than the
\* largest limit.
THEOREM CTypeCorrect == Spec => []CTypeOK
<1>1. CInv => CTypeOK
  BY DEF CInv
<1> QED
  BY <1>1, CInvariant, PTL

\* A walk sees no product twice and all of them in order, for any shelf, any
\* limits and any inserts and withdrawals on the way.
THEOREM WalksRepeatNothing == Spec => []NothingTwice
<1>1. CInv => NothingTwice
  BY DEF CInv
<1> QED
  BY <1>1, CInvariant, PTL

\* A walk misses no product that is on the shelf all along.
THEOREM WalksMissNothing == Spec => []NothingMissed
<1>1. CInv => NothingMissed
  BY DEF CInv
<1> QED
  BY <1>1, CInvariant, PTL

\* Every cursor is a position that splits the shelf into what was and what will
\* be sent.
THEOREM CursorsAreSound == Spec => []CursorsSplitTheShelf
<1>1. CInv => CursorsSplitTheShelf
  BY DEF CInv
<1> QED
  BY <1>1, CInvariant, PTL
=============================================================================
