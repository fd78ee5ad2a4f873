------------------------------ MODULE Catalog -------------------------------
(***************************************************************************)
(* GET /v1/products of the catalog service and of the monolith: a client   *)
(* walks the listing page by page with a cursor while products are put on  *)
(* and taken off the shelf behind the service's back.  The service keeps   *)
(* nothing between two pages: "a cursor is a position in the data, not a   *)
(* count of rows someone else can change" (monolith/python/app/catalog.py).*)
(*                                                                         *)
(* Skus are compared, never read, so a sku is its position in the order of *)
(* all skus; the empty cursor, which sorts below every sku, is 0.          *)
(***************************************************************************)
EXTENDS Integers, FiniteSets

CONSTANTS
    Clients,   \* clients, each of which walks the listing once
    Skus,      \* the skus products may have
    Seed,      \* the products on the shelf at first
    Limits,    \* the values of ?limit= that clients use
    MaxLimit,  \* the largest limit served, 100
    MayFail    \* the database may fail

ASSUME CatalogAssumption ==
    /\ Skus \subseteq Nat \ {0}
    /\ Seed \subseteq Skus /\ IsFiniteSet(Seed)
    /\ Limits \subseteq Int
    /\ MaxLimit \in Nat
    /\ MayFail \in BOOLEAN

VARIABLES
    products,  \* the skus in the products table
    pc,        \* pc[w]: where client w stands
    cursor,    \* cursor[w]: the cursor of its next request, 0 for none
    limit,     \* limit[w]: the limit of its request
    page,      \* page[w]: the last ProductPage it was sent
    seen,      \* seen[w]: the skus of all pages it has taken
    there      \* there[w]: what has been on the shelf since its walk began

wvars == <<pc, cursor, limit, page, seen, there>>
lvars == <<products, pc, cursor, limit, page, seen, there>>

NoPage == [items |-> {}, next |-> 0]
Ended  == {"done", "refused", "failed"}

Init ==
    /\ products = Seed
    /\ pc = [w \in Clients |-> "idle"]
    /\ cursor = [w \in Clients |-> 0]
    /\ limit = [w \in Clients |-> 0]
    /\ page = [w \in Clients |-> NoPage]
    /\ seen = [w \in Clients |-> {}]
    /\ there = [w \in Clients |-> {}]

\* The client asks for its first page, or goes on from the cursor it was given.
Ask(w, n) ==
    /\ pc[w] = "idle"
    /\ limit' = [limit EXCEPT ![w] = n]
    /\ pc' = [pc EXCEPT ![w] = "asked"]
    /\ there' = [there EXCEPT ![w] = IF cursor[w] = 0 THEN products ELSE @]
    /\ UNCHANGED <<products, cursor, page, seen>>

\* Mutant: any limit will do.
AnyLimit(w) == TRUE
LimitIsValid(w) == limit[w] \in 1..MaxLimit

\* "validation-failed": limit outside 1..100, or not a number at all.
Refuse(w) ==
    /\ pc[w] = "asked"
    /\ ~LimitIsValid(w)
    /\ pc' = [pc EXCEPT ![w] = "refused"]
    /\ UNCHANGED <<products, cursor, limit, page, seen, there>>

\* R holds the n smallest of S, or all of S if there are fewer: what
\* ORDER BY sku LIMIT n and the slice [:n] return.
IsFirst(R, S, n) ==
    /\ R \subseteq S
    /\ Cardinality(R) = IF Cardinality(S) < n THEN Cardinality(S) ELSE n
    /\ \A r \in R, s \in S \ R : r < s

\* Mutants: an OFFSET of the rows already seen; the cursor's own row again.
BeyondOffset(w) ==
    {s \in products : Cardinality({t \in products : t < s}) >= Cardinality(seen[w])}
BeyondOrAt(w) == {s \in products : s >= cursor[w]}

\* WHERE sku > cursor
Beyond(w) == {s \in products : s > cursor[w]}

\* Mutant: the row that tells of another page is not asked for.
NoPeek(w) == limit[w]

\* LIMIT: one row more than the page holds.
Peek(w) == limit[w] + 1

\* One SELECT, and the page and cursor made of its rows.
Serve(w) ==
    /\ pc[w] = "asked"
    /\ LimitIsValid(w)
    /\ \E rows \in SUBSET Beyond(w) :
        /\ IsFirst(rows, Beyond(w), Peek(w))
        /\ \E items \in SUBSET rows : \E next \in items \cup {0} :
            /\ IsFirst(items, rows, limit[w])
            /\ IF Cardinality(rows) > limit[w] /\ items # {}
               THEN next \in items /\ \A s \in items : s <= next
               ELSE next = 0
            /\ page' = [page EXCEPT ![w] = [items |-> items, next |-> next]]
    /\ pc' = [pc EXCEPT ![w] = "answered"]
    /\ UNCHANGED <<products, cursor, limit, seen, there>>

\* Anything unnamed is a 500, and the client gives up.
Fail(w) ==
    /\ MayFail
    /\ pc[w] = "asked"
    /\ pc' = [pc EXCEPT ![w] = "failed"]
    /\ UNCHANGED <<products, cursor, limit, page, seen, there>>

\* The client adds the page to what it has and follows next_cursor.
Take(w) ==
    /\ pc[w] = "answered"
    /\ seen' = [seen EXCEPT ![w] = @ \cup page[w].items]
    /\ cursor' = [cursor EXCEPT ![w] = page[w].next]
    /\ pc' = [pc EXCEPT ![w] = IF page[w].next = 0 THEN "done" ELSE "idle"]
    /\ UNCHANGED <<products, limit, page, there>>

\* Somebody with access to the table puts a product on the shelf or takes one off.
Insert(s) ==
    /\ s \notin products
    /\ products' = products \cup {s}
    /\ UNCHANGED wvars

Withdraw(s) ==
    /\ s \in products
    /\ products' = products \ {s}
    /\ there' = [w \in Clients |-> there[w] \ {s}]
    /\ UNCHANGED <<pc, cursor, limit, page, seen>>

Walk(w) == \/ cursor[w] # 0 /\ \E n \in Limits : Ask(w, n)
           \/ Refuse(w) \/ Serve(w) \/ Fail(w) \/ Take(w)

Next ==
    \/ \E w \in Clients : Walk(w) \/ \E n \in Limits : Ask(w, n)
    \/ \E s \in Skus : Insert(s) \/ Withdraw(s)

Spec == Init /\ [][Next]_lvars

\* The service answers, and a client that began to walk goes on.
Fairness == \A w \in Clients : WF_lvars(Walk(w))
FairSpec == Spec /\ Fairness

-----------------------------------------------------------------------------
(***************************************************************************)
(* Properties.                                                             *)
(***************************************************************************)

\* The types of the table, the requests and the pages: a page holds no more
\* products than the contract allows (main.py:83, 104-106).
CTypeOK ==
    /\ products \subseteq Skus
    /\ pc \in [Clients -> {"idle", "asked", "answered"} \cup Ended]
    /\ cursor \in [Clients -> Skus \cup {0}]
    /\ limit \in [Clients -> Int]
    /\ page \in [Clients -> [items : SUBSET Skus, next : Skus \cup {0}]]
    /\ \A w \in Clients : Cardinality(page[w].items) <= MaxLimit
    /\ seen \in [Clients -> SUBSET Skus]
    /\ there \in [Clients -> SUBSET Skus]

\* No product twice, and all in order: whatever is put on or taken off the
\* shelf during the walk, and whatever limits it mixes, every product of a
\* page comes after every product of the pages before it (main.py:86-87,
\* smoke.py:124-125).
NothingTwice ==
    \A w \in Clients : pc[w] = "answered" =>
        \A s \in page[w].items, t \in seen[w] : t < s

\* No product missed: one that has been on the shelf since the walk began is
\* among what the client has seen once the cursor is past it, and a walk that
\* has come to its end has seen all of them (main.py:89-106).
NothingMissed ==
    \A w \in Clients :
        /\ \A s \in there[w] : s <= cursor[w] => s \in seen[w]
        /\ pc[w] = "done" => there[w] \subseteq seen[w]

\* A cursor splits the shelf: what the client has taken is at or before it,
\* what it is being sent is beyond it and leaves nothing out up to the next
\* cursor, or up to the end if there is none (main.py:91-106).  With the
\* properties above it is inductive; CatalogProofs proves it.
CursorsSplitTheShelf ==
    \A w \in Clients :
        /\ there[w] \subseteq products
        /\ pc[w] # "done" => \A s \in seen[w] : s <= cursor[w]
        /\ pc[w] = "answered" =>
            LET items == page[w].items  next == page[w].next IN
            /\ next \in items \cup {0}
            /\ \A s \in items : s > cursor[w] /\ (next # 0 => s <= next)
            /\ \A s \in there[w] :
                s > cursor[w] /\ (next = 0 \/ s <= next) => s \in items

\* Every walk ends: each cursor is beyond the one before, so a shelf of
\* finitely many skus is left behind, whatever is inserted and withdrawn
\* (main.py:104-106, smoke.py:120-123).
WalksEnd == \A w \in Clients : pc[w] = "asked" ~> pc[w] \in Ended
=============================================================================
