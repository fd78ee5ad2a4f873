-------------------------- MODULE OrdersMoneyProofs --------------------------
(***************************************************************************)
(* Theorems about the money in Orders, checked by TLAPS: what an order's   *)
(* total is, and whose amount the payment behind it is of.                 *)
(***************************************************************************)
EXTENDS OrdersProofs, FiniteSetTheorems, WellFoundedInduction

-----------------------------------------------------------------------------
(***************************************************************************)
(* Sums over lines.  Subtotals is a recursive function; that it satisfies  *)
(* its defining equation, and that two such functions agree, is shown from *)
(* the least argument for which it would not.                              *)
(***************************************************************************)

\* A set of naturals that is not empty has a least member: the interval from 0
\* to it is minimal among the intervals to the members.
LEMMA LeastNumber ==
    ASSUME NEW T, T \subseteq Nat, T # {}
    PROVE  \E m \in T : \A n \in T : m <= n
<1> DEFINE U == {0..n : n \in T}
           R == StrictSubsetOrdering(Nat)
<1>1. \A n \in Nat : 0..n \in SUBSET Nat /\ IsFiniteSet(0..n)
  BY FS_Interval
<1>2. U \subseteq FiniteSubsetsOf(Nat) /\ U # {}
  BY <1>1 DEF FiniteSubsetsOf
<1> HIDE DEF U
<1>3. PICK X \in U : \A Y \in U : <<Y, X>> \notin R
  BY <1>2, FS_StrictSubsetOrderingWellFounded, WFMin
<1>4. PICK m \in T : X = 0..m
  BY <1>3 DEF U
<1>5. ASSUME NEW n \in T, n < m PROVE FALSE
  <2>1. 0..n \in U
    BY DEF U
  <2>2. 0..n \subseteq 0..m /\ m \in 0..m /\ m \notin 0..n
    BY <1>5
  <2>3. <<0..n, 0..m>> \in R
    BY <1>1, <2>2 DEF StrictSubsetOrdering
  <2> QED
    BY <1>3, <1>4, <2>1, <2>3
<1> QED
  BY <1>5

\* The amounts on a list of lines are whole.
LEMMA LineTypes ==
    ASSUME NEW lines \in Seq(Line)
    PROVE  /\ Len(lines) \in Nat /\ DOMAIN lines = 1..Len(lines)
           /\ \A n \in 1..Len(lines) : lines[n].unit \in Int /\ lines[n].qty \in Int
<1>1. \A l \in Line : l.unit \in Int /\ l.qty \in Int
  BY DEF Line
<1>2. /\ Len(lines) \in Nat /\ DOMAIN lines = 1..Len(lines)
      /\ \A n \in 1..Len(lines) : lines[n] \in Line
  OBVIOUS
<1> QED
  BY <1>1, <1>2

\* f[n] is what the first n lines come to, up to the m-th.
AddsUp(f, lines, m) ==
    /\ f \in [0..m -> Int]
    /\ f[0] = 0
    /\ \A n \in 1..m : f[n] = f[n - 1] + lines[n].unit * lines[n].qty

\* There are subtotals up to any line: those up to the line before, and one more.
LEMMA SubtotalsExist ==
    ASSUME NEW lines \in Seq(Line)
    PROVE  \E f : AddsUp(f, lines, Len(lines))
<1> DEFINE T == {n \in 0..Len(lines) : ~ \E f : AddsUp(f, lines, n)}
<1>1. /\ Len(lines) \in Nat
      /\ \A n \in 1..Len(lines) : lines[n].unit \in Int /\ lines[n].qty \in Int
  BY LineTypes
<1>2. T \subseteq Nat
  BY <1>1
<1>3. ASSUME NEW n \in T, \A k \in T : n <= k PROVE FALSE
  <2>1. n # 0
    <3>1. AddsUp([x \in 0..0 |-> 0], lines, 0)
      BY DEF AddsUp
    <3> QED
      BY <1>3, <3>1
  <2>2. n - 1 \in 0..Len(lines) /\ n - 1 \notin T /\ n \in 1..Len(lines)
    BY <1>1, <1>3, <2>1
  <2>3. PICK f : AddsUp(f, lines, n - 1)
    BY <2>2
  <2> DEFINE g == [x \in 0..n |-> IF x = n THEN f[n - 1] + lines[n].unit * lines[n].qty
                                           ELSE f[x]]
  <2>4. f[n - 1] \in Int /\ lines[n].unit * lines[n].qty \in Int
    BY <1>1, <2>2, <2>3 DEF AddsUp
  <2>5. g \in [0..n -> Int] /\ g[0] = 0
    BY <1>1, <2>1, <2>2, <2>3, <2>4 DEF AddsUp
  <2>6. ASSUME NEW k \in 1..n PROVE g[k] = g[k - 1] + lines[k].unit * lines[k].qty
    BY <1>1, <2>2, <2>3, <2>4, <2>6 DEF AddsUp
  <2>7. AddsUp(g, lines, n)
    BY <2>5, <2>6 DEF AddsUp
  <2> HIDE DEF g
  <2> QED
    BY <1>3, <2>7
<1> HIDE DEF T
<1>4. T = {}
  BY <1>2, <1>3, LeastNumber
<1> QED
  BY <1>1, <1>4 DEF T

\* Subtotals of lists that begin alike are alike as far as they do.
LEMMA SubtotalsAgree ==
    ASSUME NEW f, NEW g, NEW l1, NEW l2, NEW m \in Nat,
           AddsUp(f, l1, m), AddsUp(g, l2, m), \A n \in 1..m : l1[n] = l2[n]
    PROVE  f[m] = g[m]
<1> DEFINE T == {n \in 0..m : f[n] # g[n]}
<1>1. T \subseteq Nat
  OBVIOUS
<1>2. ASSUME NEW n \in T, \A k \in T : n <= k PROVE FALSE
  <2>1. n # 0
    BY DEF AddsUp
  <2>2. n \in 1..m /\ n - 1 \in 0..m /\ n - 1 \notin T
    BY <1>2, <2>1
  <2>3. f[n - 1] = g[n - 1] /\ l1[n] = l2[n]
    BY <2>2
  <2> QED
    BY <2>2, <2>3 DEF AddsUp
<1> HIDE DEF T
<1>3. T = {}
  BY <1>1, <1>2, LeastNumber
<1> QED
  BY <1>3 DEF T

\* Subtotals are what the name says.
LEMMA SubtotalsAddUp ==
    ASSUME NEW lines \in Seq(Line)
    PROVE  AddsUp(Subtotals(lines), lines, Len(lines))
<1> DEFINE Next1(f) == [n \in 0..Len(lines) |->
                          IF n = 0 THEN 0 ELSE f[n - 1] + lines[n].unit * lines[n].qty]
<1>1. Subtotals(lines) = CHOOSE f : f = Next1(f)
  BY DEF Subtotals
<1>2. Len(lines) \in Nat
  BY LineTypes
<1>3. PICK f : AddsUp(f, lines, Len(lines))
  BY SubtotalsExist
<1>4. f = Next1(f)
  BY <1>2, <1>3 DEF AddsUp
<1>5. Subtotals(lines) = Next1(Subtotals(lines))
  BY <1>1, <1>4
<1> DEFINE g == Subtotals(lines)
<1>6. /\ g = [n \in 0..Len(lines) |-> g[n]] /\ g[0] = 0
      /\ \A n \in 1..Len(lines) : g[n] = g[n - 1] + lines[n].unit * lines[n].qty
  BY <1>2, <1>5
<1> DEFINE T == {n \in 0..Len(lines) : g[n] \notin Int}
<1> HIDE DEF g
<1>7. ASSUME NEW n \in T, \A k \in T : n <= k PROVE FALSE
  <2>1. n \in 1..Len(lines) /\ n - 1 \in 0..Len(lines) /\ n - 1 \notin T
    BY <1>2, <1>6, <1>7
  <2>2. g[n - 1] \in Int /\ lines[n].unit * lines[n].qty \in Int
    BY <2>1, LineTypes
  <2> QED
    BY <1>6, <2>1, <2>2
<1>8. T \subseteq Nat
  BY <1>2
<1> HIDE DEF T
<1>9. T = {}
  BY <1>7, <1>8, LeastNumber
<1>10. \A n \in 0..Len(lines) : g[n] \in Int
  BY <1>9 DEF T
<1>11. g \in [0..Len(lines) -> Int]
  BY <1>6, <1>10
<1> QED
  BY <1>6, <1>11 DEF AddsUp, g

\* No lines come to nothing, and a line more to its amount more.
LEMMA TotalOfNone == LinesTotal(<<>>) = 0
<1>1. ASSUME NEW lines \in Seq(Line), Len(lines) = 0 PROVE LinesTotal(lines) = 0
  <2>1. AddsUp(Subtotals(lines), lines, Len(lines))
    BY SubtotalsAddUp
  <2>2. Subtotals(lines)[0] = 0
    BY <2>1 DEF AddsUp
  <2> QED
    BY <1>1, <2>2 DEF LinesTotal
<1>2. PICK none : none = <<>>
  OBVIOUS
<1>3. none \in Seq(Line) /\ Len(none) = 0
  BY <1>2
<1>4. LinesTotal(none) = 0
  BY <1>1, <1>3
<1> QED
  BY <1>2, <1>4, Zenon

LEMMA TotalOfAppend ==
    ASSUME NEW lines \in Seq(Line), NEW l \in Line
    PROVE  LinesTotal(Append(lines, l)) = LinesTotal(lines) + l.unit * l.qty
<1> DEFINE more == Append(lines, l)
           n == Len(lines)
           f == Subtotals(lines)
           g == Subtotals(more)
<1>1. /\ more \in Seq(Line) /\ Len(more) = n + 1 /\ more[n + 1] = l
      /\ n \in Nat /\ n <= Len(lines)
      /\ \A i \in 1..n : lines[i] = more[i]
  OBVIOUS
<1> HIDE DEF more
<1>2. AddsUp(f, lines, n) /\ AddsUp(g, more, n + 1)
  BY <1>1, SubtotalsAddUp
<1>3. LinesTotal(lines) = f[n] /\ LinesTotal(more) = g[n + 1]
  BY <1>1 DEF LinesTotal
<1> HIDE DEF f, g, n
<1> DEFINE h == [i \in 0..n |-> g[i]]
<1>4. AddsUp(h, more, n)
  BY <1>1, <1>2 DEF AddsUp
<1> HIDE DEF h
<1>5. f[n] = h[n]
  BY <1>1, <1>2, <1>4, SubtotalsAgree
<1>6. h[n] = g[n]
  BY <1>1 DEF h
<1>7. g[n + 1] = g[n] + l.unit * l.qty
  BY <1>1, <1>2 DEF AddsUp
<1> QED
  BY <1>1, <1>3, <1>5, <1>6, <1>7 DEF more

-----------------------------------------------------------------------------
(***************************************************************************)
(* What becomes of a basket: the draft has its first items, the call is    *)
(* for the draft that has all of them, and the order is that draft.        *)
(***************************************************************************)
DraftsFollowBaskets ==
    \A q \in Requests :
        /\ pc[q] = "idle" => draft[q] = NoDraft
        /\ Len(draft[q].lines) <= Len(ask[q].basket)
        /\ \A i \in 1..Len(draft[q].lines) :
              /\ draft[q].lines[i].sku = ask[q].basket[i].sku
              /\ draft[q].lines[i].qty = ask[q].basket[i].qty
        /\ draft[q].total = LinesTotal(draft[q].lines)

CallsAreForDrafts ==
    \A q \in Requests : st[q] # "none" =>
        /\ Len(draft[q].lines) = Len(ask[q].basket)
        /\ call[q].amount = draft[q].total

OrdersAreDrafts ==
    \A o \in Placed :
        /\ st[o] # "none"
        /\ orders[o].total = draft[o].total
        /\ orders[o].lines = draft[o].lines

Carried == DraftsFollowBaskets /\ CallsAreForDrafts /\ OrdersAreDrafts

\* Nothing is carried at first.
LEMMA InitCarried == Init => Carried
<1> SUFFICES ASSUME Init PROVE Carried
  OBVIOUS
<1>1. \A q \in Requests : draft[q] = NoDraft /\ ask[q].basket = <<>> /\ st[q] = "none"
  BY DEF Init, P!PInit, NoAsk
<1>2. Placed = {}
  BY DEF Init, Placed, NoRow
<1>3. NoDraft.lines = <<>> /\ NoDraft.total = 0 /\ Len(<<>>) = 0 /\ 1..0 = {}
  BY DEF NoDraft
<1> QED
  BY <1>1, <1>2, <1>3, TotalOfNone
     DEF Carried, DraftsFollowBaskets, CallsAreForDrafts, OrdersAreDrafts

\* A step that leaves requests and drafts alone, makes no call and places no
\* order keeps what is carried.
LEMMA KeepCarried ==
    ASSUME Carried, UNCHANGED <<ask, draft>>,
           \A q \in Requests :
               /\ pc'[q] = "idle" => pc[q] = "idle"
               /\ st'[q] = "none" <=> st[q] = "none"
               /\ call'[q] = call[q],
           \A o \in Requests :
               /\ orders'[o].status # "none" => orders[o].status # "none"
               /\ orders'[o].total = orders[o].total
               /\ orders'[o].lines = orders[o].lines
    PROVE  Carried'
<1> USE DEF Carried
<1>1. DraftsFollowBaskets'
  BY DEF DraftsFollowBaskets
<1>2. CallsAreForDrafts'
  BY DEF CallsAreForDrafts
<1>3. OrdersAreDrafts'
  BY DEF OrdersAreDrafts, Placed
<1> QED
  BY <1>1, <1>2, <1>3

\* A request arrives with an empty draft.
LEMMA ArriveCarried ==
    ASSUME Inv, Inv', Carried, NEW q \in Requests, Arrive(q)
    PROVE  Carried'
<1> USE DEF Carried, dvars, pvars
<1>1. /\ pc[q] = "idle" /\ pc'[q] # "idle" /\ UNCHANGED <<draft, dvars, pvars>>
      /\ \A r \in Requests \ {q} : ask'[r] = ask[r] /\ pc'[r] = pc[r]
  BY DEF Arrive, Finish, Goto, Inv, TypeOK
<1>2. draft[q] = NoDraft /\ st[q] = "none" /\ q \notin Placed
  BY <1>1 DEF DraftsFollowBaskets, Inv, HandlersAreSound
<1>3. Len(ask'[q].basket) \in Nat
  <2>1. ask'[q].basket \in Baskets \cup {<<>>}
    BY DEF Inv, TypeOK, Ask
  <2>2. Baskets \subseteq Seq(Item) /\ <<>> \in Seq(Item)
    BY OrdersAssumption
  <2> QED
    BY <2>1, <2>2
<1>4. Len(NoDraft.lines) = 0 /\ 1..0 = {}
  BY DEF NoDraft
<1>5. DraftsFollowBaskets'
  <2>1. ASSUME NEW r \in Requests \ {q}
        PROVE  /\ pc'[r] = "idle" => draft'[r] = NoDraft
               /\ Len(draft'[r].lines) <= Len(ask'[r].basket)
               /\ \A i \in 1..Len(draft'[r].lines) :
                     /\ draft'[r].lines[i].sku = ask'[r].basket[i].sku
                     /\ draft'[r].lines[i].qty = ask'[r].basket[i].qty
               /\ draft'[r].total = LinesTotal(draft'[r].lines)
    BY <1>1 DEF DraftsFollowBaskets
  <2>2. /\ pc'[q] # "idle"
        /\ Len(draft'[q].lines) <= Len(ask'[q].basket)
        /\ \A i \in 1..Len(draft'[q].lines) : FALSE
        /\ draft'[q].total = LinesTotal(draft'[q].lines)
    BY <1>1, <1>2, <1>3, <1>4 DEF DraftsFollowBaskets
  <2> QED
    BY <2>1, <2>2 DEF DraftsFollowBaskets
<1>6. CallsAreForDrafts'
  BY <1>1, <1>2 DEF CallsAreForDrafts
<1>7. OrdersAreDrafts'
  BY <1>1 DEF OrdersAreDrafts, Placed
<1> QED
  BY <1>5, <1>6, <1>7

\* A line is priced: the draft has one more of the basket's items, and its
\* total what that item costs more.
LEMMA PriceCarried ==
    ASSUME Inv, Inv', Carried, NEW q \in Requests, PriceLine(q)
    PROVE  Carried'
<1> USE DEF Carried, cvars, dvars, pvars
<1> DEFINE n == Len(draft[q].lines)
           item == NextItem(q)
           line == [sku |-> item.sku, unit |-> price[item.sku], qty |-> item.qty]
<1>1. /\ pc[q] = "pricing" /\ n < Len(ask[q].basket)
      /\ draft' = [draft EXCEPT ![q] =
                      [lines |-> Append(draft[q].lines, line),
                       total |-> draft[q].total + price[item.sku] * item.qty]]
      /\ UNCHANGED <<pc, ask, orders, pvars>>
  BY DEF PriceLine, Unpriced
<1>2. /\ draft'[q].lines = Append(draft[q].lines, line)
      /\ draft'[q].total = draft[q].total + price[item.sku] * item.qty
      /\ \A r \in Requests \ {q} : draft'[r] = draft[r]
  BY <1>1 DEF Inv, TypeOK
<1>3. draft[q].lines \in Seq(Line) /\ draft'[q].lines \in Seq(Line)
  BY DEF Inv, TypeOK, Draft
<1>4. n \in Nat /\ Len(draft'[q].lines) = n + 1 /\ draft'[q].lines[n + 1] = line
      /\ \A i \in 1..n : draft'[q].lines[i] = draft[q].lines[i]
  BY <1>2, <1>3
<1>5. line \in Line
  <2>1. n + 1 \in 1..Len(draft'[q].lines)
    BY <1>4
  <2> HIDE DEF line
  <2> QED
    BY <1>3, <1>4, <2>1
<1>6. st[q] = "none" /\ q \notin Placed
  BY <1>1 DEF Inv, HandlersAreSound
<1>7. Len(ask[q].basket) \in Nat
  <2>1. ask[q].basket \in Baskets \cup {<<>>}
    BY DEF Inv, TypeOK, Ask
  <2>2. Baskets \subseteq Seq(Item) /\ <<>> \in Seq(Item)
    BY OrdersAssumption
  <2> QED
    BY <2>1, <2>2
<1>8. line.sku = ask[q].basket[n + 1].sku /\ line.qty = ask[q].basket[n + 1].qty
      /\ line.unit * line.qty = price[item.sku] * item.qty
  BY DEF NextItem
<1> HIDE DEF line, item
<1>9. draft'[q].total = LinesTotal(draft'[q].lines)
  <2>1. LinesTotal(draft'[q].lines) = LinesTotal(draft[q].lines) + line.unit * line.qty
    BY <1>2, <1>3, <1>5, TotalOfAppend
  <2> QED
    BY <1>2, <1>8, <2>1 DEF DraftsFollowBaskets
<1>10. DraftsFollowBaskets'
  <2>1. ASSUME NEW r \in Requests \ {q}
        PROVE  /\ pc'[r] = "idle" => draft'[r] = NoDraft
               /\ Len(draft'[r].lines) <= Len(ask'[r].basket)
               /\ \A i \in 1..Len(draft'[r].lines) :
                     /\ draft'[r].lines[i].sku = ask'[r].basket[i].sku
                     /\ draft'[r].lines[i].qty = ask'[r].basket[i].qty
               /\ draft'[r].total = LinesTotal(draft'[r].lines)
    BY <1>1, <1>2 DEF DraftsFollowBaskets
  <2>2. ASSUME NEW i \in 1..Len(draft'[q].lines)
        PROVE  /\ draft'[q].lines[i].sku = ask'[q].basket[i].sku
               /\ draft'[q].lines[i].qty = ask'[q].basket[i].qty
    <3>1. CASE i = n + 1
      BY <1>1, <1>4, <1>8, <3>1
    <3>2. CASE i # n + 1
      <4>1. i \in 1..n
        BY <1>4, <3>2
      <4> QED
        BY <1>1, <1>4, <4>1 DEF DraftsFollowBaskets
    <3> QED
      BY <3>1, <3>2
  <2>3. pc'[q] # "idle" /\ Len(draft'[q].lines) <= Len(ask'[q].basket)
    BY <1>1, <1>4, <1>7
  <2> QED
    BY <1>9, <2>1, <2>2, <2>3 DEF DraftsFollowBaskets
<1>11. CallsAreForDrafts'
  BY <1>1, <1>2, <1>6 DEF CallsAreForDrafts
<1>12. OrdersAreDrafts'
  BY <1>1, <1>2, <1>6 DEF OrdersAreDrafts, Placed
<1> QED
  BY <1>10, <1>11, <1>12

\* The charge is sent for the whole draft.
LEMMA StartChargeCarried ==
    ASSUME Inv, Inv', Carried, NEW q \in Requests, StartCharge(q)
    PROVE  Carried'
<1> USE DEF Carried, dvars
<1>1. /\ pc[q] = "pricing" /\ pc'[q] = "charging"
      /\ Len(draft[q].lines) = Len(ask[q].basket)
      /\ st[q] = "none" /\ call'[q].amount = draft[q].total
      /\ UNCHANGED <<ask, draft, orders>>
      /\ \A r \in Requests \ {q} :
            pc'[r] = pc[r] /\ st'[r] = st[r] /\ call'[r] = call[r]
  BY DEF StartCharge, Goto, P!Send, Inv, TypeOK, P!PTypeOK
<1>2. q \notin Placed
  BY <1>1 DEF Inv, HandlersAreSound
<1>3. DraftsFollowBaskets'
  BY <1>1 DEF DraftsFollowBaskets
<1>4. CallsAreForDrafts'
  BY <1>1 DEF CallsAreForDrafts
<1>5. OrdersAreDrafts'
  BY <1>1, <1>2 DEF OrdersAreDrafts, Placed
<1> QED
  BY <1>3, <1>4, <1>5

\* The order that is written is the draft its handler was charged for.
LEMMA WriteCarried ==
    ASSUME Inv, Carried, NEW q \in Requests, Persist(q) \/ CommitUnacknowledged(q)
    PROVE  Carried'
<1> USE DEF Carried, pvars
<1>1. /\ pc[q] = "persist" /\ pc'[q] = "done" /\ UNCHANGED <<ask, draft, pvars>>
      /\ orders'[q].total = draft[q].total /\ orders'[q].lines = draft[q].lines
      /\ \A r \in Requests \ {q} : pc'[r] = pc[r] /\ orders'[r] = orders[r]
  BY DEF Persist, CommitUnacknowledged, Finish, Write, Inv, TypeOK
<1>2. st[q] # "none"
  BY <1>1 DEF Inv, HandlersAreSound
<1>3. DraftsFollowBaskets' /\ CallsAreForDrafts'
  BY <1>1 DEF DraftsFollowBaskets, CallsAreForDrafts
<1>4. OrdersAreDrafts'
  BY <1>1, <1>2 DEF OrdersAreDrafts, Placed
<1> QED
  BY <1>3, <1>4

\* Every step carries on.
LEMMA NextCarried == Inv /\ Inv' /\ Carried /\ [Next]_vars => Carried'
<1> SUFFICES ASSUME Inv, Inv', Carried, [Next]_vars PROVE Carried'
  OBVIOUS
<1> USE DEF hvars, cvars, dvars, pvars
<1>1. ASSUME NEW q \in Requests, Arrive(q) PROVE Carried'
  BY <1>1, ArriveCarried
<1>2. ASSUME NEW q \in Requests, PriceLine(q) PROVE Carried'
  BY <1>2, PriceCarried
<1>3. ASSUME NEW q \in Requests, StartCharge(q) PROVE Carried'
  BY <1>3, StartChargeCarried
<1>4. ASSUME NEW q \in Requests, Persist(q) \/ CommitUnacknowledged(q) PROVE Carried'
  BY <1>4, WriteCarried
<1>5. ASSUME NEW q \in Requests,
             \/ Lookup(q) \/ LookupFails(q) \/ Replay(q) \/ ReplayFails(q)
             \/ ProductMissing(q)
             \/ CatalogFails(q) \/ PersistFails(q)
      PROVE  Carried'
  <2>1. UNCHANGED <<ask, draft, orders, st, call>>
        /\ \A r \in Requests : pc'[r] = "idle" => pc[r] = "idle"
    BY <1>5 DEF Lookup, LookupFails, Replay, ReplayFails, ProductMissing, CatalogFails,
       PersistFails, Finish, Goto, Inv, TypeOK
  <2> QED
    BY <2>1, KeepCarried
<1>6. ASSUME NEW q \in Requests, ChargeAnswered(q) \/ ChargeLost(q) PROVE Carried'
  <2>1. UNCHANGED <<ask, draft, orders, call>>
        /\ \A r \in Requests : pc'[r] = "idle" => pc[r] = "idle"
    BY <1>6 DEF ChargeAnswered, ChargeLost, Finish, Goto, P!Receive, P!HangUp,
       Inv, TypeOK
  <2>2. \A r \in Requests : st'[r] = "none" <=> st[r] = "none"
    BY <1>6 DEF ChargeAnswered, ChargeLost, P!Receive, P!HangUp, Inv, TypeOK,
       P!PTypeOK
  <2> QED
    BY <2>1, <2>2, KeepCarried
<1>7. ASSUME NEW q \in Requests, PaymentsStep(q) PROVE Carried'
  <2>1. UNCHANGED <<ask, draft, orders, pc>>
    BY <1>7 DEF PaymentsStep
  <2>2. call' = call /\ \A r \in Requests : st'[r] = "none" <=> st[r] = "none"
    BY <1>7, ServeEffect DEF PaymentsStep, Inv
  <2> QED
    BY <2>1, <2>2, KeepCarried
<1>8. CASE PaymentsRestart
  <2>1. UNCHANGED <<ask, draft, orders, pc, call>>
        /\ \A r \in Requests : st'[r] = "none" <=> st[r] = "none"
    BY <1>8 DEF PaymentsRestart, P!Restart, P!InFlight
  <2> QED
    BY <2>1, KeepCarried
<1>9. CASE Crash
  <2>1. UNCHANGED <<ask, draft, orders, st, call>>
        /\ \A r \in Requests : pc'[r] = "idle" => pc[r] = "idle"
    BY <1>9 DEF Crash
  <2> QED
    BY <2>1, KeepCarried
<1>10. ASSUME NEW x \in Cancels, Cancel(x)
       PROVE  Carried'
  <2>1. /\ UNCHANGED <<ask, draft, pc, st, call>>
        /\ \/ orders' = orders
           \/ target[x] \in Placed
              /\ orders' = [orders EXCEPT ![target[x]].status = "CANCELLED"]
    BY <1>10 DEF Cancel, CancelRead, CancelReadFails, CancelWrite, CancelFails, MarkCancelled, Inv,
       HandlersAreSound
  <2>2. \A o \in Requests :
            /\ orders'[o].status # "none" => orders[o].status # "none"
            /\ orders'[o].total = orders[o].total
            /\ orders'[o].lines = orders[o].lines
    <3>1. CASE orders' = orders
      BY <3>1
    <3>2. CASE orders' # orders
      <4> DEFINE new == [orders[target[x]] EXCEPT !.status = "CANCELLED"]
      <4>1. target[x] \in Placed /\ orders[target[x]] \in Row
            /\ orders' = [orders EXCEPT ![target[x]] = new]
        BY <2>1, <3>2 DEF Placed, Inv, TypeOK
      <4>2. new.total = orders[target[x]].total /\ new.lines = orders[target[x]].lines
        BY <4>1 DEF Row
      <4>3. \A o \in Requests : orders'[o] = IF o = target[x] THEN new ELSE orders[o]
        BY <4>1 DEF Inv, TypeOK
      <4> HIDE DEF new
      <4> QED
        BY <4>1, <4>2, <4>3 DEF Placed
    <3> QED
      BY <3>1, <3>2
  <2> QED
    BY <2>1, <2>2, KeepCarried
<1>11. ASSUME UNCHANGED <<ask, draft, orders, pc, st, call>> PROVE Carried'
  BY <1>11, KeepCarried
<1>12. ASSUME NEW s \in Skus, NEW p \in Prices \cup {-1}, Reprice(s, p)
       PROVE  Carried'
  BY <1>11, <1>12 DEF Reprice
<1>13. CASE Idle \/ UNCHANGED vars
  BY <1>11, <1>13 DEF Idle, vars
<1> QED
  BY <1>1, <1>2, <1>3, <1>4, <1>5, <1>6, <1>7, <1>8, <1>9, <1>10, <1>12, <1>13
     DEF Next, Checkout

\* In every state the drafts follow the baskets, the calls the drafts and the
\* orders the drafts.
LEMMA CarriedAlways == Spec => []Carried
<1>1. Inv /\ Carried /\ Inv' /\ [Next]_vars => Carried'
  BY NextCarried
<1> QED
  BY <1>1, InitCarried, Invariant, PTL DEF Spec

-----------------------------------------------------------------------------
(***************************************************************************)
(* Orders and their payments.                                              *)
(***************************************************************************)

\* An order has the basket's lines and their total; if it has no key, or if it
\* was its own call that took the money, that is the amount taken.
OrdersAddUp ==
    \A o \in Placed :
        /\ IsBasket(orders[o].lines, ask[o].basket)
        /\ orders[o].total = LinesTotal(orders[o].lines)
        /\ ask[o].key = NoKey \/ orders[o].auth = o =>
              call[orders[o].auth].amount = orders[o].total

\* What is carried says so.
LEMMA CarriedAddsUp == Inv /\ Carried => OrdersAddUp
<1> SUFFICES ASSUME Inv, Carried, NEW o \in Placed
             PROVE  /\ IsBasket(orders[o].lines, ask[o].basket)
                    /\ orders[o].total = LinesTotal(orders[o].lines)
                    /\ ask[o].key = NoKey \/ orders[o].auth = o =>
                          call[orders[o].auth].amount = orders[o].total
  BY DEF OrdersAddUp
<1> USE DEF Carried
<1>1. o \in Requests /\ st[o] # "none" /\ orders[o].total = draft[o].total
      /\ orders[o].lines = draft[o].lines
  BY DEF OrdersAreDrafts, Placed
<1>2. draft[o].lines \in Seq(Line)
  BY <1>1 DEF Inv, TypeOK, Draft
<1>3. IsBasket(draft[o].lines, ask[o].basket)
  <2>1. DOMAIN draft[o].lines = 1..Len(draft[o].lines)
    BY <1>2
  <2> QED
    BY <1>1, <2>1 DEF DraftsFollowBaskets, CallsAreForDrafts, IsBasket
<1>4. draft[o].total = LinesTotal(draft[o].lines) /\ call[o].amount = draft[o].total
  BY <1>1 DEF DraftsFollowBaskets, CallsAreForDrafts
<1>5. ASSUME ask[o].key = NoKey PROVE orders[o].auth = o
  <2>1. orders[o].auth \in ledger /\ call[orders[o].auth].key = o
    BY <1>5 DEF Inv, OrdersArePaid, DownstreamKey
  <2>2. orders[o].auth \in Requests /\ st[orders[o].auth] # "none"
    BY <2>1 DEF Inv, TypeOK, P!PTypeOK, P!PInv, P!StagesAreSound
  <2>3. DownstreamKey(orders[o].auth) = o
    BY <2>1, <2>2 DEF Inv, HandlersAreSound
  <2>4. ask[orders[o].auth].key \in Keys \cup {NoKey}
    BY <2>2 DEF Inv, TypeOK, Ask
  <2> QED
    BY <1>1, <2>2, <2>3, <2>4, OrdersAssumption DEF DownstreamKey
<1> QED
  BY <1>1, <1>3, <1>4, <1>5

\* An order is what its request asked for and costs what its lines come to,
\* whatever catalog, payments, other tries and crashes did meanwhile; the
\* money taken for it is that total unless another try of its key took it
\* (service.py:58-90).
THEOREM OrdersAreWhatWasAsked == Spec => []OrdersAddUp
BY CarriedAlways, Invariant, CarriedAddsUp, PTL

\* Tries of one key have one basket.
OneBasketPerKey ==
    \A q, r \in Requests :
        pc[q] # "idle" /\ pc[r] # "idle" /\ ask[q].key = ask[r].key
          /\ ask[q].key # NoKey
        => ask[q].basket = ask[r].basket

\* A line costs what catalog says.
LinesAtPrice ==
    \A q \in Requests : \A i \in 1..Len(draft[q].lines) :
        draft[q].lines[i].unit = price[draft[q].lines[i].sku]

\* Only an arrival changes a request, and only pricing a draft.
LEMMA AskSteps ==
    ASSUME Inv, [Next]_vars
    PROVE  \/ \E q \in Requests : Arrive(q) \/ PriceLine(q)
           \/ /\ UNCHANGED <<ask, draft>>
              /\ \A q \in Requests : pc'[q] # "idle" => pc[q] # "idle"
              /\ price' # price => \E s \in Skus, p \in Prices \cup {-1} : Reprice(s, p)
<1> USE DEF hvars, cvars, dvars, pvars
<1>1. ASSUME NEW q \in Requests, Checkout(q), ~PriceLine(q)
      PROVE  /\ UNCHANGED <<ask, draft, price>>
             /\ \A r \in Requests : pc'[r] # "idle" => pc[r] # "idle"
  BY <1>1 DEF Checkout, Lookup, LookupFails, Replay, ReplayFails, ProductMissing, CatalogFails,
     StartCharge, ChargeAnswered, ChargeLost, Persist, PersistFails,
     CommitUnacknowledged, Unpriced, Finish, Goto, Inv, TypeOK
<1>2. ASSUME NEW q \in Requests, PaymentsStep(q) PROVE UNCHANGED <<ask, draft, price, pc>>
  BY <1>2 DEF PaymentsStep
<1>3. ASSUME NEW x \in Cancels, Cancel(x)
      PROVE  UNCHANGED <<ask, draft, price, pc>>
  BY <1>3 DEF Cancel, CancelRead, CancelReadFails, CancelWrite, CancelFails
<1>4. CASE PaymentsRestart \/ Idle \/ UNCHANGED vars
  BY <1>4 DEF PaymentsRestart, Idle, vars
<1>5. CASE Crash
  BY <1>5 DEF Crash, Running
<1>6. ASSUME NEW s \in Skus, NEW p \in Prices \cup {-1}, Reprice(s, p)
      PROVE  UNCHANGED <<ask, draft, pc>>
  BY <1>6 DEF Reprice
<1> QED
  BY <1>1, <1>2, <1>3, <1>4, <1>5, <1>6 DEF Next, Checkout

\* Clients that send a key again with the basket it had keep it at that.
LEMMA OneBasketStep ==
    ASSUME SameBasket, Inv, OneBasketPerKey, [Next]_vars
    PROVE  OneBasketPerKey'
<1>1. ASSUME NEW q \in Requests, Arrive(q) PROVE OneBasketPerKey'
  <2>1. PICK k \in Keys \cup {NoKey}, b \in Baskets :
          /\ Allowed(q, k, b)
          /\ ask' = [ask EXCEPT ![q] =
                       [key |-> k, basket |-> b,
                        late |-> IF k = NoKey THEN FALSE ELSE idem[k] # None]]
    BY <1>1 DEF Arrive
  <2>2. ask'[q].key = k /\ ask'[q].basket = b
    BY <2>1 DEF Inv, TypeOK
  <2>3. \A r \in Requests \ {q} : ask'[r] = ask[r] /\ pc'[r] = pc[r]
    BY <1>1, <2>1 DEF Arrive, Finish, Goto, Inv, TypeOK
  <2>4. \A r \in Requests \ {q} :
            k # NoKey /\ pc[r] # "idle" /\ ask[r].key = k => ask[r].basket = b
    BY <2>1 DEF Allowed
  <2> QED
    BY <2>2, <2>3, <2>4 DEF OneBasketPerKey
<1>2. ASSUME NEW q \in Requests, PriceLine(q) PROVE OneBasketPerKey'
  BY <1>2 DEF PriceLine, OneBasketPerKey
<1>3. ASSUME UNCHANGED ask, \A q \in Requests : pc'[q] # "idle" => pc[q] # "idle"
      PROVE  OneBasketPerKey'
  BY <1>3 DEF OneBasketPerKey
<1> QED
  BY <1>1, <1>2, <1>3, AskSteps

\* While catalog does not re-price, a line stays at its price.
LEMMA LinesAtPriceStep ==
    ASSUME "reprice" \notin Faults, Inv, Inv', LinesAtPrice, [Next]_vars
    PROVE  LinesAtPrice'
<1>1. ASSUME NEW q \in Requests, Arrive(q) PROVE LinesAtPrice'
  BY <1>1 DEF Arrive, LinesAtPrice
<1>2. ASSUME NEW q \in Requests, PriceLine(q) PROVE LinesAtPrice'
  <2> DEFINE n == Len(draft[q].lines)
             item == NextItem(q)
             line == [sku |-> item.sku, unit |-> price[item.sku], qty |-> item.qty]
  <2>1. /\ draft' = [draft EXCEPT ![q] =
                       [lines |-> Append(draft[q].lines, line),
                        total |-> draft[q].total + price[item.sku] * item.qty]]
        /\ price' = price
    BY <1>2 DEF PriceLine
  <2>2. line.unit = price[line.sku]
    OBVIOUS
  <2> HIDE DEF line, item
  <2>3. draft'[q].lines = Append(draft[q].lines, line)
        /\ \A r \in Requests \ {q} : draft'[r] = draft[r]
    BY <2>1 DEF Inv, TypeOK
  <2>4. draft[q].lines \in Seq(Line) /\ draft'[q].lines \in Seq(Line)
    BY DEF Inv, TypeOK, Draft
  <2>5. n \in Nat /\ Len(draft'[q].lines) = n + 1 /\ draft'[q].lines[n + 1] = line
        /\ \A i \in 1..n : draft'[q].lines[i] = draft[q].lines[i]
    BY <2>3, <2>4
  <2>6. ASSUME NEW i \in 1..Len(draft'[q].lines)
        PROVE  draft'[q].lines[i].unit = price'[draft'[q].lines[i].sku]
    <3>1. CASE i = n + 1
      BY <2>1, <2>2, <2>5, <3>1
    <3>2. CASE i \in 1..n
      BY <2>1, <2>5, <3>2 DEF LinesAtPrice
    <3> QED
      BY <2>5, <3>1, <3>2
  <2> QED
    BY <2>1, <2>3, <2>6 DEF LinesAtPrice
<1>3. ASSUME UNCHANGED <<draft, price>> PROVE LinesAtPrice'
  BY <1>3 DEF LinesAtPrice
<1>4. ~ \E s \in Skus, p \in Prices \cup {-1} : Reprice(s, p)
  BY DEF Reprice
<1> QED
  BY <1>1, <1>2, <1>3, <1>4, AskSteps

\* Two whole drafts of one basket, at the same prices, come to the same.
LEMMA SameDrafts ==
    ASSUME Inv, Carried, LinesAtPrice, NEW q \in Requests, NEW r \in Requests,
           st[q] # "none", st[r] # "none", ask[q].basket = ask[r].basket
    PROVE  draft[q].total = draft[r].total
<1> USE DEF Carried
<1> DEFINE l1 == draft[q].lines  l2 == draft[r].lines
<1>1. l1 \in Seq(Line) /\ l2 \in Seq(Line)
  BY DEF Inv, TypeOK, Draft
<1>2. Len(l1) = Len(l2)
  BY DEF CallsAreForDrafts
<1>3. ASSUME NEW i \in 1..Len(l1) PROVE l1[i] = l2[i]
  <2>1. l1[i] \in Line /\ l2[i] \in Line
    BY <1>1, <1>2
  <2>2. l1[i].sku = l2[i].sku /\ l1[i].qty = l2[i].qty
    BY <1>2 DEF DraftsFollowBaskets
  <2>3. l1[i].unit = price[l1[i].sku] /\ l2[i].unit = price[l2[i].sku]
    BY <1>2 DEF LinesAtPrice
  <2> HIDE DEF l1, l2
  <2> QED
    BY <2>1, <2>2, <2>3 DEF Line
<1>4. l1 = l2
  <2> HIDE DEF l1, l2
  <2> QED
    BY <1>1, <1>2, <1>3
<1> QED
  BY <1>4 DEF DraftsFollowBaskets

\* Every payment behind an order is of that order's total, though it may be
\* another try of the key that took it: of clients that retry a key with its
\* basket and a catalog that does not re-price meanwhile (service.py:58-90,
\* contracts/orders.v1.yaml:81-82).
THEOREM PaymentsOfTotals ==
    ASSUME SameBasket, "reprice" \notin Faults
    PROVE  Spec => []PaymentsMatchTotals
<1>1. Init => OneBasketPerKey /\ LinesAtPrice
  <2> SUFFICES ASSUME Init PROVE OneBasketPerKey /\ LinesAtPrice
    OBVIOUS
  <2>1. Len(NoDraft.lines) = 0 /\ 1..0 = {}
    BY DEF NoDraft
  <2> QED
    BY <2>1 DEF Init, OneBasketPerKey, LinesAtPrice
<1>2. Inv /\ Inv' /\ OneBasketPerKey /\ LinesAtPrice /\ [Next]_vars
        => OneBasketPerKey' /\ LinesAtPrice'
  BY OneBasketStep, LinesAtPriceStep
<1>3. Inv /\ Carried /\ OneBasketPerKey /\ LinesAtPrice => PaymentsMatchTotals
  <2> SUFFICES ASSUME Inv, Carried, OneBasketPerKey, LinesAtPrice, NEW o \in Placed
               PROVE  call[orders[o].auth].amount = orders[o].total
    BY CarriedAddsUp DEF OrdersAddUp, PaymentsMatchTotals
  <2> DEFINE a == orders[o].auth
  <2>1. o \in Requests /\ st[o] # "none" /\ orders[o].total = draft[o].total
    BY DEF Carried, OrdersAreDrafts, Placed
  <2>2. a \in ledger /\ call[a].key = DownstreamKey(o)
    BY DEF Inv, OrdersArePaid
  <2>3. a \in Requests /\ st[a] # "none"
    BY <2>2 DEF Inv, TypeOK, P!PTypeOK, P!PInv, P!StagesAreSound
  <2>4. call[a].amount = draft[a].total
    BY <2>3 DEF Carried, CallsAreForDrafts
  <2>5. CASE a = o
    BY <2>1, <2>4, <2>5
  <2>6. CASE a # o
    <3>1. DownstreamKey(a) = DownstreamKey(o)
      BY <2>2, <2>3 DEF Inv, HandlersAreSound
    <3>2. ask[a].key \in Keys \cup {NoKey} /\ ask[o].key \in Keys \cup {NoKey}
      BY <2>1, <2>3 DEF Inv, TypeOK, Ask
    <3>3. ask[a].key = ask[o].key /\ ask[o].key # NoKey
      BY <2>1, <2>3, <2>6, <3>1, <3>2, OrdersAssumption DEF DownstreamKey
    <3>4. pc[a] # "idle" /\ pc[o] # "idle"
      BY <2>1, <2>3 DEF Inv, HandlersAreSound
    <3>5. ask[a].basket = ask[o].basket
      BY <2>1, <2>3, <3>3, <3>4 DEF OneBasketPerKey
    <3> QED
      BY <2>1, <2>3, <2>4, <3>5, SameDrafts
  <2> QED
    BY <2>5, <2>6
<1> QED
  BY <1>1, <1>2, <1>3, Invariant, CarriedAlways, PTL DEF Spec
=============================================================================
