------------------------------ MODULE MCOrders ------------------------------
(***************************************************************************)
(* Small instances of Orders for TLC.                                      *)
(***************************************************************************)
EXTENDS Orders, TLC

CONSTANTS q1, q2, q3, x1, x2, k1, a, b

MCRequests2 == {q1, q2}
MCRequests3 == {q1, q2, q3}
MCCancels   == {x1, x2}
MCKeys      == {k1}
MCSkus      == {a}
MCSkus2     == {a, b}
MCNone      == {}

One(s, n)  == <<[sku |-> s, qty |-> n]>>
Two(s, t)  == <<[sku |-> s, qty |-> 1], [sku |-> t, qty |-> 1]>>

MCOneBasket  == {One(a, 1)}
\* Two baskets of different amounts.
MCTwoBaskets == {One(a, 1), One(a, 2)}
\* Two lines that the card covers, and one that it does not.
MCOneOrTwo   == {Two(a, b), One(a, 3)}
\* Two lines, the same sku twice, no item, and a quantity of nothing.
MCOddBaskets == {Two(a, b), Two(a, a), <<>>, One(a, 0)}
MCFreePrices == {0, 3}
MCPrices     == {3}
\* Two units at 3 are above the first limit, three above the second.
MCLimit      == 5
MCTwoLimit   == 6

MCSymmetry == Permutations(MCRequests3) \cup Permutations(MCCancels)
=============================================================================
