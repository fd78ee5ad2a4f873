----------------------------- MODULE MCMonolith -----------------------------
(***************************************************************************)
(* Small instances of Monolith for TLC: a shelf that two checkouts can     *)
(* empty, and a basket that the card does not cover.                       *)
(***************************************************************************)
EXTENDS Monolith, TLC

CONSTANTS q1, q2, q3, x1, x2, a, b, z

MCCheckouts  == {q1, q2}
MCCheckouts3 == {q1, q2, q3}
MCCancels    == {x1, x2}
MCProducts   == {a, b}
MCPrice      == (a :> 2) @@ (b :> 3)
MCSeed       == (a :> 3) @@ (b :> 1)
MCLimit      == 6

One(s, n)    == <<[sku |-> s, qty |-> n]>>
Two(s, n, t) == <<[sku |-> s, qty |-> n], [sku |-> t, qty |-> 1]>>

\* Two of a; both products; both, for more than the card has; a sku twice; a
\* product that does not exist; nothing; a quantity of nothing.
MCBaskets    == {One(a, 2), Two(a, 1, b), Two(a, 2, b), Two(a, 1, a),
                 Two(b, 1, z), <<>>, One(a, 0)}
MCTwoBaskets == {One(a, 2), Two(a, 1, b)}

MCSymmetry == Permutations(MCCheckouts3) \cup Permutations(MCCancels)
=============================================================================
