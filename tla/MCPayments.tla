----------------------------- MODULE MCPayments -----------------------------
(***************************************************************************)
(* Small instances of Payments for TLC.                                    *)
(***************************************************************************)
EXTENDS Payments, TLC

CONSTANTS c1, c2, c3, k1, k2

MCCalls   == {c1, c2, c3}
MCKeys    == {k1}
MCKeys2   == {k1, k2}
\* One amount the server refuses, one it approves, one it declines.
MCAmounts == {0, 3, 9}
\* One approved and one declined.
MCTwoAmounts == {3, 9}
MCLimit   == 5
\* The calls are interchangeable, and so are the keys.
MCSymmetry == Permutations(MCCalls) \cup Permutations(MCKeys2)
=============================================================================
