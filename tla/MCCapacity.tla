----------------------------- MODULE MCCapacity -----------------------------
(***************************************************************************)
(* A small instance of Capacity for TLC: as many checkouts as threads, so  *)
(* that they can all hang, and fewer connections than threads.             *)
(***************************************************************************)
EXTENDS Capacity

CONSTANTS o1, o2, x1, h1

MCCheckouts == {o1, o2}
MCLocals    == {x1}
MCProbes    == {h1}
=============================================================================
