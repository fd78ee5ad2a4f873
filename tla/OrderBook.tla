----------------------------- MODULE OrderBook ------------------------------
(***************************************************************************)
(* What the orders service promises, with no handlers, RPCs or failures in *)
(* it: a book of orders.  A payment is taken under a key; an order is      *)
(* placed, in one step together with the client's key, and only for a      *)
(* payment taken under that key (or, without a key, under the order's own  *)
(* id); a placed order is cancelled at most once and otherwise stays.      *)
(***************************************************************************)
CONSTANTS OrderIds, Keys, None

VARIABLES
    status,  \* status[o]: "none", "CONFIRMED" or "CANCELLED"
    named,   \* named[k]: the order the client's key k stands for, or None
    paid     \* the keys under which a payment was taken

bvars == <<status, named, paid>>

Init ==
    /\ status = [o \in OrderIds |-> "none"]
    /\ named = [k \in Keys |-> None]
    /\ paid = {}

TakePayment(d) ==
    /\ paid' = paid \cup {d}
    /\ UNCHANGED <<status, named>>

PlaceUnnamed(o) ==
    /\ status[o] = "none" /\ o \in paid
    /\ status' = [status EXCEPT ![o] = "CONFIRMED"]
    /\ UNCHANGED <<named, paid>>

PlaceNamed(o, k) ==
    /\ status[o] = "none" /\ named[k] = None /\ k \in paid
    /\ status' = [status EXCEPT ![o] = "CONFIRMED"]
    /\ named' = [named EXCEPT ![k] = o]
    /\ UNCHANGED paid

Cancel(o) ==
    /\ status[o] = "CONFIRMED"
    /\ status' = [status EXCEPT ![o] = "CANCELLED"]
    /\ UNCHANGED <<named, paid>>

Next ==
    \/ \E d \in Keys \cup OrderIds : TakePayment(d)
    \/ \E o \in OrderIds : \/ PlaceUnnamed(o)
                           \/ \E k \in Keys : PlaceNamed(o, k)
                           \/ Cancel(o)

Spec == Init /\ [][Next]_bvars
=============================================================================
