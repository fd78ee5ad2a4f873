-------------------------------- MODULE Shop --------------------------------
(***************************************************************************)
(* What the monolith promises, with no handlers and no transactions in it: *)
(* a shop whose shelf and order book change together, one whole sale or    *)
(* one whole return at a time.                                             *)
(***************************************************************************)
EXTENDS Integers, Sequences

CONSTANTS OrderIds, Products, Seed, Baskets

VARIABLES
    stock,   \* stock[s]: units of s on the shelf
    status,  \* status[o]: "none", "CONFIRMED" or "CANCELLED"
    lines    \* lines[o]: what was sold

svars == <<stock, status, lines>>

Init ==
    /\ stock = Seed
    /\ status = [o \in OrderIds |-> "none"]
    /\ lines = [o \in OrderIds |-> <<>>]

\* A basket names each product once.
Names(b, s) == \E i \in DOMAIN b : b[i].sku = s
Qty(b, s) == IF Names(b, s) THEN b[CHOOSE i \in DOMAIN b : b[i].sku = s].qty ELSE 0

Sell(o, b) ==
    /\ status[o] = "none"
    /\ \A i, j \in DOMAIN b : b[i].sku = b[j].sku => i = j
    /\ \A i \in DOMAIN b :
        b[i].sku \in Products /\ b[i].qty \in 1..stock[b[i].sku]
    /\ stock' = [s \in Products |-> stock[s] - Qty(b, s)]
    /\ status' = [status EXCEPT ![o] = "CONFIRMED"]
    /\ lines' = [lines EXCEPT ![o] = b]

Return(o) ==
    /\ status[o] = "CONFIRMED"
    /\ stock' = [s \in Products |-> stock[s] + Qty(lines[o], s)]
    /\ status' = [status EXCEPT ![o] = "CANCELLED"]
    /\ UNCHANGED lines

Next == \E o \in OrderIds : Return(o) \/ \E b \in Baskets : Sell(o, b)

Spec == Init /\ [][Next]_svars
=============================================================================
