----------------------------- MODULE MCCatalog ------------------------------
(***************************************************************************)
(* A small instance of Catalog for TLC: five skus, of which three are on   *)
(* the shelf at first, and limits from below the smallest one served to    *)
(* above the largest.                                                      *)
(***************************************************************************)
EXTENDS Catalog

CONSTANT w1

MCClients  == {w1}
MCSkus     == 1..5
MCSeed     == {1, 3, 4}
MCMaxLimit == 2
MCLimits   == 0..3
=============================================================================
