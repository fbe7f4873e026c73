----------------------------- MODULE MCMandate -----------------------------
(***************************************************************************)
(* A small instance of Mandate: two validators that are trusted and one    *)
(* that is not, a day of six units and clocks that may be one unit off.    *)
(***************************************************************************)
EXTENDS Mandate

CONSTANTS v1, v2, v3, k1, k2
=============================================================================
