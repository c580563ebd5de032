------------------------------ MODULE MCBudget ------------------------------
(* Small instances of Budget for TLC. *)
EXTENDS Budget

CONSTANTS w1, w2, r1, r2
=============================================================================
