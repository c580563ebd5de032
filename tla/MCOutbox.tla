------------------------------ MODULE MCOutbox ------------------------------
(* Small instances of Outbox for TLC. *)
EXTENDS Outbox, TLC

CONSTANTS k1, k2, w1, w2

MCBudget == k1 :> 2 @@ k2 :> 1
MCBudget1 == k1 :> 2
=============================================================================
