------------------------------ MODULE MCWatches ------------------------------
(* Small instances of Watches for TLC. *)
EXTENDS Watches, TLC

CONSTANTS a, b, p1, p2

\* Processes are interchangeable.
Either == Permutations(Process)
=============================================================================
