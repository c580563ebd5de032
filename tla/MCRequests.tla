----------------------------- MODULE MCRequests -----------------------------
(* Small instances of Requests for TLC. *)
EXTENDS Requests, TLC

CONSTANTS m1, m2, m3, d1, d2, d3, w1, w2

\* Which run does what makes no difference.
Workers == Permutations(Worker)
=============================================================================
