---------------------------- MODULE MCSendIntents ----------------------------
(* Small instances of SendIntents for TLC. *)
EXTENDS SendIntents, TLC

CONSTANTS i1, i2, w1, w2, h1, h2

\* Workers and webhook requests are interchangeable.
Alike == Permutations({w1, w2}) \cup Permutations({h1, h2})
=============================================================================
