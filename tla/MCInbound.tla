------------------------------ MODULE MCInbound ------------------------------
(* Small instances of Inbound for TLC. *)
EXTENDS Inbound, TLC

CONSTANTS e1, e2, e3, e4, w1, w2

\* e2 and e3 name e1, of the same sender, and e4, of another.
MCSender == [e \in Email |-> IF e = e4 THEN "other" ELSE "one"]
MCReferences == [e \in Email |-> IF e \in {e1, e4} THEN {} ELSE {e1, e4} \cap Email]
=============================================================================
