------------------------------- MODULE Letter -------------------------------
(***************************************************************************)
(* What the send intents promise, with claims, retries and webhooks left   *)
(* out.  A letter is written once.  While it is open a copy of it may be   *)
(* mailed; then it is either filed as sent or stopped, and both are final. *)
(* A stopped letter may have been mailed before it was stopped, because an *)
(* attempt whose outcome is unknown leaves it open; a letter is never      *)
(* filed as sent unless a copy was mailed or, in test mode, captured.      *)
(*                                                                         *)
(* Source: src/src/lib/email/send-intents.ts and dispatchSend.             *)
(***************************************************************************)
EXTENDS Naturals

CONSTANT Intent

VARIABLES
  fate,     \* fate[i]: "none", "open", "sent" or "stopped"
  copies,   \* copies[i]: how many times the recipient got it
  captured  \* the letters the test mode recorded instead of mailing

vars == <<fate, copies, captured>>

Init ==
  /\ fate = [i \in Intent |-> "none"]
  /\ copies = [i \in Intent |-> 0]
  /\ captured = {}

Write(i) ==
  /\ fate[i] = "none"
  /\ fate' = [fate EXCEPT ![i] = "open"]
  /\ UNCHANGED <<copies, captured>>

Mail(i) ==
  /\ fate[i] = "open"
  /\ copies' = [copies EXCEPT ![i] = @ + 1]
  /\ UNCHANGED <<fate, captured>>

Capture(i) ==
  /\ fate[i] = "open"
  /\ captured' = captured \cup {i}
  /\ UNCHANGED <<fate, copies>>

File(i) ==
  /\ fate[i] = "open"
  /\ copies[i] > 0 \/ i \in captured
  /\ fate' = [fate EXCEPT ![i] = "sent"]
  /\ UNCHANGED <<copies, captured>>

\* A deletion stops all of a contact's open letters at once.
Stop(S) ==
  /\ \A i \in S : fate[i] = "open"
  /\ fate' = [i \in Intent |-> IF i \in S THEN "stopped" ELSE fate[i]]
  /\ UNCHANGED <<copies, captured>>

Next ==
  \/ \E i \in Intent : Write(i) \/ Mail(i) \/ Capture(i) \/ File(i)
  \/ \E S \in SUBSET Intent : Stop(S)

Spec == Init /\ [][Next]_vars
=============================================================================
