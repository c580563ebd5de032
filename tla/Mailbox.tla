------------------------------- MODULE Mailbox -------------------------------
(***************************************************************************)
(* What the intake promises of the mail the provider received: an email is *)
(* filed at most once, into a conversation of its own sender, and a        *)
(* person's email to the service is read (interpreted) exactly when it is  *)
(* filed.  Filed mail is never moved or forgotten.                         *)
(***************************************************************************)
CONSTANTS
  Email, NoEmail, Sender,
  Readable,   \* emails a person wrote to the service
  Filed       \* emails filed before, none of them readable

VARIABLES
  conv,       \* conv[e]: the conversation of e, named by the email that began it
  interpret   \* emails whose reading has been ordered

vars == <<conv, interpret>>

Init ==
  /\ conv = [e \in Email |-> IF e \in Filed THEN e ELSE NoEmail]
  /\ interpret = {}

\* An email begins a conversation or joins one of its sender's.
File(e) ==
  /\ conv[e] = NoEmail
  /\ \E c \in {e} \cup {d \in Email : conv[d] = d /\ Sender[d] = Sender[e]} :
       conv' = [conv EXCEPT ![e] = c]
  /\ interpret' = interpret \cup ({e} \cap Readable)

Next == \E e \in Email : File(e)
Spec == Init /\ [][Next]_vars
=============================================================================
