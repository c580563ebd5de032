---------------------------- MODULE MCConversation ----------------------------
(* Small instances of Conversation for TLC. *)
EXTENDS Conversation, TLC

CONSTANTS m1, m2

\* Messages are interchangeable.
Either2 == Permutations(Message)
=============================================================================
