-------------------------- MODULE MCConversations --------------------------
(* Instances of Conversations for TLC: two servers, one with two workers.  *)
EXTENDS ConversationsInv, TLC

CONSTANTS sA, sB, a1, a2, b1

ByLetter == [w \in Worker |-> IF w = b1 THEN sB ELSE sA]
=============================================================================
