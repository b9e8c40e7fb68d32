--------------------------- MODULE MCConversation ---------------------------
(* A small instance of Conversation, over the responses of MCRunLoop. *)
EXTENDS Conversation, MCRunLoop
=============================================================================
