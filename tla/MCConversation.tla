--------------------------- MODULE MCConversation ---------------------------
(***************************************************************************)
(* Two names from the world and two of the model's, two turns of messages  *)
(* of up to two tokens: what the first turn makes up, the second can name  *)
(* again, in another order, beside what a tool brought.                    *)
(***************************************************************************)
EXTENDS Conversation

MCKnown == {"a", "b"}
MCInvented == {"x", "y"}
=============================================================================
