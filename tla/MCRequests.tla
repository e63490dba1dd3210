----------------------------- MODULE MCRequests -----------------------------
(***************************************************************************)
(* What makes a request of a replay the one that was recorded: the names   *)
(* in it are numbered alike (Conversation), and the rest of it is brought  *)
(* to one form (Normalize).  The two share no state, the first being about *)
(* the text and the second about the tree, and each is explored while the  *)
(* other rests in an initial state: the states of this machine are those   *)
(* of the two, side by side, and a property of either holds here exactly   *)
(* if it holds there.                                                      *)
(***************************************************************************)
EXTENDS MCConversation, Normalize

\* One word, and two calls.
MCWords == {"a"}
MCCalls == <<"c1", "c2">>

VARIABLE part  \* the one explored

ConversationRests == recorded = <<>> /\ replayed = <<>> /\ Init
NormalizeRests == asked = <<>> /\ NormalizeInit

PartsInit ==
  \/ part = "conversation" /\ Init /\ NormalizeRests
  \/ part = "normalize" /\ NormalizeInit /\ ConversationRests

PartsNext ==
  \/ part = "conversation" /\ Next /\ UNCHANGED <<part, normalizeVars>>
  \/ part = "normalize" /\ NormalizeNext /\ UNCHANGED <<part, vars>>

PartsSpec == PartsInit /\ [][PartsNext]_<<part, vars, normalizeVars>>
=============================================================================
