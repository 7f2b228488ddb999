--------------------------- MODULE MCConversation ---------------------------
(***************************************************************************)
(* Small instances of Conversation for TLC.                                *)
(***************************************************************************)
EXTENDS Conversation, TLC

ConversationSymmetry == Permutations(Processes) \cup Permutations(Tasks)
=============================================================================
