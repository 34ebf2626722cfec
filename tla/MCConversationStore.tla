------------------------ MODULE MCConversationStore ------------------------
(* ConversationStore on a small instance. *)
EXTENDS ConversationStore, TLC

\* Conversation and message ids are uuids: only their equality matters.
Ids == Permutations(Convs) \cup Permutations(MessageIds)
=============================================================================
