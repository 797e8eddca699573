------------------------- MODULE MCConversationTree -------------------------
(* ConversationTree on a few messages of two chats. *)
EXTENDS ConversationTree

\* What complicates a state beyond its messages.
Troubles == used.file + cuts + restarts + Cardinality(searches)
\* Bound: five messages in calm, and four less one for each trouble otherwise.
Bounded == Troubles = 0 \/ used.message + Troubles <= 4
=============================================================================
