---------------------------- MODULE Conversation ----------------------------
(***************************************************************************)
(* The message list of one chat conversation, and the operations that      *)
(* backend/chat/conversation_store.py and backend/chat_api.py perform on   *)
(* it.  A message is reduced to its identity and its role: the text, the   *)
(* citations, the confidence and the timestamps are carried along by the   *)
(* code and never read by these operations.                                *)
(***************************************************************************)
EXTENDS SequencesExt

\* The two values of Message.role.
Roles == {"user", "assistant"}

\* Some message of msgs carries the given id.
Holds(msgs, id) == \E i \in DOMAIN msgs : msgs[i].id = id

\* The position of the first message with the given id, 0 if there is none.
PositionOf(msgs, id) == SelectInSeq(msgs, LAMBDA m : m.id = id)

\* What truncate_after leaves: everything before the message, and the message
\* itself unless the cut is inclusive.  An id that is not there cuts nothing.
Truncated(msgs, id, inclusive) ==
  IF Holds(msgs, id)
  THEN SubSeq(msgs, 1, PositionOf(msgs, id) - (IF inclusive THEN 1 ELSE 0))
  ELSE msgs

\* The user turns of a message list, by position.
UserTurns(msgs) == {i \in DOMAIN msgs : msgs[i].role = "user"}

\* The user turns that stand before the message with the given id.
UserTurnsBefore(msgs, id) ==
  {i \in UserTurns(msgs) : i < PositionOf(msgs, id)}
=============================================================================
