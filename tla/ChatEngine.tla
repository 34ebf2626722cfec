----------------------------- MODULE ChatEngine -----------------------------
(***************************************************************************)
(* The chat requests of backend/chat_api.py and the reply generator of     *)
(* backend/chat/engine.py, over the conversations of the store.            *)
(*                                                                         *)
(* Every request is a coroutine of one event loop.  Between two awaits or  *)
(* yields it runs alone, so each action below is the code from one         *)
(* suspension point to the next; at every suspension point other requests  *)
(* run, the conversation may be deleted and the client may go away.        *)
(* Suspension points between which nothing shared is read or written are   *)
(* one: the notices, the refusal's words and the model's events are yielded*)
(* while a request stays where it is.                                      *)
(***************************************************************************)
EXTENDS Conversation

CONSTANTS
  Requests,   \* chat requests; each is one HTTP call
  Convs,      \* conversation ids
  Absent      \* no such conversation

ASSUME RequestsAssumption == Absent \notin Convs

\* A request writes at most one message of each role, so its name and the role
\* identify the message; what the message says is named by its id.
MessageIds == Requests \X Roles
Messages == {[id |-> <<r, role>>, role |-> role] : r \in Requests, role \in Roles}
Question(r) == [id |-> <<r, "user">>, role |-> "user"]
Answer(r) == [id |-> <<r, "assistant">>, role |-> "assistant"]

ASSUME AbsentAssumption == Absent \notin Seq(Messages)

\* A ChatTurn: the text of a message, or a request's prompt, which is the text of
\* the question with the attachments and the English rendering folded in.
Turns == [role : Roles, text : MessageIds, form : {"message", "prompt"}]

Kinds == {"none", "stream", "regenerate", "edit"}

\* guard.decision: allow and flag differ by one notice and both pass.
Decisions == {"pass", "block"}

\* Where a request that is being served can be suspended: its response not yet
\* begun; the start event yielded; the model's reply awaited and passed on; the
\* words that stand for a failed reply yielded ...
Streaming == {"opened", "started", "asking", "fallback"}
\* ... and how it can be over: done yielded, refused by the endpoint, abandoned
\* by its client, killed by a KeyError or by any other exception.
Ended == {"done", "rejected", "dropped", "lost", "broken"}
Phases == {"idle"} \cup Streaming \cup Ended

VARIABLES
  conv,     \* ConversationStore._cache: the messages of each conversation
  born,     \* conversation ids ever given out
  pc,       \* where each request is suspended
  kind,     \* the endpoint it came through
  target,   \* its conversation_id
  asks,     \* the request whose user message it answers
  decision, \* guard.decision
  turns     \* what it handed to llm.stream_chat, empty until then

vars == <<conv, born, pc, kind, target, asks, decision, turns>>

Init ==
  /\ conv = [c \in Convs |-> Absent]
  /\ born = {}
  /\ pc = [r \in Requests |-> "idle"]
  /\ kind = [r \in Requests |-> "none"]
  /\ target = [r \in Requests |-> Absent]
  /\ asks = [r \in Requests |-> r]
  /\ decision = [r \in Requests |-> "none"]
  /\ turns = [r \in Requests |-> <<>>]

Exists(c) == conv[c] # Absent

GoTo(r, phase) == pc' = [pc EXCEPT ![r] = phase]

\* add_message on a conversation that exists.
Added(msgs, m) == Append(msgs, m)
Add(c, m) == conv' = [conv EXCEPT ![c] = Added(@, m)]

-----------------------------------------------------------------------------
(* The endpoints, up to the StreamingResponse they return.                  *)

\* POST /api/chat/conversations.
CreateConversation(c) ==
  /\ c \notin born
  /\ conv' = [conv EXCEPT ![c] = <<>>]
  /\ born' = born \cup {c}
  /\ UNCHANGED <<pc, kind, target, asks, decision, turns>>

\* DELETE /api/chat/conversations/{id}.
DeleteConversation(c) ==
  /\ Exists(c)
  /\ conv' = [conv EXCEPT ![c] = Absent]
  /\ UNCHANGED <<born, pc, kind, target, asks, decision, turns>>

\* Mutant of OpenStream: the conversation is not looked up.
OpenStreamUnchecked(r, c) ==
  /\ pc[r] = "idle"
  /\ kind' = [kind EXCEPT ![r] = "stream"]
  /\ target' = [target EXCEPT ![r] = c]
  /\ GoTo(r, "opened")
  /\ UNCHANGED <<conv, born, asks, decision, turns>>

\* POST /api/chat/stream on a known conversation: it is looked up before the
\* uploads are read and used after.
OpenStream(r, c) ==
  /\ pc[r] = "idle"
  /\ Exists(c)
  /\ kind' = [kind EXCEPT ![r] = "stream"]
  /\ target' = [target EXCEPT ![r] = c]
  /\ GoTo(r, "opened")
  /\ UNCHANGED <<conv, born, asks, decision, turns>>

\* An endpoint that saves a conversation goes on to stream, or answers 500 when
\* the snapshot cannot be written.
OpenAfterSave(r) == \E phase \in {"opened", "broken"} : GoTo(r, phase)

\* POST /api/chat/stream without a conversation, or with one that is gone.
OpenStreamOnNew(r, c) ==
  /\ pc[r] = "idle"
  /\ c \notin born
  /\ conv' = [conv EXCEPT ![c] = <<>>]
  /\ born' = born \cup {c}
  /\ kind' = [kind EXCEPT ![r] = "stream"]
  /\ target' = [target EXCEPT ![r] = c]
  /\ OpenAfterSave(r)
  /\ UNCHANGED <<asks, decision, turns>>

\* The regenerate endpoint refuses an unknown message and one nobody asked for.
CanRegenerate(c, id) ==
  /\ Exists(c)
  /\ Holds(conv[c], id)
  /\ UserTurnsBefore(conv[c], id) # {}

\* Mutant of AskedBefore: the message itself, not its author.
AskedBeforeMessage(c, id) ==
  conv[c][Max(UserTurnsBefore(conv[c], id))].id

\* The author of the user message that precedes the message with the given id.
AskedBefore(c, id) ==
  conv[c][Max(UserTurnsBefore(conv[c], id))].id[1]

\* Mutant of OpenRegenerate: the message that is regenerated is kept.
OpenRegenerateKeeping(r, c, id) ==
  /\ pc[r] = "idle"
  /\ CanRegenerate(c, id)
  /\ asks' = [asks EXCEPT ![r] = AskedBefore(c, id)]
  /\ conv' = [conv EXCEPT ![c] = Truncated(@, id, FALSE)]
  /\ kind' = [kind EXCEPT ![r] = "regenerate"]
  /\ target' = [target EXCEPT ![r] = c]
  /\ OpenAfterSave(r)
  /\ UNCHANGED <<born, decision, turns>>

\* POST /api/chat/regenerate: the message and all that follows is dropped before
\* the guardrails are asked.
OpenRegenerate(r, c, id) ==
  /\ pc[r] = "idle"
  /\ CanRegenerate(c, id)
  /\ asks' = [asks EXCEPT ![r] = AskedBefore(c, id)]
  /\ conv' = [conv EXCEPT ![c] = Truncated(@, id, TRUE)]
  /\ kind' = [kind EXCEPT ![r] = "regenerate"]
  /\ target' = [target EXCEPT ![r] = c]
  /\ OpenAfterSave(r)
  /\ UNCHANGED <<born, decision, turns>>

\* POST /api/chat/edit: an unknown id cuts nothing, and the request goes on.
OpenEdit(r, c, id) ==
  /\ pc[r] = "idle"
  /\ Exists(c)
  /\ conv' = [conv EXCEPT ![c] = Truncated(@, id, TRUE)]
  /\ kind' = [kind EXCEPT ![r] = "edit"]
  /\ target' = [target EXCEPT ![r] = c]
  /\ IF Holds(conv[c], id) THEN OpenAfterSave(r) ELSE GoTo(r, "opened")
  /\ UNCHANGED <<born, asks, decision, turns>>

\* The 404 and 400 answers of regenerate and edit.
Reject(r, c, id) ==
  /\ pc[r] = "idle"
  /\ \/ ~CanRegenerate(c, id) /\ kind' = [kind EXCEPT ![r] = "regenerate"]
     \/ ~Exists(c) /\ kind' = [kind EXCEPT ![r] = "edit"]
  /\ GoTo(r, "rejected")
  /\ UNCHANGED <<conv, born, target, asks, decision, turns>>

-----------------------------------------------------------------------------
(* ChatEngine.stream_reply.                                                 *)

\* A regenerated reply does not write its question again (persist_user).
Persists(r) == kind[r] # "regenerate"

\* check_input raises: its audit line cannot be written.
AuditFails(r) ==
  /\ pc[r] = "opened"
  /\ GoTo(r, "broken")
  /\ UNCHANGED <<conv, born, kind, target, asks, decision, turns>>

\* check_input decides, the user turn is saved whatever it decided, and the reply
\* starts.
Begin(r) ==
  /\ pc[r] = "opened"
  /\ IF Persists(r)
     THEN Exists(target[r]) /\ Add(target[r], Question(r))
     ELSE UNCHANGED conv
  /\ \E d \in Decisions : decision' = [decision EXCEPT ![r] = d]
  /\ GoTo(r, "started")
  /\ UNCHANGED <<born, kind, target, asks, turns>>

\* add_message raises KeyError: the conversation was deleted since the lookup.
BeginOnDeleted(r) ==
  /\ pc[r] = "opened"
  /\ Persists(r)
  /\ ~Exists(target[r])
  /\ \E d \in Decisions : decision' = [decision EXCEPT ![r] = d]
  /\ GoTo(r, "lost")
  /\ UNCHANGED <<conv, born, kind, target, asks, turns>>

\* add_message raises OSError: the turn is in memory and the request is dead.
BeginUnsaved(r) ==
  /\ pc[r] = "opened"
  /\ Persists(r)
  /\ Exists(target[r])
  /\ Add(target[r], Question(r))
  /\ \E d \in Decisions : decision' = [decision EXCEPT ![r] = d]
  /\ GoTo(r, "broken")
  /\ UNCHANGED <<born, kind, target, asks, turns>>

\* The turns of a history, as the model will see them.
AsTurns(msgs) ==
  [i \in DOMAIN msgs |->
     [role |-> msgs[i].role, text |-> msgs[i].id, form |-> "message"]]

\* The prompt of a request: the text of the question it answers, with what was
\* folded into it.
Prompt(r) ==
  [role |-> "user", text |-> Question(asks[r]).id, form |-> "prompt"]

\* store.history: the messages of a conversation, none if it is gone.
History(c) == IF Exists(c) THEN conv[c] ELSE <<>>

\* Mutant of PromptTurns: the prompt takes the place of the last turn, whoever
\* spoke it.
PromptTurnsReplacing(r) ==
  LET history == AsTurns(History(target[r]))
  IN  IF history # <<>>
      THEN [history EXCEPT ![Len(history)] = Prompt(r)]
      ELSE <<Prompt(r)>>

\* The prompt takes the place of a user turn at the end of the history, whosever it
\* is, and comes after an assistant turn.
PromptTurns(r) ==
  LET history == AsTurns(History(target[r]))
  IN  IF history # <<>> /\ Last(history).role = "user"
      THEN [history EXCEPT ![Len(history)] = Prompt(r)]
      ELSE Append(history, Prompt(r))

\* A request that passed reads the history and calls the model.
Ask(r) ==
  /\ pc[r] = "started"
  /\ decision[r] = "pass"
  /\ turns' = [turns EXCEPT ![r] = PromptTurns(r)]
  /\ GoTo(r, "asking")
  /\ UNCHANGED <<conv, born, kind, target, asks, decision>>

\* LLMError: the client is told in the answer's own text.
ModelFails(r) ==
  /\ pc[r] = "asking"
  /\ GoTo(r, "fallback")
  /\ UNCHANGED <<conv, born, kind, target, asks, decision, turns>>

\* Any other exception of the provider ends the generator.
ModelBreaks(r) ==
  /\ pc[r] = "asking"
  /\ GoTo(r, "broken")
  /\ UNCHANGED <<conv, born, kind, target, asks, decision, turns>>

\* There is an assistant turn to save: the model has ended its reply, or its
\* failure has been told, or a blocked request has been refused.
Complete(r) ==
  \/ pc[r] \in {"asking", "fallback"}
  \/ pc[r] = "started" /\ decision[r] = "block"

\* Mutant of Save: a refusal that is saved does not end the generator.
SaveGoingOn(r) ==
  /\ Complete(r)
  /\ Exists(target[r])
  /\ Add(target[r], Answer(r))
  /\ IF decision[r] = "block" THEN UNCHANGED pc ELSE GoTo(r, "done")
  /\ UNCHANGED <<born, kind, target, asks, decision, turns>>

\* The assistant turn is saved and done carries its id.
Save(r) ==
  /\ Complete(r)
  /\ Exists(target[r])
  /\ Add(target[r], Answer(r))
  /\ GoTo(r, "done")
  /\ UNCHANGED <<born, kind, target, asks, decision, turns>>

\* Mutant of SaveOnDeleted: the missing conversation is created again.
SaveResurrecting(r) ==
  /\ Complete(r)
  /\ ~Exists(target[r])
  /\ conv' = [conv EXCEPT ![target[r]] = <<Answer(r)>>]
  /\ GoTo(r, "done")
  /\ UNCHANGED <<born, kind, target, asks, decision, turns>>

\* Mutant of SaveOnDeleted: the KeyError is swallowed.
SaveSwallowing(r) ==
  /\ Complete(r)
  /\ ~Exists(target[r])
  /\ GoTo(r, "done")
  /\ UNCHANGED <<conv, born, kind, target, asks, decision, turns>>

\* KeyError: the conversation was deleted while the answer was streamed.
SaveOnDeleted(r) ==
  /\ Complete(r)
  /\ ~Exists(target[r])
  /\ GoTo(r, "lost")
  /\ UNCHANGED <<conv, born, kind, target, asks, decision, turns>>

\* OSError: the turn is in memory, the client never gets its id.
SaveUnsaved(r) ==
  /\ Complete(r)
  /\ Exists(target[r])
  /\ Add(target[r], Answer(r))
  /\ GoTo(r, "broken")
  /\ UNCHANGED <<born, kind, target, asks, decision, turns>>

\* The client goes away or presses Stop: the generator is closed where it stands.
Disconnect(r) ==
  /\ pc[r] \in Streaming
  /\ GoTo(r, "dropped")
  /\ UNCHANGED <<conv, born, kind, target, asks, decision, turns>>

-----------------------------------------------------------------------------

\* What the server does for a request it has accepted.
Serve(r) ==
  \/ AuditFails(r) \/ Begin(r) \/ BeginOnDeleted(r) \/ BeginUnsaved(r)
  \/ Ask(r) \/ ModelFails(r) \/ ModelBreaks(r)
  \/ Save(r) \/ SaveOnDeleted(r) \/ SaveUnsaved(r)

\* The message_id of a request, which may be null.
SentIds == MessageIds \cup {Absent}

\* What clients ask for: any endpoint, any conversation, any message id.
Arrive(r) ==
  \E c \in Convs :
    \/ OpenStream(r, c)
    \/ OpenStreamOnNew(r, c)
    \/ \E id \in SentIds :
         OpenRegenerate(r, c, id) \/ OpenEdit(r, c, id) \/ Reject(r, c, id)

Manage == \E c \in Convs : CreateConversation(c) \/ DeleteConversation(c)

\* Every request is over: the server waits for more.
Quiet == (\A r \in Requests : pc[r] \in Ended) /\ UNCHANGED vars

Next ==
  \/ \E r \in Requests : Arrive(r) \/ Serve(r) \/ Disconnect(r)
  \/ Manage
  \/ Quiet

Spec == Init /\ [][Next]_vars

-----------------------------------------------------------------------------
(* Properties.                                                              *)

TypeOK ==
  /\ conv \in [Convs -> Seq(Messages) \cup {Absent}]
  /\ born \subseteq Convs
  /\ pc \in [Requests -> Phases]
  /\ kind \in [Requests -> Kinds]
  /\ target \in [Requests -> Convs \cup {Absent}]
  /\ asks \in [Requests -> Requests]
  /\ decision \in [Requests -> Decisions \cup {"none"}]
  /\ turns \in [Requests -> Seq(Turns)]

\* The messages of a conversation, without their order.
Shown(c) == Range(History(c))

\* A request leaves at most one message of each role, only in its own
\* conversation, and no answer before it reached the end of its reply.
OneAnswerPerRequest ==
  \A c \in Convs : Exists(c) =>
    \A i \in DOMAIN conv[c] :
      LET author == conv[c][i].id[1]
      IN  /\ target[author] = c
          /\ conv[c][i] = Answer(author) => pc[author] \in {"done", "broken"}
          /\ \A j \in DOMAIN conv[c] : conv[c][j] = conv[c][i] => j = i

\* No answer stands above the question it answers, for any interleaving of
\* streams, regenerations, edits and deletions.
QuestionBeforeAnswer ==
  \A c \in Convs : Exists(c) =>
    \A i, j \in DOMAIN conv[c] : \A r \in Requests :
      (conv[c][i] = Question(asks[r]) /\ conv[c][j] = Answer(r)) => i < j

\* Where turns say what a message says.
Tellings(ts, m) == {i \in DOMAIN ts : ts[i].text = m.id}

\* However requests of a conversation interleave, whoever asks the model tells it every
\* answer that stands in the conversation, each once and below the question it answers,
\* unless that was cut.  So the user turn that the prompt overwrites, which may be that
\* of another request (engine.py:161), is one that nobody has answered.
AnswersAreTold ==
  [][\A r \in Requests : turns'[r] # turns[r] =>
       \A q \in Requests : Answer(q) \in Shown(target[r]) =>
         \E j \in DOMAIN turns'[r] :
           /\ Tellings(turns'[r], Answer(q)) = {j}
           /\ Question(asks[q]) \in Shown(target[r]) =>
                \E i \in Tellings(turns'[r], Question(asks[q])) : i < j]_vars

\* Answers take their places in the conversation: one for a request, below its
\* question (engine.py:217 appends in the order in which the models finish).
AnswersInPlace == OneAnswerPerRequest /\ QuestionBeforeAnswer

\* The only way to lose a stream to a KeyError is to have its conversation deleted
\* under it.
LostOnlyWhenDeleted ==
  \A r \in Requests : pc[r] = "lost" => target[r] \in born /\ ~Exists(target[r])

\* A deleted conversation stays deleted: no stream that was under way, and no
\* later request, brings it back.
DeletedStaysDeleted ==
  [][\A c \in born : ~Exists(c) => ~Exists(c)']_vars

\* A request that yields done has saved the answer whose id done carries, in a
\* conversation that still exists.
DoneMeansSaved ==
  [][\A r \in Requests :
       (pc[r] # "done" /\ pc'[r] = "done") => Answer(r) \in Shown(target[r])']_vars

\* With one stream at a time, every answer stands directly below its question.
AnswersFollowTheirQuestions ==
  \A c \in Convs : Exists(c) =>
    \A i \in DOMAIN conv[c] : conv[c][i].role = "assistant" =>
      i > 1 /\ conv[c][i - 1] = Question(asks[conv[c][i].id[1]])

\* With one stream at a time, what the model is asked is the conversation as the
\* user sees it, turn by turn.
ModelSeesTheConversation ==
  \A r \in Requests : (pc[r] = "asking" /\ Exists(target[r])) =>
    /\ Len(turns[r]) = Len(conv[target[r]])
    /\ \A i \in DOMAIN turns[r] : turns[r][i].text = conv[target[r]][i].id
=============================================================================
