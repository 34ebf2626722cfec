----------------------------- MODULE Chat_proofs -----------------------------
(***************************************************************************)
(* The safety properties of ChatEngine, of its clients in ChatClients, and *)
(* of the page over it in ChatUi, and of its users in ChatUsers, for any   *)
(* number of requests and conversations.                                   *)
(***************************************************************************)
EXTENDS ChatUsers, ChatClients, Lists_proofs

\* A request that has not reached its first write.
Fresh(r) == pc[r] \in {"idle", "opened"}

\* Which conversations exist and are written to, and what fresh requests have
\* not done yet.
Bookkeeping ==
  /\ \A c \in Convs : Exists(c) => c \in born
  /\ \A r \in Requests : pc[r] \notin {"idle", "rejected"} => target[r] \in born
  /\ \A r \in Requests : Fresh(r) => turns[r] = <<>>

\* A message is in a conversation only if its author has come as far as to write
\* it, and a question is answered by another request only after it was asked.
Written ==
  /\ \A c \in Convs : Exists(c) =>
       \A i \in DOMAIN conv[c] : \A r \in Requests :
         /\ conv[c][i] = Question(r) => ~Fresh(r)
         /\ conv[c][i] = Answer(r) => pc[r] \in {"done", "broken"}
  /\ \A r \in Requests : asks[r] = r \/ ~Fresh(asks[r])

IInv ==
  /\ TypeOK /\ Bookkeeping /\ Written
  /\ OneAnswerPerRequest /\ QuestionBeforeAnswer /\ LostOnlyWhenDeleted

-----------------------------------------------------------------------------
(* Operators.                                                               *)

\* The messages of a request are messages, with different roles.
LEMMA OwnMessages ==
  ASSUME NEW r \in Requests
  PROVE  Question(r) \in Messages /\ Answer(r) \in Messages
BY DEF Question, Answer, Messages, Roles

\* Every message is the question or the answer of its author.
LEMMA Authorship ==
  ASSUME NEW m \in Messages
  PROVE  m.id[1] \in Requests /\ (m = Question(m.id[1]) \/ m = Answer(m.id[1]))
BY DEF Messages, Roles, Question, Answer

\* Adding a message of a request keeps the conversations' type.
LEMMA AddKeepsType ==
  ASSUME TypeOK, NEW c \in Convs, Exists(c), NEW m \in Messages, Add(c, m)
  PROVE  conv' \in [Convs -> Seq(Messages) \cup {Absent}]
<1>1. conv[c] \in Seq(Messages)
  BY DEF TypeOK, Exists
<1>2. Append(conv[c], m) \in Seq(Messages)
  BY <1>1, AppendProperties
<1>3. QED BY <1>2 DEF TypeOK, Add, Added

\* So does a cut.
LEMMA CutKeepsType ==
  ASSUME TypeOK, NEW c \in Convs, Exists(c), NEW id,
         conv' = [conv EXCEPT ![c] = Truncated(@, id, TRUE)]
  PROVE  conv' \in [Convs -> Seq(Messages) \cup {Absent}]
<1>1. conv[c] \in Seq(Messages)
  BY DEF TypeOK, Exists
<1>2. Truncated(conv[c], id, TRUE) \in Seq(Messages)
  BY <1>1, TruncatedIsCut
<1>3. QED BY <1>2 DEF TypeOK

\* The question a regenerated message answers was asked by a request, and is in
\* the conversation.
LEMMA AskedBeforeProperties ==
  ASSUME TypeOK, NEW c \in Convs, NEW id, CanRegenerate(c, id)
  PROVE  /\ AskedBefore(c, id) \in Requests
         /\ \E i \in DOMAIN conv[c] : conv[c][i] = Question(AskedBefore(c, id))
<1> DEFINE U == UserTurnsBefore(conv[c], id)
           i == Max(U)
<1>1. conv[c] \in Seq(Messages) /\ Len(conv[c]) \in Nat
      /\ DOMAIN conv[c] = 1 .. Len(conv[c])
  BY LenProperties DEF TypeOK, CanRegenerate, Exists
<1>2. U \in SUBSET (0 .. Len(conv[c])) /\ U # {}
  BY <1>1 DEF CanRegenerate, UserTurnsBefore, UserTurns
<1>3. i \in U
  BY <1>1, <1>2, MaxProperties
<1>4. i \in DOMAIN conv[c] /\ conv[c][i].role = "user"
  BY <1>3 DEF UserTurnsBefore, UserTurns
<1> HIDE DEF i
<1>5. conv[c][i] \in Messages
  BY <1>1, <1>4, ElementOfSeq
<1>6. PICK r \in Requests, role \in Roles :
        conv[c][i] = [id |-> <<r, role>>, role |-> role]
  BY <1>5 DEF Messages
<1>7. conv[c][i] = Question(r) /\ conv[c][i].id[1] = r
  BY <1>4, <1>6 DEF Question
<1>8. AskedBefore(c, id) = r
  BY <1>7 DEF AskedBefore, i
<1>9. QED BY <1>4, <1>7, <1>8

\* What is handed to the model: every message but the last, and the last one too if
\* it is an answer, is told in its place, and nothing else but the request's question.
LEMMA PromptTurnsProperties ==
  ASSUME TypeOK, NEW r \in Requests, target[r] \in Convs
  PROVE  LET msgs == History(target[r])
             ts == PromptTurns(r)
         IN  /\ ts \in Seq(Turns)
             /\ msgs \in Seq(Messages)
             /\ \A i \in 1 .. Len(msgs) : (i < Len(msgs) \/ msgs[i].role # "user") =>
                  i \in DOMAIN ts /\ ts[i].text = msgs[i].id
             /\ \A i \in DOMAIN ts :
                  \/ ts[i] = Prompt(r)
                  \/ i \in 1 .. Len(msgs) /\ ts[i].text = msgs[i].id
<1> DEFINE msgs == History(target[r])
           h == AsTurns(msgs)
           ts == PromptTurns(r)
<1>1. msgs \in Seq(Messages)
  <2>1. <<>> \in Seq(Messages)
    BY EmptySeq
  <2>2. QED BY <2>1 DEF TypeOK, History, Exists
<1>2. Len(msgs) \in Nat /\ DOMAIN msgs = 1 .. Len(msgs)
  BY <1>1, LenProperties
<1>3. Prompt(r) \in Turns
  BY DEF Prompt, Turns, Question, MessageIds, Roles, TypeOK
<1>4. /\ h # <<>> /\ Last(h).role = "user" => ts = [h EXCEPT ![Len(h)] = Prompt(r)]
      /\ ~(h # <<>> /\ Last(h).role = "user") => ts = Append(h, Prompt(r))
  BY DEF PromptTurns
<1> HIDE DEF msgs, ts
<1>5. \A i \in 1 .. Len(msgs) :
        h[i] \in Turns /\ h[i].text = msgs[i].id /\ h[i].role = msgs[i].role
  <2>1. \A i \in 1 .. Len(msgs) : msgs[i] \in Messages
    BY <1>1, ElementOfSeq
  <2>2. QED BY <1>2, <2>1 DEF AsTurns, Turns, Messages, MessageIds
<1>6. h \in Seq(Turns) /\ Len(h) = Len(msgs) /\ DOMAIN h = 1 .. Len(msgs)
  BY <1>2, <1>5, IsASeq DEF AsTurns
<1> HIDE DEF h
<1> DEFINE n == Len(msgs)
<1> SUFFICES /\ ts \in Seq(Turns)
             /\ \A i \in 1 .. n : (i < n \/ msgs[i].role # "user") =>
                  i \in DOMAIN ts /\ ts[i].text = msgs[i].id
             /\ \A i \in DOMAIN ts :
                  ts[i] = Prompt(r) \/ (i \in 1 .. n /\ ts[i].text = msgs[i].id)
  BY <1>1 DEF msgs, ts
<1>7. CASE h # <<>> /\ Last(h).role = "user"
  <2>1. n \in 1 .. n /\ msgs[n].role = "user"
    BY <1>2, <1>5, <1>6, <1>7, EmptySeq DEF Last
  <2>2. ts = [h EXCEPT ![n] = Prompt(r)]
    BY <1>4, <1>6, <1>7
  <2>3. ts \in Seq(Turns) /\ DOMAIN ts = 1 .. n
    BY <1>3, <1>6, <2>1, <2>2, ExceptSeq, LenProperties
  <2>4. ts[n] = Prompt(r) /\ \A i \in 1 .. n : i # n => ts[i] = h[i]
    BY <1>6, <2>1, <2>2
  <2>5. \A i \in 1 .. n : (i < n \/ msgs[i].role # "user") => i # n
    <3>1. n \in Nat
      BY <1>2
    <3> HIDE DEF n
    <3>2. \A i \in 1 .. n : i < n => i # n
      BY <3>1
    <3>3. QED BY <2>1, <3>2, Zenon
  <2>6. \A i \in 1 .. n : i # n => ts[i].text = msgs[i].id
    BY <1>5, <2>4
  <2>7. QED BY <2>3, <2>4, <2>5, <2>6
<1>8. CASE ~(h # <<>> /\ Last(h).role = "user")
  <2>1. ts = Append(h, Prompt(r))
    BY <1>4, <1>8
  <2>2. /\ ts \in Seq(Turns) /\ Len(ts) = n + 1
        /\ ts[n + 1] = Prompt(r) /\ \A i \in 1 .. n : ts[i] = h[i]
    BY <1>3, <1>6, <2>1, AppendProperties
  <2>3. DOMAIN ts = 1 .. n + 1
    BY <2>2, LenProperties
  <2>4. QED BY <1>2, <1>5, <2>2, <2>3
<1>9. QED BY <1>7, <1>8

-----------------------------------------------------------------------------
(* The steps, one by one.                                                   *)

\* A request that is being served knows its conversation.
LEMMA TargetKnown ==
  ASSUME TypeOK, Bookkeeping, NEW r \in Requests, pc[r] \notin {"idle", "rejected"}
  PROVE  target[r] \in Convs
BY DEF TypeOK, Bookkeeping

\* The types are preserved.
LEMMA TypeInductive == TypeOK /\ Bookkeeping /\ [Next]_vars => TypeOK'
<1> SUFFICES ASSUME TypeOK, Bookkeeping, [Next]_vars PROVE TypeOK'
  OBVIOUS
<1> USE RequestsAssumption, AbsentAssumption
<1> USE DEF GoTo, OpenAfterSave, Phases, Streaming, Ended, Kinds, Decisions
<1>1. ASSUME NEW c \in Convs, CreateConversation(c) PROVE TypeOK'
  BY <1>1, EmptySeq DEF CreateConversation, TypeOK
<1>2. ASSUME NEW c \in Convs, DeleteConversation(c) PROVE TypeOK'
  BY <1>2 DEF DeleteConversation, TypeOK
<1>3. ASSUME NEW r \in Requests, NEW c \in Convs, OpenStream(r, c) PROVE TypeOK'
  BY <1>3 DEF OpenStream, TypeOK
<1>4. ASSUME NEW r \in Requests, NEW c \in Convs, OpenStreamOnNew(r, c)
      PROVE  TypeOK'
  BY <1>4, EmptySeq DEF OpenStreamOnNew, TypeOK
<1>5. ASSUME NEW r \in Requests, NEW c \in Convs, NEW id \in SentIds,
             OpenRegenerate(r, c, id)
      PROVE  TypeOK'
  <2>1. conv' \in [Convs -> Seq(Messages) \cup {Absent}]
    BY <1>5, CutKeepsType DEF OpenRegenerate, CanRegenerate
  <2>2. AskedBefore(c, id) \in Requests
    BY <1>5, AskedBeforeProperties DEF OpenRegenerate
  <2>3. asks' \in [Requests -> Requests]
    BY <1>5, <2>2 DEF OpenRegenerate, TypeOK
  <2>4. pc' \in [Requests -> Phases]
    BY <1>5 DEF OpenRegenerate, TypeOK
  <2>5. kind' \in [Requests -> Kinds] /\ target' \in [Requests -> Convs \cup {Absent}]
    BY <1>5 DEF OpenRegenerate, TypeOK
  <2>6. UNCHANGED <<born, decision, turns>>
    BY <1>5 DEF OpenRegenerate
  <2>7. QED BY <2>1, <2>3, <2>4, <2>5, <2>6 DEF TypeOK
<1>6. ASSUME NEW r \in Requests, NEW c \in Convs, NEW id \in SentIds,
             OpenEdit(r, c, id)
      PROVE  TypeOK'
  <2>1. conv' \in [Convs -> Seq(Messages) \cup {Absent}]
    BY <1>6, CutKeepsType DEF OpenEdit
  <2>2. QED BY <1>6, <2>1 DEF OpenEdit, TypeOK
<1>7. ASSUME NEW r \in Requests, NEW c \in Convs, NEW id \in SentIds,
             Reject(r, c, id)
      PROVE  TypeOK'
  BY <1>7 DEF Reject, TypeOK
<1>8. ASSUME NEW r \in Requests, AuditFails(r) PROVE TypeOK'
  BY <1>8 DEF AuditFails, TypeOK
<1>9. ASSUME NEW r \in Requests, Begin(r) PROVE TypeOK'
  <2> target[r] \in Convs
    BY <1>9, TargetKnown DEF Begin
  <2>1. conv' \in [Convs -> Seq(Messages) \cup {Absent}]
    <3>1. CASE Persists(r)
      BY <1>9, <3>1, AddKeepsType, OwnMessages DEF Begin, Exists, TypeOK
    <3>2. CASE ~Persists(r)
      BY <1>9, <3>2 DEF Begin, TypeOK
    <3>3. QED BY <3>1, <3>2
  <2>2. QED BY <1>9, <2>1 DEF Begin, TypeOK
<1>10. ASSUME NEW r \in Requests, BeginOnDeleted(r) PROVE TypeOK'
  BY <1>10 DEF BeginOnDeleted, TypeOK
<1>11. ASSUME NEW r \in Requests, BeginUnsaved(r) PROVE TypeOK'
  <2> target[r] \in Convs
    BY <1>11, TargetKnown DEF BeginUnsaved
  <2>1. conv' \in [Convs -> Seq(Messages) \cup {Absent}]
    BY <1>11, AddKeepsType, OwnMessages DEF BeginUnsaved, Exists, TypeOK
  <2>2. QED BY <1>11, <2>1 DEF BeginUnsaved, TypeOK
<1>12. ASSUME NEW r \in Requests, Ask(r) PROVE TypeOK'
  <2>1. PromptTurns(r) \in Seq(Turns)
    BY <1>12, TargetKnown, PromptTurnsProperties DEF Ask
  <2>2. QED BY <1>12, <2>1 DEF Ask, TypeOK
<1>13. ASSUME NEW r \in Requests, ModelFails(r) \/ ModelBreaks(r) PROVE TypeOK'
  BY <1>13 DEF ModelFails, ModelBreaks, TypeOK
<1>14. ASSUME NEW r \in Requests, Save(r) \/ SaveUnsaved(r) PROVE TypeOK'
  <2> target[r] \in Convs
    BY <1>14, TargetKnown DEF Save, SaveUnsaved, Complete
  <2>1. conv' \in [Convs -> Seq(Messages) \cup {Absent}]
    BY <1>14, AddKeepsType, OwnMessages DEF Save, SaveUnsaved
  <2>2. QED BY <1>14, <2>1 DEF Save, SaveUnsaved, TypeOK
<1>15. ASSUME NEW r \in Requests, SaveOnDeleted(r) PROVE TypeOK'
  BY <1>15 DEF SaveOnDeleted, TypeOK
<1>16. ASSUME NEW r \in Requests, Disconnect(r) PROVE TypeOK'
  BY <1>16 DEF Disconnect, TypeOK
<1>17. CASE UNCHANGED vars
  BY <1>17 DEF vars, TypeOK
<1>18. QED
  BY <1>1, <1>2, <1>3, <1>4, <1>5, <1>6, <1>7, <1>8, <1>9, <1>10, <1>11, <1>12,
     <1>13, <1>14, <1>15, <1>16, <1>17
     DEF Next, Arrive, Serve, Manage, Quiet

\* So are the facts about born conversations and fresh requests.
LEMMA BookkeepingInductive ==
  TypeOK /\ Bookkeeping /\ [Next]_vars => Bookkeeping'
<1> SUFFICES ASSUME TypeOK, Bookkeeping, [Next]_vars PROVE Bookkeeping'
  OBVIOUS
<1> USE DEF GoTo, OpenAfterSave, TypeOK, Bookkeeping, Exists, Fresh
<1>1. ASSUME NEW c \in Convs, CreateConversation(c) \/ DeleteConversation(c)
      PROVE  Bookkeeping'
  BY <1>1 DEF CreateConversation, DeleteConversation
<1>2. ASSUME NEW r \in Requests, NEW c \in Convs,
             OpenStream(r, c) \/ OpenStreamOnNew(r, c)
      PROVE  Bookkeeping'
  <2>1. CASE OpenStream(r, c)
    BY <2>1 DEF OpenStream
  <2>2. CASE OpenStreamOnNew(r, c)
    BY <2>2 DEF OpenStreamOnNew
  <2>3. QED BY <1>2, <2>1, <2>2
<1>3. ASSUME NEW r \in Requests, NEW c \in Convs, NEW id \in SentIds,
             OpenRegenerate(r, c, id) \/ OpenEdit(r, c, id)
      PROVE  Bookkeeping'
  <2>1. \A d \in Convs : conv'[d] # Absent => conv[d] # Absent
    BY <1>3 DEF OpenRegenerate, CanRegenerate, OpenEdit
  <2>2. /\ \E phase \in {"opened", "broken"} : pc' = [pc EXCEPT ![r] = phase]
        /\ target' = [target EXCEPT ![r] = c]
        /\ pc[r] = "idle" /\ c \in born
        /\ UNCHANGED <<born, turns>>
    BY <1>3 DEF OpenRegenerate, CanRegenerate, OpenEdit
  <2>3. QED BY <2>1, <2>2
<1>4. ASSUME NEW r \in Requests, NEW c \in Convs, NEW id \in SentIds,
             Reject(r, c, id)
      PROVE  Bookkeeping'
  BY <1>4 DEF Reject
<1>5. ASSUME NEW r \in Requests, AuditFails(r) \/ BeginOnDeleted(r) PROVE Bookkeeping'
  BY <1>5 DEF AuditFails, BeginOnDeleted
<1>6. ASSUME NEW r \in Requests, Begin(r) \/ BeginUnsaved(r) PROVE Bookkeeping'
  BY <1>6 DEF Begin, BeginUnsaved, Add
<1>7. ASSUME NEW r \in Requests, Ask(r) \/ ModelFails(r) \/ ModelBreaks(r)
      PROVE  Bookkeeping'
  BY <1>7 DEF Ask, ModelFails, ModelBreaks
<1>8. ASSUME NEW r \in Requests, Save(r) \/ SaveUnsaved(r) PROVE Bookkeeping'
  BY <1>8 DEF Save, SaveUnsaved, Add, Complete
<1>9. ASSUME NEW r \in Requests, SaveOnDeleted(r) \/ Disconnect(r) PROVE Bookkeeping'
  BY <1>9 DEF SaveOnDeleted, Disconnect, Complete, Streaming
<1>10. CASE UNCHANGED vars
  BY <1>10 DEF vars
<1>11. QED
  BY <1>1, <1>2, <1>3, <1>4, <1>5, <1>6, <1>7, <1>8, <1>9, <1>10
     DEF Next, Arrive, Serve, Manage, Quiet

-----------------------------------------------------------------------------
(* What a step can do to the messages of a conversation.                    *)

\* It empties, cuts or keeps conversations, ...
Shrinks ==
  /\ \A c \in Convs : Exists(c)' =>
       conv'[c] = <<>> \/ (Exists(c) /\ IsPrefix(conv'[c], conv[c]))
  /\ \A r \in Requests : asks'[r] = asks[r] \/ Fresh(r)

\* ... or a request writes its question, or an answer.
Writes(r, m) ==
  /\ target[r] \in Convs
  /\ Exists(target[r])
  /\ Add(target[r], m)
  /\ asks' = asks
AsksQuestion(r) == Writes(r, Question(r)) /\ pc[r] = "opened" /\ ~Fresh(r)'
GivesAnswer(r) ==
  /\ Writes(r, Answer(r))
  /\ pc[r] \in Streaming \ {"opened"}
  /\ pc'[r] \in {"done", "broken"}

\* Requests only move on.
Advances ==
  \A r \in Requests :
    /\ ~Fresh(r) => ~Fresh(r)'
    /\ pc[r] \in {"done", "broken"} => pc'[r] \in {"done", "broken"}

\* Every step is of one of these kinds.
LEMMA StepKinds ==
  ASSUME TypeOK, Bookkeeping, [Next]_vars
  PROVE  \/ Shrinks
         \/ \E r \in Requests : AsksQuestion(r) \/ GivesAnswer(r)
<1> USE DEF GoTo, OpenAfterSave, TypeOK, Fresh, Exists
<1>0. ASSUME NEW c \in Convs, conv[c] # Absent PROVE IsPrefix(conv[c], conv[c])
  BY <1>0, LenProperties DEF IsPrefix
<1>1. ASSUME UNCHANGED <<conv, asks>> PROVE Shrinks
  BY <1>0, <1>1 DEF Shrinks
<1>2. ASSUME NEW c \in Convs, CreateConversation(c) \/ DeleteConversation(c)
      PROVE  Shrinks
  BY <1>0, <1>2 DEF CreateConversation, DeleteConversation, Shrinks
<1>3. ASSUME NEW r \in Requests, NEW c \in Convs, OpenStreamOnNew(r, c)
      PROVE  Shrinks
  BY <1>0, <1>3 DEF OpenStreamOnNew, Shrinks
<1>4. ASSUME NEW r \in Requests, NEW c \in Convs, NEW id \in SentIds,
             OpenRegenerate(r, c, id) \/ OpenEdit(r, c, id)
      PROVE  Shrinks
  <2>1. /\ conv[c] # Absent /\ pc[r] = "idle"
        /\ conv' = [conv EXCEPT ![c] = Truncated(conv[c], id, TRUE)]
        /\ \A q \in Requests : asks'[q] = asks[q] \/ q = r
    BY <1>4 DEF OpenRegenerate, CanRegenerate, OpenEdit
  <2>2. IsPrefix(Truncated(conv[c], id, TRUE), conv[c])
    BY <2>1, TruncatedIsCut
  <2>3. QED BY <1>0, <2>1, <2>2 DEF Shrinks
<1>5. ASSUME NEW r \in Requests, Begin(r) \/ BeginUnsaved(r)
      PROVE  Shrinks \/ AsksQuestion(r)
  <2>1. target[r] \in Convs
    BY <1>5, TargetKnown DEF Begin, BeginUnsaved
  <2>2. QED BY <1>1, <1>5, <2>1 DEF Begin, BeginUnsaved, AsksQuestion, Writes
<1>6. ASSUME NEW r \in Requests, Save(r) \/ SaveUnsaved(r) PROVE GivesAnswer(r)
  <2>1. target[r] \in Convs
    BY <1>6, TargetKnown DEF Save, SaveUnsaved, Complete
  <2>2. QED BY <1>6, <2>1 DEF Save, SaveUnsaved, GivesAnswer, Writes, Complete, Streaming
<1>7. ASSUME NEW r \in Requests,
             \/ AuditFails(r) \/ BeginOnDeleted(r) \/ Ask(r) \/ ModelFails(r)
             \/ ModelBreaks(r) \/ SaveOnDeleted(r) \/ Disconnect(r)
      PROVE  Shrinks
  BY <1>1, <1>7
     DEF AuditFails, BeginOnDeleted, Ask, ModelFails, ModelBreaks, SaveOnDeleted,
         Disconnect
<1>8. ASSUME NEW r \in Requests, NEW c \in Convs,
             OpenStream(r, c) \/ \E id \in SentIds : Reject(r, c, id)
      PROVE  Shrinks
  BY <1>1, <1>8 DEF OpenStream, Reject
<1>9. CASE UNCHANGED vars
  BY <1>1, <1>9 DEF vars
<1>10. QED
  BY <1>2, <1>3, <1>4, <1>5, <1>6, <1>7, <1>8, <1>9
     DEF Next, Arrive, Serve, Manage, Quiet

\* Every step moves requests on, or leaves them where they are.
LEMMA StepAdvances == ASSUME TypeOK, [Next]_vars PROVE Advances
<1> USE DEF GoTo, OpenAfterSave, TypeOK, Fresh
<1>1. ASSUME NEW r \in Requests, NEW phase, pc[r] \notin Ended, GoTo(r, phase),
             Fresh(r) \/ phase \notin {"idle", "opened"}
      PROVE  Advances
  BY <1>1 DEF Advances, Ended
<1>2. CASE UNCHANGED pc
  BY <1>2 DEF Advances
<1>3. ASSUME NEW r \in Requests, Arrive(r) PROVE Advances
  BY <1>1, <1>3 DEF Arrive, OpenStream, OpenStreamOnNew, OpenRegenerate, OpenEdit,
                    Reject, Ended
<1>4. ASSUME NEW r \in Requests, Serve(r) PROVE Advances
  BY <1>1, <1>4
     DEF Serve, AuditFails, Begin, BeginOnDeleted, BeginUnsaved, Ask, ModelFails,
         ModelBreaks, Save, SaveOnDeleted, SaveUnsaved, Complete, Ended
<1>5. ASSUME NEW r \in Requests, Disconnect(r) PROVE Advances
  BY <1>1, <1>5 DEF Disconnect, Streaming, Ended
<1>6. QED
  BY <1>2, <1>3, <1>4, <1>5
     DEF Next, Manage, Quiet, CreateConversation, DeleteConversation, vars

\* A message at a place of a conversation that was cut was at that place before.
LEMMA ShrunkMessages ==
  ASSUME TypeOK, TypeOK', Shrinks, NEW c \in Convs, Exists(c)',
         NEW i \in DOMAIN conv'[c]
  PROVE  Exists(c) /\ i \in DOMAIN conv[c] /\ conv'[c][i] = conv[c][i]
<1>1. conv'[c] \in Seq(Messages) /\ conv'[c] # <<>>
  BY EmptySeq, LenProperties DEF TypeOK, Exists
<1>2. Exists(c) /\ IsPrefix(conv'[c], conv[c])
  BY <1>1 DEF Shrinks
<1>3. conv[c] \in Seq(Messages)
  BY <1>2 DEF TypeOK, Exists
<1>4. QED
  BY <1>1, <1>2, <1>3, CutProperties, LenProperties

\* A message of a conversation that grew is the new one, at its end, or was there
\* before.
LEMMA GrownMessages ==
  ASSUME TypeOK, NEW r \in Requests, NEW m \in Messages, Writes(r, m),
         NEW c \in Convs, Exists(c)', NEW i \in DOMAIN conv'[c]
  PROVE  /\ Exists(c)
         /\ \/ i \in DOMAIN conv[c] /\ conv'[c][i] = conv[c][i]
            \/ /\ c = target[r] /\ conv'[c][i] = m
               /\ i = Len(conv[c]) + 1 /\ DOMAIN conv[c] = 1 .. Len(conv[c])
               /\ Len(conv[c]) \in Nat
<1>1. CASE c # target[r]
  BY <1>1 DEF Writes, Add, TypeOK, Exists
<1>2. CASE c = target[r]
  <2>1. conv[c] \in Seq(Messages) /\ conv'[c] = Append(conv[c], m) /\ Exists(c)
    BY <1>2 DEF Writes, Add, Added, TypeOK, Exists
  <2>2. QED BY <1>2, <2>1, AppendProperties, LenProperties
<1>3. QED BY <1>1, <1>2

\* Messages are written by requests that are far enough, and stay so.
LEMMA WrittenInductive ==
  ASSUME TypeOK, TypeOK', Bookkeeping, Written, [Next]_vars
  PROVE  Written'
<1>1. Advances
  BY StepAdvances
<1> DEFINE Authored(c, i, r) ==
             /\ conv[c][i] = Question(r) => ~Fresh(r)
             /\ conv[c][i] = Answer(r) => pc[r] \in {"done", "broken"}
<1>2. ASSUME NEW c \in Convs, Exists(c)', NEW i \in DOMAIN conv'[c],
             NEW r \in Requests
      PROVE  Authored(c, i, r)'
  <2>1. CASE Shrinks
    <3>1. Exists(c) /\ i \in DOMAIN conv[c] /\ conv'[c][i] = conv[c][i]
      BY <1>2, <2>1, ShrunkMessages
    <3>2. QED BY <1>1, <3>1 DEF Written, Advances, Question, Answer
  <2>2. ASSUME NEW q \in Requests, AsksQuestion(q) \/ GivesAnswer(q)
        PROVE  Authored(c, i, r)'
    <3>1. CASE i \in DOMAIN conv[c] /\ Exists(c) /\ conv'[c][i] = conv[c][i]
      BY <1>1, <3>1 DEF Written, Advances, Question, Answer
    <3>2. CASE conv'[c][i] = Question(q) /\ AsksQuestion(q)
      BY <3>2 DEF AsksQuestion, Question, Answer
    <3>3. CASE conv'[c][i] = Answer(q) /\ GivesAnswer(q)
      BY <3>3 DEF GivesAnswer, Question, Answer
    <3>4. QED
      BY <1>2, <2>2, <3>1, <3>2, <3>3, OwnMessages, GrownMessages
         DEF AsksQuestion, GivesAnswer
  <2>3. QED BY <2>1, <2>2, StepKinds
<1>3. ASSUME NEW r \in Requests PROVE (asks[r] = r \/ ~Fresh(asks[r]))'
  <2>1. CASE asks'[r] = asks[r]
    BY <1>1, <2>1 DEF Written, Advances, TypeOK
  <2>2. ASSUME NEW c \in Convs, NEW id \in SentIds, NEW q \in Requests,
               OpenRegenerate(q, c, id)
        PROVE  (asks[r] = r \/ ~Fresh(asks[r]))'
    <3>1. CASE q # r
      BY <2>1, <2>2, <3>1 DEF OpenRegenerate, TypeOK
    <3>2. CASE q = r
      <4>1. asks'[r] = AskedBefore(c, id) /\ CanRegenerate(c, id)
        BY <2>2, <3>2 DEF OpenRegenerate, TypeOK
      <4>2. AskedBefore(c, id) \in Requests /\ ~Fresh(AskedBefore(c, id))
        BY <4>1, AskedBeforeProperties DEF CanRegenerate, Written
      <4>3. QED BY <1>1, <4>1, <4>2 DEF Advances
    <3>3. QED BY <3>1, <3>2
  <2>3. asks' = asks \/ \E c \in Convs, id \in SentIds, q \in Requests :
                          OpenRegenerate(q, c, id)
    BY DEF Next, Arrive, Serve, Manage, Quiet, vars, CreateConversation,
           DeleteConversation, OpenStream, OpenStreamOnNew, OpenEdit, Reject,
           AuditFails, Begin, BeginOnDeleted, BeginUnsaved, Ask, ModelFails,
           ModelBreaks, Save, SaveOnDeleted, SaveUnsaved, Disconnect
  <2>4. QED BY <2>1, <2>2, <2>3
<1>4. QED BY <1>2, <1>3 DEF Written

\* Answers stay below their questions.
LEMMA OrderInductive ==
  ASSUME TypeOK, TypeOK', Bookkeeping, Written, QuestionBeforeAnswer, [Next]_vars
  PROVE  QuestionBeforeAnswer'
<1> SUFFICES ASSUME NEW c \in Convs, Exists(c)',
                    NEW i \in DOMAIN conv'[c], NEW j \in DOMAIN conv'[c],
                    NEW r \in Requests,
                    conv'[c][i] = Question(asks'[r]), conv'[c][j] = Answer(r)
             PROVE  i < j
  BY DEF QuestionBeforeAnswer, Question, Answer
<1>1. CASE Shrinks
  <2>1. /\ Exists(c) /\ i \in DOMAIN conv[c] /\ j \in DOMAIN conv[c]
        /\ conv'[c][i] = conv[c][i] /\ conv'[c][j] = conv[c][j]
    BY <1>1, ShrunkMessages
  <2>2. conv[c][j] = Answer(r)
    BY <2>1
  <2>3. ~Fresh(r)
    BY <2>1, <2>2 DEF Written, Fresh
  <2>4. asks'[r] = asks[r]
    BY <1>1, <2>3 DEF Shrinks
  <2>5. QED BY <2>1, <2>4 DEF QuestionBeforeAnswer
<1>2. ASSUME NEW q \in Requests, AsksQuestion(q) PROVE i < j
  <2>1. asks' = asks /\ Fresh(q)
    BY <1>2 DEF AsksQuestion, Writes, Fresh
  <2>2. Question(q) # Answer(r)
    BY DEF Question, Answer
  <2>3. Exists(c) /\ j \in DOMAIN conv[c] /\ conv'[c][j] = conv[c][j]
    BY <1>2, <2>2, OwnMessages, GrownMessages DEF AsksQuestion
  <2>4. ~Fresh(r)
    BY <2>3 DEF Written, Fresh
  <2>5. asks[r] # q
    BY <2>1, <2>4 DEF Written
  <2>6. Question(asks'[r]) # Question(q)
    BY <2>1, <2>5 DEF Question
  <2>7. i \in DOMAIN conv[c] /\ conv'[c][i] = conv[c][i]
    BY <1>2, <2>6, OwnMessages, GrownMessages DEF AsksQuestion
  <2>8. QED BY <2>1, <2>3, <2>7 DEF QuestionBeforeAnswer
<1>3. ASSUME NEW q \in Requests, GivesAnswer(q) PROVE i < j
  <2>1. asks' = asks /\ Question(asks'[r]) # Answer(q)
    BY <1>3 DEF GivesAnswer, Writes, Question, Answer
  <2>2. Exists(c) /\ i \in DOMAIN conv[c] /\ conv'[c][i] = conv[c][i]
    BY <1>3, <2>1, OwnMessages, GrownMessages DEF GivesAnswer
  <2>3. CASE j \in DOMAIN conv[c] /\ conv'[c][j] = conv[c][j]
    BY <2>1, <2>2, <2>3 DEF QuestionBeforeAnswer
  <2>4. CASE /\ j = Len(conv[c]) + 1 /\ DOMAIN conv[c] = 1 .. Len(conv[c])
             /\ Len(conv[c]) \in Nat
    BY <2>2, <2>4
  <2>5. QED BY <1>3, <2>3, <2>4, OwnMessages, GrownMessages DEF GivesAnswer
<1>4. QED BY <1>1, <1>2, <1>3, StepKinds

\* The conversation and the question of a request are settled when it arrives, the
\* guardrails' decision before it starts.
LEMMA RequestFrame ==
  ASSUME TypeOK, [Next]_vars, NEW r \in Requests, pc[r] # "idle"
  PROVE  /\ target'[r] = target[r] /\ asks'[r] = asks[r]
         /\ ~Fresh(r) => decision'[r] = decision[r]
<1> USE DEF GoTo, OpenAfterSave, TypeOK, Fresh
<1>1. ASSUME NEW q \in Requests, Arrive(q)
      PROVE  target'[r] = target[r] /\ asks'[r] = asks[r] /\ decision' = decision
  BY <1>1 DEF Arrive, OpenStream, OpenStreamOnNew, OpenRegenerate, OpenEdit, Reject
<1>2. ASSUME NEW q \in Requests, Serve(q)
      PROVE  /\ UNCHANGED <<target, asks>>
             /\ decision' = decision \/ pc[q] = "opened"
             /\ \A p \in Requests \ {q} : decision'[p] = decision[p]
  BY <1>2 DEF Serve, AuditFails, Begin, BeginOnDeleted, BeginUnsaved, Ask, ModelFails,
              ModelBreaks, Save, SaveOnDeleted, SaveUnsaved
<1>3. ASSUME NEW q \in Requests, Disconnect(q)
      PROVE  UNCHANGED <<target, asks, decision>>
  BY <1>3 DEF Disconnect
<1>4. CASE Manage \/ UNCHANGED vars
  BY <1>4 DEF Manage, CreateConversation, DeleteConversation, vars
<1>5. QED BY <1>1, <1>2, <1>3, <1>4 DEF Next, Quiet

\* Turns are handed over when the model is asked.
LEMMA OnlyAskHandsOver ==
  ASSUME [Next]_vars
  PROVE  turns' = turns \/ \E r \in Requests : Ask(r)
<1>1. ASSUME NEW q \in Requests, Arrive(q) PROVE turns' = turns
  BY <1>1 DEF Arrive, OpenStream, OpenStreamOnNew, OpenRegenerate, OpenEdit, Reject
<1>2. ASSUME NEW q \in Requests, Serve(q), ~Ask(q) PROVE turns' = turns
  BY <1>2 DEF Serve, AuditFails, Begin, BeginOnDeleted, BeginUnsaved, ModelFails,
              ModelBreaks, Save, SaveOnDeleted, SaveUnsaved
<1>3. ASSUME NEW q \in Requests, Disconnect(q) PROVE turns' = turns
  BY <1>3 DEF Disconnect
<1>4. CASE Manage \/ UNCHANGED vars
  BY <1>4 DEF Manage, CreateConversation, DeleteConversation, vars
<1>5. QED BY <1>1, <1>2, <1>3, <1>4 DEF Next, Quiet

\* Since an answer is in the conversation once and below its question, it is told once
\* and below it: the prompt overwrites the last turn only, and no answer.
LEMMA AskTellsAnswers ==
  ASSUME TypeOK, Bookkeeping, OneAnswerPerRequest, QuestionBeforeAnswer,
         NEW r \in Requests, Ask(r), NEW q \in Requests, Answer(q) \in Shown(target[r])
  PROVE  \E j \in DOMAIN turns'[r] :
           /\ Tellings(turns'[r], Answer(q)) = {j}
           /\ Question(asks[q]) \in Shown(target[r]) =>
                \E i \in Tellings(turns'[r], Question(asks[q])) : i < j
<1> DEFINE c == target[r]
           msgs == History(c)
           ts == PromptTurns(r)
<1>1. c \in Convs /\ turns'[r] = ts
  BY TargetKnown DEF Ask, TypeOK
<1>2. /\ msgs \in Seq(Messages)
      /\ \A i \in 1 .. Len(msgs) : (i < Len(msgs) \/ msgs[i].role # "user") =>
           i \in DOMAIN ts /\ ts[i].text = msgs[i].id
      /\ \A i \in DOMAIN ts :
           \/ ts[i] = Prompt(r)
           \/ i \in 1 .. Len(msgs) /\ ts[i].text = msgs[i].id
  BY <1>1, PromptTurnsProperties
<1>3. Exists(c) /\ msgs = conv[c]
  BY EmptySeq DEF Shown, Range, History
<1> HIDE DEF ts, msgs, c
<1>4. DOMAIN msgs = 1 .. Len(msgs) /\ Len(msgs) \in Nat
  BY <1>2, LenProperties
<1>5. \A m : m \in Shown(c) => \E i \in DOMAIN msgs : msgs[i] = m
  BY DEF Shown, Range, msgs
<1>6. PICK j \in DOMAIN msgs : msgs[j] = Answer(q)
  BY <1>5 DEF c
<1>7. j \in DOMAIN ts /\ ts[j].text = Answer(q).id
  BY <1>2, <1>4, <1>6 DEF Answer
<1>8. ASSUME NEW k \in DOMAIN ts, ts[k].text = Answer(q).id PROVE k = j
  <2>1. ts[k] # Prompt(r)
    BY <1>8 DEF Prompt, Question, Answer
  <2>2. k \in DOMAIN msgs /\ msgs[k].id = Answer(q).id
    BY <1>2, <1>4, <1>8, <2>1
  <2>3. msgs[k] \in Messages
    BY <1>2, <1>4, <2>2, ElementOfSeq
  <2>4. msgs[k] = Answer(q)
    BY <2>2, <2>3, Authorship DEF Question, Answer
  <2>5. QED BY <1>1, <1>3, <1>6, <2>2, <2>4 DEF OneAnswerPerRequest
<1>9. ASSUME Question(asks[q]) \in Shown(c)
      PROVE  \E i \in Tellings(ts, Question(asks[q])) : i < j
  <2>1. PICK i \in DOMAIN msgs : msgs[i] = Question(asks[q])
    BY <1>5, <1>9
  <2>2. i < j
    BY <1>1, <1>3, <1>6, <2>1 DEF QuestionBeforeAnswer
  <2>3. i \in DOMAIN ts /\ ts[i].text = Question(asks[q]).id
    BY <1>2, <1>4, <2>1, <2>2
  <2>4. QED BY <2>2, <2>3 DEF Tellings
<1>10. Tellings(ts, Answer(q)) = {j}
  BY <1>7, <1>8 DEF Tellings
<1>11. QED BY <1>1, <1>7, <1>9, <1>10 DEF c

\* Only a deletion makes a stream end in a KeyError.
LEMMA LostInductive ==
  ASSUME TypeOK, Bookkeeping, LostOnlyWhenDeleted, [Next]_vars
  PROVE  LostOnlyWhenDeleted' /\ (\A c \in born : ~Exists(c) => ~Exists(c)')
<1> USE DEF GoTo, OpenAfterSave, TypeOK, Exists
<1>1. born \subseteq born' /\ \A c \in born : ~Exists(c) => ~Exists(c)'
  <2>1. ASSUME NEW r \in Requests, Arrive(r)
        PROVE  born \subseteq born' /\ \A c \in born : ~Exists(c) => ~Exists(c)'
    BY <2>1 DEF Arrive, OpenStream, OpenStreamOnNew, OpenRegenerate, CanRegenerate,
                OpenEdit, Reject
  <2>2. CASE Manage \/ Quiet \/ UNCHANGED vars
    BY <2>2 DEF Manage, CreateConversation, DeleteConversation, Quiet, vars
  <2>3. ASSUME NEW r \in Requests, Begin(r) \/ BeginUnsaved(r) \/ Save(r) \/ SaveUnsaved(r)
        PROVE  born' = born /\ \A c \in born : ~Exists(c) => ~Exists(c)'
    BY <2>3 DEF Begin, BeginUnsaved, Save, SaveUnsaved, Add
  <2>4. ASSUME NEW r \in Requests,
               \/ AuditFails(r) \/ BeginOnDeleted(r) \/ Ask(r) \/ ModelFails(r)
               \/ ModelBreaks(r) \/ SaveOnDeleted(r) \/ Disconnect(r)
        PROVE  born' = born /\ conv' = conv
    BY <2>4 DEF AuditFails, BeginOnDeleted, Ask, ModelFails, ModelBreaks,
                SaveOnDeleted, Disconnect
  <2>5. ASSUME NEW r \in Requests, Serve(r) \/ Disconnect(r)
        PROVE  born \subseteq born' /\ \A c \in born : ~Exists(c) => ~Exists(c)'
    BY <2>3, <2>4, <2>5 DEF Serve
  <2>6. QED BY <2>1, <2>2, <2>5 DEF Next
<1>2. ASSUME NEW r \in Requests, pc'[r] = "lost"
      PROVE  (target[r] \in born /\ ~Exists(target[r]))'
  <2>1. CASE BeginOnDeleted(r) \/ SaveOnDeleted(r)
    BY <2>1 DEF BeginOnDeleted, SaveOnDeleted, Complete, Bookkeeping
  <2>2. CASE pc[r] = "lost"
    <3>1. target'[r] = target[r]
      BY <2>2, RequestFrame
    <3>2. target[r] \in born /\ ~Exists(target[r])
      BY <2>2 DEF LostOnlyWhenDeleted
    <3>3. QED BY <1>1, <3>1, <3>2
  <2>3. \/ BeginOnDeleted(r) \/ SaveOnDeleted(r)
        \/ pc[r] = "lost"
    <3>1. ASSUME NEW q \in Requests, Arrive(q), pc[r] # "lost" PROVE pc'[r] # "lost"
      BY <3>1 DEF Arrive, OpenStream, OpenStreamOnNew, OpenRegenerate, OpenEdit, Reject
    <3>2. ASSUME NEW q \in Requests, Serve(q), pc[r] # "lost", pc'[r] = "lost"
          PROVE  BeginOnDeleted(r) \/ SaveOnDeleted(r)
      BY <3>2 DEF Serve, AuditFails, Begin, BeginOnDeleted, BeginUnsaved, Ask,
                  ModelFails, ModelBreaks, Save, SaveOnDeleted, SaveUnsaved
    <3>3. ASSUME NEW q \in Requests, Disconnect(q), pc[r] # "lost" PROVE pc'[r] # "lost"
      BY <3>3 DEF Disconnect
    <3>4. CASE Manage \/ UNCHANGED vars
      BY <1>2, <3>4 DEF Manage, CreateConversation, DeleteConversation, vars
    <3>5. QED BY <1>2, <3>1, <3>2, <3>3, <3>4 DEF Next, Quiet
  <2>4. QED BY <2>1, <2>2, <2>3
<1>3. LostOnlyWhenDeleted'
  BY <1>2 DEF LostOnlyWhenDeleted
<1>4. QED BY <1>1, <1>3

\* No request writes a message twice, or into two conversations.
LEMMA OneAnswerInductive ==
  ASSUME TypeOK, TypeOK', Bookkeeping, Written, Written', OneAnswerPerRequest,
         [Next]_vars
  PROVE  OneAnswerPerRequest'
<1> SUFFICES ASSUME NEW c \in Convs, Exists(c)', NEW i \in DOMAIN conv'[c]
             PROVE  /\ target'[conv'[c][i].id[1]] = c
                    /\ conv'[c][i] = Answer(conv'[c][i].id[1]) =>
                         pc'[conv'[c][i].id[1]] \in {"done", "broken"}
                    /\ \A j \in DOMAIN conv'[c] : conv'[c][j] = conv'[c][i] => j = i
  BY DEF OneAnswerPerRequest, Answer
<1> DEFINE m == conv'[c][i]
           a == m.id[1]
<1>1. m \in Messages
  BY ElementOfSeq, LenProperties DEF TypeOK, Exists
<1>2. a \in Requests /\ (m = Question(a) \/ m = Answer(a))
  BY <1>1, Authorship
<1> HIDE DEF a, m
<1>3. m = Answer(a) => pc'[a] \in {"done", "broken"}
  BY <1>2 DEF Written, Answer, Question, m
<1>4. CASE Shrinks
  <2>1. Exists(c) /\ i \in DOMAIN conv[c] /\ conv[c][i] = m
        /\ \A j \in DOMAIN conv'[c] : j \in DOMAIN conv[c] /\ conv'[c][j] = conv[c][j]
    BY <1>4, ShrunkMessages DEF m
  <2>2. target[a] = c /\ \A j \in DOMAIN conv[c] : conv[c][j] = m => j = i
    BY <2>1 DEF OneAnswerPerRequest, a
  <2>3. ~Fresh(a)
    BY <1>2, <2>1 DEF Written, Fresh
  <2>4. target'[a] = c
    BY <1>2, <2>2, <2>3, RequestFrame DEF Fresh
  <2>5. QED BY <1>3, <2>1, <2>2, <2>4 DEF a, m
<1>5. ASSUME NEW q \in Requests, NEW n \in {Question(q), Answer(q)}, Writes(q, n),
             AsksQuestion(q) \/ GivesAnswer(q),
             \A d \in Convs : Exists(d) => \A k \in DOMAIN conv[d] : conv[d][k] # n
      PROVE  target'[a] = c /\ \A j \in DOMAIN conv'[c] : conv'[c][j] = m => j = i
  <2>1. n \in Messages
    BY OwnMessages
  <2>2. Exists(c)
    BY <1>5, <2>1, GrownMessages
  <2>3. \A j \in DOMAIN conv'[c] :
          \/ j \in DOMAIN conv[c] /\ conv'[c][j] = conv[c][j] /\ conv'[c][j] # n
          \/ j = Len(conv[c]) + 1 /\ c = target[q] /\ conv'[c][j] = n
    BY <1>5, <2>1, <2>2, GrownMessages
  <2>4. CASE i \in DOMAIN conv[c] /\ m = conv[c][i] /\ m # n
    <3>1. target[a] = c /\ \A j \in DOMAIN conv[c] : conv[c][j] = m => j = i
      BY <2>2, <2>4 DEF OneAnswerPerRequest, a
    <3>2. ~Fresh(a)
      BY <1>2, <2>2, <2>4 DEF Written, Fresh
    <3>3. target'[a] = c
      BY <1>2, <3>1, <3>2, RequestFrame DEF Fresh
    <3>4. QED BY <2>3, <2>4, <3>1, <3>3
  <2>5. CASE i = Len(conv[c]) + 1 /\ c = target[q] /\ m = n
    <3>1. a = q
      BY <2>5 DEF a, Question, Answer
    <3>2. pc[q] # "idle"
      BY <1>5 DEF AsksQuestion, GivesAnswer, Streaming
    <3>3. target'[a] = c
      BY <2>5, <3>1, <3>2, RequestFrame
    <3>4. QED BY <2>3, <2>5, <3>3
  <2>6. QED BY <2>3, <2>4, <2>5 DEF m
<1>6. ASSUME NEW q \in Requests, AsksQuestion(q) \/ GivesAnswer(q)
      PROVE  target'[a] = c /\ \A j \in DOMAIN conv'[c] : conv'[c][j] = m => j = i
  <2>1. CASE AsksQuestion(q)
    BY <1>5, <2>1 DEF AsksQuestion, Written, Fresh
  <2>2. CASE GivesAnswer(q)
    <3>1. pc[q] \notin {"done", "broken"}
      BY <2>2 DEF GivesAnswer, Streaming
    <3>2. QED BY <1>5, <2>2, <3>1 DEF GivesAnswer, Written
  <2>3. QED BY <1>6, <2>1, <2>2
<1>7. QED BY <1>3, <1>4, <1>6, StepKinds DEF a, m

\* A step that takes a request to done saves its answer.
LEMMA DoneSaves ==
  ASSUME TypeOK, TypeOK', Bookkeeping, [Next]_vars, NEW r \in Requests,
         pc[r] # "done", pc'[r] = "done"
  PROVE  Answer(r) \in Shown(target[r])'
<1> USE DEF GoTo, OpenAfterSave, TypeOK
<1>1. Save(r)
  <2>1. ASSUME NEW q \in Requests, Arrive(q) PROVE pc'[r] # "done"
    <3>1. \E phase \in {"opened", "broken", "rejected"} : pc' = [pc EXCEPT ![q] = phase]
      BY <2>1 DEF Arrive, OpenStream, OpenStreamOnNew, OpenRegenerate, OpenEdit, Reject
    <3>2. QED BY <3>1
  <2>2. ASSUME NEW q \in Requests, Serve(q) PROVE Save(r)
    BY <2>2 DEF Serve, AuditFails, Begin, BeginOnDeleted, BeginUnsaved, Ask,
                ModelFails, ModelBreaks, Save, SaveOnDeleted, SaveUnsaved
  <2>3. ASSUME NEW q \in Requests, Disconnect(q) PROVE pc'[r] # "done"
    BY <2>3 DEF Disconnect
  <2>4. CASE Manage \/ UNCHANGED vars
    BY <2>4 DEF Manage, CreateConversation, DeleteConversation, vars
  <2>5. QED BY <2>1, <2>2, <2>3, <2>4 DEF Next, Quiet
<1> DEFINE c == target[r]
<1>2. c \in Convs /\ c # Absent /\ target' = target
  BY <1>1, TargetKnown, RequestsAssumption DEF Save, Complete
<1>3. conv[c] \in Seq(Messages) /\ conv'[c] = Append(conv[c], Answer(r))
  BY <1>1, <1>2 DEF Save, Add, Added, Exists
<1>4. Answer(r) \in Messages
  BY OwnMessages
<1> DEFINE old == conv[c]
           new == Append(old, Answer(r))
<1>5. /\ new \in Seq(Messages)
      /\ Len(new) \in DOMAIN new /\ new[Len(new)] = Answer(r)
  <2>1. old \in Seq(Messages)
    BY <1>3
  <2> HIDE DEF old
  <2>2. QED BY <1>4, <2>1, AppendProperties, LenProperties
<1>6. conv'[c] = new
  BY <1>3
<1>7. new # Absent
  BY <1>5, AbsentAssumption
<1> HIDE DEF new
<1>8. Answer(r) \in Range(new)
  BY <1>5 DEF Range
<1>9. QED BY <1>2, <1>6, <1>7, <1>8 DEF Shown, History, Exists, Answer

\* The inductive invariant holds at first, and every step keeps it.
LEMMA InitiallyIInv == Init => IInv
BY EmptySeq
   DEF Init, IInv, TypeOK, Bookkeeping, Written,
       OneAnswerPerRequest, QuestionBeforeAnswer, LostOnlyWhenDeleted, Exists, Fresh,
       Phases, Kinds

LEMMA StepKeepsIInv == ASSUME IInv, [Next]_vars PROVE IInv'
<1> USE DEF IInv
<1>1. TypeOK' /\ Bookkeeping'
  BY TypeInductive, BookkeepingInductive
<1>2. Written'
  BY <1>1, WrittenInductive
<1>3. OneAnswerPerRequest' /\ QuestionBeforeAnswer' /\ LostOnlyWhenDeleted'
  BY <1>1, <1>2, OneAnswerInductive, OrderInductive, LostInductive
<1>4. QED BY <1>1, <1>2, <1>3

LEMMA Invariance == Spec => []IInv
BY InitiallyIInv, StepKeepsIInv, PTL DEF Spec

-----------------------------------------------------------------------------
(* The results.                                                             *)

\* The engine's variables always have their types.
THEOREM EngineTypeCorrect == Spec => []TypeOK
BY Invariance, PTL DEF IInv

\* The model is told every answer of the conversation, once and below its question, for
\* any number of requests on a conversation, however they interleave.
THEOREM EngineTellsAnswers == Spec => AnswersAreTold
<1>1. IInv /\ [Next]_vars =>
        [\A r \in Requests : turns'[r] # turns[r] =>
           \A q \in Requests : Answer(q) \in Shown(target[r]) =>
             \E j \in DOMAIN turns'[r] :
               /\ Tellings(turns'[r], Answer(q)) = {j}
               /\ Question(asks[q]) \in Shown(target[r]) =>
                    \E i \in Tellings(turns'[r], Question(asks[q])) : i < j]_vars
  <2>1. ASSUME IInv, [Next]_vars, NEW r \in Requests, turns'[r] # turns[r] PROVE Ask(r)
    <3>1. PICK p \in Requests : Ask(p)
      BY <2>1, OnlyAskHandsOver
    <3>2. p = r
      BY <2>1, <3>1 DEF Ask, IInv, TypeOK
    <3>3. QED BY <3>1, <3>2
  <2>2. QED BY <2>1, AskTellsAnswers DEF IInv
<1>2. QED BY <1>1, Invariance, PTL DEF Spec, AnswersAreTold

\* No request leaves two answers, or one in a conversation that is not its own, and
\* no answer stands above its question.
THEOREM EngineKeepsAnswersInPlace == Spec => []AnswersInPlace
<1>1. IInv => AnswersInPlace
  BY DEF IInv, AnswersInPlace
<1>2. QED BY <1>1, Invariance, PTL

\* Only a deletion loses a stream.
THEOREM EngineLosesOnlyDeleted == Spec => []LostOnlyWhenDeleted
BY Invariance, PTL DEF IInv

\* No stream brings a deleted conversation back.
THEOREM EngineNeverResurrects == Spec => DeletedStaysDeleted
<1>1. IInv /\ [Next]_vars => [\A c \in born : ~Exists(c) => ~Exists(c)']_vars
  BY LostInductive DEF IInv
<1>2. QED BY <1>1, Invariance, PTL DEF Spec, DeletedStaysDeleted

\* done is sent only for an answer that is in the conversation.
THEOREM EngineSavesBeforeDone == Spec => DoneMeansSaved
<1>1. IInv /\ IInv' /\ [Next]_vars =>
        [\A r \in Requests :
           (pc[r] # "done" /\ pc'[r] = "done") => Answer(r) \in Shown(target[r])']_vars
  BY DoneSaves DEF IInv
<1>2. QED BY <1>1, Invariance, PTL DEF Spec, DoneMeansSaved

-----------------------------------------------------------------------------
(* Clients that keep to docs/API.md.                                        *)

\* Of each conversation one stream at a time is served, ...
OneStream ==
  \A r, q \in Requests :
    (pc[r] \in Streaming /\ pc[q] \in Streaming /\ target[r] = target[q]) => r = q

\* ... a request that will write its question answers that one, ...
OwnWords ==
  \A r \in Requests :
    /\ pc[r] = "idle" => kind[r] = "none"
    /\ (Fresh(r) /\ kind[r] # "regenerate") => asks[r] = r

\* ... and from the time when it stands in the conversation until it is answered,
\* the question is the last message.
UnderItsQuestion ==
  \A r \in Requests :
    /\ pc[r] \in Streaming /\ (pc[r] # "opened" \/ kind[r] = "regenerate")
    /\ Exists(target[r])
    => conv[target[r]] # <<>> /\ Last(conv[target[r]]) = Question(asks[r])

Served ==
  /\ OneStream /\ OwnWords /\ UnderItsQuestion
  /\ AnswersFollowTheirQuestions /\ ModelSeesTheConversation

\* What can happen when every client is a documented one.
DocumentedNext ==
  \/ \E r \in Requests : DocumentedArrive(r) \/ Serve(r) \/ Disconnect(r)
  \/ Manage
  \/ Quiet

LEMMA DocumentedIsNext == ASSUME [DocumentedNext]_vars PROVE [Next]_vars
<1>1. ASSUME NEW r \in Requests, DocumentedArrive(r) PROVE Arrive(r)
  <2>1. \A q \in Requests : <<q, "assistant">> \in SentIds /\ <<q, "user">> \in SentIds
    BY DEF SentIds, MessageIds, Roles
  <2>2. QED BY <1>1, <2>1 DEF DocumentedArrive, Arrive
<1>2. QED BY <1>1 DEF DocumentedNext, Next

\* Cutting an answer off leaves its question at the end, and that is the question
\* that is answered again.
LEMMA CutToTheQuestion ==
  ASSUME TypeOK, AnswersFollowTheirQuestions, NEW c \in Convs, NEW q \in Requests,
         CanRegenerate(c, <<q, "assistant">>)
  PROVE  LET cut == Truncated(conv[c], <<q, "assistant">>, TRUE)
         IN  cut # <<>> /\ Last(cut) = Question(AskedBefore(c, <<q, "assistant">>))
<1> DEFINE id == <<q, "assistant">>
           msgs == conv[c]
           p == PositionOf(msgs, id)
           U == UserTurnsBefore(msgs, id)
<1>1. msgs \in Seq(Messages) /\ Holds(msgs, id)
  BY DEF TypeOK, CanRegenerate, Exists
<1>2. Len(msgs) \in Nat /\ DOMAIN msgs = 1 .. Len(msgs)
  BY <1>1, LenProperties
<1>3. p \in 1 .. Len(msgs) /\ msgs[p].id = id
  BY <1>1, PositionProperties
<1>4. msgs[p] \in Messages
  BY <1>1, <1>3, ElementOfSeq
<1>5. msgs[p].role = "assistant" /\ msgs[p].id[1] = q
  <2>1. PICK a \in Requests, role \in Roles : msgs[p] = [id |-> <<a, role>>, role |-> role]
    BY <1>4 DEF Messages
  <2>2. <<a, role>> = <<q, "assistant">>
    BY <1>3, <2>1
  <2>3. QED BY <2>1, <2>2
<1>6. p > 1 /\ msgs[p - 1] = Question(asks[q])
  BY <1>2, <1>3, <1>5 DEF AnswersFollowTheirQuestions, CanRegenerate
<1>7. Truncated(msgs, id, TRUE) = SubSeq(msgs, 1, p - 1)
  BY <1>1 DEF Truncated
<1>8. Max(U) = p - 1
  <2>1. U = {i \in 1 .. Len(msgs) : msgs[i].role = "user" /\ i < p}
    BY <1>2 DEF UserTurnsBefore, UserTurns
  <2>2. p - 1 \in U
    BY <1>2, <1>3, <1>6, <2>1 DEF Question
  <2>3. U \in SUBSET (0 .. Len(msgs)) /\ U # {}
    BY <1>2, <2>1, <2>2
  <2> HIDE DEF U
  <2>4. Max(U) \in U /\ p - 1 <= Max(U)
    BY <1>2, <2>2, <2>3, MaxProperties
  <2>5. QED BY <1>2, <1>3, <2>1, <2>4
<1>9. AskedBefore(c, id) = asks[q]
  BY <1>6, <1>8 DEF AskedBefore, Question
<1>10. Last(SubSeq(msgs, 1, p - 1)) = msgs[p - 1] /\ SubSeq(msgs, 1, p - 1) # <<>>
  <2> HIDE DEF msgs, p
  <2>1. /\ Len(SubSeq(msgs, 1, p - 1)) = p - 1
        /\ \A j \in 1 .. p - 1 : SubSeq(msgs, 1, p - 1)[j] = msgs[j]
    BY <1>1, <1>2, <1>3, <1>6, SubSeqProperties
  <2>2. QED BY <1>2, <1>3, <1>6, <2>1 DEF Last
<1>11. QED BY <1>6, <1>7, <1>9, <1>10

\* A stream that goes on finds its conversation as it was, or as it has itself added
\* its question to it.
LEMMA StreamGoesOn ==
  ASSUME TypeOK, Bookkeeping, OneStream, [DocumentedNext]_vars,
         NEW r \in Requests, pc[r] \in Streaming, pc'[r] \in Streaming
  PROVE  /\ target'[r] = target[r] /\ asks'[r] = asks[r] /\ kind'[r] = kind[r]
         /\ turns'[r] = turns[r] \/ Ask(r)
         /\ pc'[r] = "asking" => pc[r] = "asking" \/ Ask(r)
         /\ pc'[r] = "opened" => pc[r] = "opened"
         /\ Exists(target[r])' =>
              /\ Exists(target[r])
              /\ \/ /\ conv'[target[r]] = conv[target[r]]
                    /\ pc[r] = "opened" => pc'[r] = "opened" \/ kind[r] = "regenerate"
                 \/ /\ pc[r] = "opened" /\ pc'[r] = "started" /\ kind[r] # "regenerate"
                    /\ conv'[target[r]] = Append(conv[target[r]], Question(r))
<1> DEFINE GoesOn ==
      /\ target'[r] = target[r] /\ asks'[r] = asks[r] /\ kind'[r] = kind[r]
      /\ turns'[r] = turns[r] \/ Ask(r)
      /\ pc'[r] = "asking" => pc[r] = "asking" \/ Ask(r)
      /\ pc'[r] = "opened" => pc[r] = "opened"
      /\ Exists(target[r])' =>
           /\ Exists(target[r])
           /\ \/ /\ conv'[target[r]] = conv[target[r]]
                 /\ pc[r] = "opened" => pc'[r] = "opened" \/ kind[r] = "regenerate"
              \/ /\ pc[r] = "opened" /\ pc'[r] = "started" /\ kind[r] # "regenerate"
                 /\ conv'[target[r]] = Append(conv[target[r]], Question(r))
<1> SUFFICES GoesOn
  OBVIOUS
<1>0. target[r] \in Convs /\ target[r] \in born /\ pc[r] \notin Ended \cup {"idle"}
  BY DEF TypeOK, Bookkeeping, Streaming, Ended
<1> USE DEF GoTo, OpenAfterSave, TypeOK, Exists
<1>1. ASSUME NEW c \in Convs, CreateConversation(c) \/ DeleteConversation(c)
      PROVE  GoesOn
  BY <1>0, <1>1 DEF CreateConversation, DeleteConversation
<1>2. ASSUME NEW q \in Requests, NEW c \in Convs,
             OpenStreamOnNew(q, c) \/ OpenStream(q, c) \/ \E id : Reject(q, c, id)
      PROVE  GoesOn
  BY <1>0, <1>2 DEF OpenStreamOnNew, OpenStream, Reject
<1>3. ASSUME NEW q \in Requests, NEW c \in Convs, NEW id, Unserved(c),
             OpenRegenerate(q, c, id) \/ OpenEdit(q, c, id)
      PROVE  GoesOn
  <2>1. target[r] # c /\ q # r
    BY <1>0, <1>3 DEF Unserved, OpenRegenerate, OpenEdit
  <2>2. CASE OpenRegenerate(q, c, id)
    BY <1>0, <2>1, <2>2 DEF OpenRegenerate
  <2>3. CASE OpenEdit(q, c, id)
    BY <1>0, <2>1, <2>3 DEF OpenEdit
  <2>4. QED BY <1>3, <2>2, <2>3
<1>4. ASSUME NEW q \in Requests, Begin(q) PROVE GoesOn
  <2>1. pc[q] \in Streaming
    BY <1>4 DEF Begin, Streaming
  <2>2. CASE q = r
    BY <1>0, <1>4, <2>2 DEF Begin, Persists, Add, Added
  <2>3. CASE q # r
    <3>1. target[q] # target[r]
      BY <2>1, <2>3 DEF OneStream
    <3>2. QED BY <1>0, <1>4, <2>3, <3>1 DEF Begin, Add
  <2>4. QED BY <2>2, <2>3
<1>5. ASSUME NEW q \in Requests, BeginUnsaved(q) \/ Save(q) \/ SaveUnsaved(q)
      PROVE  GoesOn
  <2>1. pc[q] \in Streaming
    BY <1>5 DEF BeginUnsaved, Save, SaveUnsaved, Complete, Streaming
  <2>2. q # r
    BY <1>5 DEF BeginUnsaved, Save, SaveUnsaved, Streaming
  <2>3. target[q] # target[r]
    BY <2>1, <2>2 DEF OneStream
  <2>4. QED BY <1>0, <1>5, <2>2, <2>3 DEF BeginUnsaved, Save, SaveUnsaved, Add
<1>6. ASSUME NEW q \in Requests, Ask(q) PROVE GoesOn
  BY <1>0, <1>6 DEF Ask
<1>7. ASSUME NEW q \in Requests,
             \/ AuditFails(q) \/ BeginOnDeleted(q) \/ ModelFails(q)
             \/ ModelBreaks(q) \/ SaveOnDeleted(q) \/ Disconnect(q)
      PROVE  GoesOn
  BY <1>0, <1>7
     DEF AuditFails, BeginOnDeleted, ModelFails, ModelBreaks, SaveOnDeleted, Disconnect,
         Streaming, Complete
<1>8. CASE UNCHANGED vars
  BY <1>8 DEF vars
<1>9. QED
  BY <1>1, <1>2, <1>3, <1>4, <1>5, <1>6, <1>7, <1>8
     DEF DocumentedNext, DocumentedArrive, Serve, Manage, Quiet

\* A stream begins with a request that arrives.
LEMMA StreamBegins ==
  ASSUME TypeOK, [DocumentedNext]_vars,
         NEW r \in Requests, pc[r] \notin Streaming, pc'[r] \in Streaming
  PROVE  /\ DocumentedArrive(r)
         /\ pc[r] = "idle" /\ pc'[r] = "opened"
<1> USE DEF GoTo, OpenAfterSave, TypeOK, Streaming
<1>1. ASSUME NEW q \in Requests, DocumentedArrive(q)
      PROVE  r = q /\ pc[q] = "idle" /\ pc'[q] = "opened"
  BY <1>1 DEF DocumentedArrive, OpenStream, OpenStreamOnNew, OpenRegenerate, OpenEdit, Reject
<1>2. ASSUME NEW q \in Requests, Serve(q) PROVE FALSE
  BY <1>2 DEF Serve, AuditFails, Begin, BeginOnDeleted, BeginUnsaved, Ask, ModelFails,
              ModelBreaks, Save, SaveOnDeleted, SaveUnsaved, Complete
<1>3. ASSUME NEW q \in Requests, Disconnect(q) PROVE FALSE
  BY <1>3 DEF Disconnect
<1>4. CASE Manage \/ Quiet \/ UNCHANGED vars
  BY <1>4 DEF Manage, CreateConversation, DeleteConversation, Quiet, vars
<1>5. QED BY <1>1, <1>2, <1>3, <1>4 DEF DocumentedNext

LEMMA OneStreamInductive ==
  ASSUME TypeOK, Bookkeeping, OneStream, [DocumentedNext]_vars
  PROVE  OneStream'
<1>1. ASSUME NEW r \in Requests, NEW q \in Requests, r # q,
             pc[r] \notin Streaming, pc'[r] \in Streaming, pc'[q] \in Streaming
      PROVE  target'[r] # target'[q]
  <2>1. DocumentedArrive(r)
    BY <1>1, StreamBegins
  <2>2. pc[q] = pc'[q] /\ target'[q] = target[q]
    <3> USE DEF GoTo, OpenAfterSave, TypeOK
    <3>1. ASSUME NEW c \in Convs, OpenStream(r, c) \/ OpenStreamOnNew(r, c)
          PROVE  pc[q] = pc'[q] /\ target'[q] = target[q]
      BY <1>1, <3>1 DEF OpenStream, OpenStreamOnNew
    <3>2. ASSUME NEW c \in Convs, NEW id, OpenRegenerate(r, c, id) \/ Reject(r, c, id)
          PROVE  pc[q] = pc'[q] /\ target'[q] = target[q]
      BY <1>1, <3>2 DEF OpenRegenerate, Reject
    <3>3. ASSUME NEW c \in Convs, NEW id, OpenEdit(r, c, id)
          PROVE  pc[q] = pc'[q] /\ target'[q] = target[q]
      BY <1>1, <3>3 DEF OpenEdit
    <3>4. QED BY <2>1, <3>1, <3>2, <3>3 DEF DocumentedArrive
  <2>3. target[q] \in born
    BY <1>1, <2>2 DEF Bookkeeping, Streaming
  <2>4. PICK c \in Convs : target'[r] = c /\ (c \notin born \/ Unserved(c))
    BY <1>1, <2>1 DEF DocumentedArrive, OpenStream, OpenStreamOnNew, OpenRegenerate,
                      OpenEdit, Reject, GoTo, OpenAfterSave, TypeOK, Streaming
  <2>5. QED BY <1>1, <2>2, <2>3, <2>4 DEF Unserved
<1>2. ASSUME NEW r \in Requests, NEW q \in Requests,
             pc[r] \in Streaming, pc[q] \in Streaming,
             pc'[r] \in Streaming, pc'[q] \in Streaming, target'[r] = target'[q]
      PROVE  r = q
  BY <1>2, StreamGoesOn DEF OneStream
<1>3. QED BY <1>1, <1>2 DEF OneStream

LEMMA OwnWordsInductive ==
  ASSUME TypeOK, OwnWords, [DocumentedNext]_vars
  PROVE  OwnWords'
<1> USE DEF OwnWords, GoTo, OpenAfterSave, TypeOK, Fresh
<1>1. ASSUME NEW q \in Requests, DocumentedArrive(q) PROVE OwnWords'
  <2>1. ASSUME NEW c \in Convs, OpenStream(q, c) \/ OpenStreamOnNew(q, c) PROVE OwnWords'
    BY <2>1 DEF OpenStream, OpenStreamOnNew
  <2>2. ASSUME NEW c \in Convs, NEW id, OpenRegenerate(q, c, id) PROVE OwnWords'
    BY <2>2 DEF OpenRegenerate
  <2>3. ASSUME NEW c \in Convs, NEW id, OpenEdit(q, c, id) \/ Reject(q, c, id) PROVE OwnWords'
    BY <2>3 DEF OpenEdit, Reject
  <2>4. QED BY <1>1, <2>1, <2>2, <2>3 DEF DocumentedArrive
<1>2. ASSUME NEW q \in Requests, Serve(q) PROVE OwnWords'
  BY <1>2 DEF Serve, AuditFails, Begin, BeginOnDeleted, BeginUnsaved, Ask, ModelFails,
              ModelBreaks, Save, SaveOnDeleted, SaveUnsaved
<1>3. ASSUME NEW q \in Requests, Disconnect(q) PROVE OwnWords'
  BY <1>3 DEF Disconnect
<1>4. CASE Manage \/ Quiet \/ UNCHANGED vars
  BY <1>4 DEF Manage, CreateConversation, DeleteConversation, Quiet, vars
<1>5. QED BY <1>1, <1>2, <1>3, <1>4 DEF DocumentedNext

LEMMA UnderItsQuestionInductive ==
  ASSUME TypeOK, TypeOK', Bookkeeping, Served, [DocumentedNext]_vars
  PROVE  UnderItsQuestion'
<1> SUFFICES ASSUME NEW r \in Requests, pc'[r] \in Streaming,
                    pc'[r] # "opened" \/ kind'[r] = "regenerate", Exists(target[r])'
             PROVE  /\ conv'[target'[r]] # <<>>
                    /\ Last(conv'[target'[r]]) = Question(asks'[r])
  BY DEF UnderItsQuestion, Question
<1>1. CASE pc[r] \in Streaming
  <2> DEFINE c == target[r]
  <2>1. /\ target'[r] = c /\ asks'[r] = asks[r] /\ kind'[r] = kind[r] /\ Exists(c)
        /\ \/ /\ conv'[c] = conv[c]
              /\ pc[r] = "opened" => pc'[r] = "opened" \/ kind[r] = "regenerate"
           \/ /\ pc[r] = "opened" /\ pc'[r] = "started" /\ kind[r] # "regenerate"
              /\ conv'[c] = Append(conv[c], Question(r))
    BY <1>1, StreamGoesOn DEF Served, Exists
  <2>2. CASE conv'[c] = conv[c] /\ (pc[r] # "opened" \/ kind[r] = "regenerate")
    BY <1>1, <2>1, <2>2 DEF Served, UnderItsQuestion
  <2>3. CASE conv'[c] = Append(conv[c], Question(r)) /\ pc[r] = "opened"
             /\ kind[r] # "regenerate"
    <3>1. c \in Convs
      BY <1>1, TargetKnown DEF Streaming
    <3>2. conv[c] \in Seq(Messages) /\ Question(r) \in Messages
      BY <2>1, <3>1, OwnMessages DEF TypeOK, Exists
    <3>3. asks[r] = r
      BY <2>3 DEF Served, OwnWords, Fresh
    <3> DEFINE old == conv[c]
               m == Question(r)
    <3> HIDE DEF old, m
    <3>4. Append(old, m) # <<>> /\ Last(Append(old, m)) = m
      BY <3>2, AppendProperties, LenProperties DEF Last, old, m
    <3>5. QED BY <2>1, <2>3, <3>3, <3>4 DEF old, m
  <2>4. QED BY <2>1, <2>2, <2>3
<1>2. CASE pc[r] \notin Streaming
  <2>1. DocumentedArrive(r) /\ pc[r] = "idle" /\ kind'[r] = "regenerate"
    BY <1>2, StreamBegins
  <2>2. PICK c \in Convs, q \in Requests : OpenRegenerate(r, c, <<q, "assistant">>)
    BY <2>1 DEF DocumentedArrive, OpenStream, OpenStreamOnNew, OpenEdit, Reject, TypeOK,
                GoTo, Streaming
  <2>3. /\ target'[r] = c /\ asks'[r] = AskedBefore(c, <<q, "assistant">>)
        /\ conv'[c] = Truncated(conv[c], <<q, "assistant">>, TRUE)
        /\ CanRegenerate(c, <<q, "assistant">>)
    BY <2>2 DEF OpenRegenerate, TypeOK
  <2>4. QED BY <2>3, CutToTheQuestion DEF Served
<1>3. QED BY <1>1, <1>2

LEMMA FollowInductive ==
  ASSUME TypeOK, TypeOK', Bookkeeping, Written, Served, [DocumentedNext]_vars
  PROVE  AnswersFollowTheirQuestions'
<1>0. [Next]_vars
  BY DocumentedIsNext
<1> SUFFICES ASSUME NEW c \in Convs, Exists(c)', NEW i \in DOMAIN conv'[c],
                    conv'[c][i].role = "assistant"
             PROVE  i > 1 /\ conv'[c][i - 1] = Question(asks'[conv'[c][i].id[1]])
  BY DEF AnswersFollowTheirQuestions, Question
<1>1. conv'[c] \in Seq(Messages) /\ DOMAIN conv'[c] = 1 .. Len(conv'[c]) /\ Len(conv'[c]) \in Nat
  BY LenProperties DEF TypeOK, Exists
<1> DEFINE m == conv'[c][i]
           a == m.id[1]
<1>2. m \in Messages
  BY <1>1, ElementOfSeq
<1>3. a \in Requests /\ m = Answer(a)
  BY <1>2, Authorship DEF Question
<1> HIDE DEF a, m
<1>4. ASSUME Exists(c), i \in DOMAIN conv[c], conv[c][i] = m,
             \A j \in DOMAIN conv'[c] : j < i => conv'[c][j] = conv[c][j]
      PROVE  i > 1 /\ conv'[c][i - 1] = Question(asks'[a])
  <2>1. i > 1 /\ conv[c][i - 1] = Question(asks[a])
    BY <1>3, <1>4 DEF Served, AnswersFollowTheirQuestions, Answer, a
  <2>2. ~Fresh(a)
    BY <1>3, <1>4 DEF Written, Fresh
  <2>3. asks'[a] = asks[a]
    BY <1>0, <1>3, <2>2, RequestFrame DEF Fresh
  <2>4. i - 1 \in DOMAIN conv'[c] /\ i - 1 < i
    BY <1>1, <2>1
  <2>5. QED BY <1>4, <2>1, <2>3, <2>4
<1>5. CASE Shrinks
  <2>1. /\ Exists(c) /\ i \in DOMAIN conv[c] /\ conv[c][i] = m
        /\ \A j \in DOMAIN conv'[c] : conv'[c][j] = conv[c][j]
    BY <1>5, ShrunkMessages DEF m
  <2>2. QED BY <1>4, <2>1 DEF a, m
<1>6. ASSUME NEW q \in Requests, NEW n \in {Question(q), Answer(q)}, Writes(q, n),
             i \in DOMAIN conv[c], conv'[c][i] = conv[c][i], Exists(c)
      PROVE  i > 1 /\ conv'[c][i - 1] = Question(asks'[a])
  <2>1. n \in Messages
    BY OwnMessages
  <2>2. \A j \in DOMAIN conv'[c] :
          conv'[c][j] = conv[c][j]
          \/ (j = Len(conv[c]) + 1 /\ DOMAIN conv[c] = 1 .. Len(conv[c]) /\ Len(conv[c]) \in Nat)
    BY <1>6, <2>1, GrownMessages
  <2>3. \A j \in DOMAIN conv'[c] : j < i => conv'[c][j] = conv[c][j]
    BY <1>1, <1>6, <2>2
  <2>4. QED BY <1>4, <1>6, <2>3 DEF m
<1>7. ASSUME NEW q \in Requests, AsksQuestion(q)
      PROVE  i > 1 /\ conv'[c][i - 1] = Question(asks'[a])
  <2>1. m # Question(q)
    BY <1>3 DEF Question, Answer
  <2>2. Exists(c) /\ i \in DOMAIN conv[c] /\ conv'[c][i] = conv[c][i]
    BY <1>7, <2>1, OwnMessages, GrownMessages DEF AsksQuestion, m
  <2>3. QED BY <1>6, <1>7, <2>2 DEF AsksQuestion
<1>8. ASSUME NEW q \in Requests, GivesAnswer(q)
      PROVE  i > 1 /\ conv'[c][i - 1] = Question(asks'[a])
  <2>1. CASE i \in DOMAIN conv[c] /\ conv'[c][i] = conv[c][i] /\ Exists(c)
    BY <1>6, <1>8, <2>1 DEF GivesAnswer
  <2>2. CASE /\ c = target[q] /\ m = Answer(q) /\ Exists(c)
             /\ i = Len(conv[c]) + 1 /\ DOMAIN conv[c] = 1 .. Len(conv[c])
             /\ Len(conv[c]) \in Nat
    <3>1. conv[c] # <<>> /\ Last(conv[c]) = Question(asks[q])
      BY <1>8, <2>2 DEF GivesAnswer, Served, UnderItsQuestion
    <3>2. a = q /\ asks' = asks
      BY <1>8, <2>2 DEF Answer, a, GivesAnswer, Writes
    <3>3. conv[c] \in Seq(Messages)
      BY <2>2 DEF TypeOK, Exists
    <3>4. Len(conv[c]) > 0 /\ conv[c][Len(conv[c])] = Question(asks[q])
      BY <2>2, <3>1, <3>3, EmptySeq DEF Last
    <3>5. conv'[c][i - 1] = conv[c][i - 1]
      <4>1. i - 1 \in DOMAIN conv'[c] /\ i - 1 # Len(conv[c]) + 1
        BY <1>1, <2>2, <3>4
      <4>2. QED BY <1>8, <4>1, OwnMessages, GrownMessages DEF GivesAnswer
    <3>6. QED BY <2>2, <3>2, <3>4, <3>5
  <2>3. QED BY <1>8, <2>1, <2>2, OwnMessages, GrownMessages DEF GivesAnswer, m
<1>9. QED BY <1>0, <1>5, <1>7, <1>8, StepKinds DEF a, m

\* A history that ends in the question is handed over as it is, the question with
\* what was folded into it.
LEMMA PromptIsTheConversation ==
  ASSUME TypeOK, NEW r \in Requests, target[r] \in Convs, Exists(target[r]),
         conv[target[r]] # <<>>, Last(conv[target[r]]) = Question(asks[r])
  PROVE  /\ Len(PromptTurns(r)) = Len(conv[target[r]])
         /\ \A i \in DOMAIN PromptTurns(r) :
              PromptTurns(r)[i].text = conv[target[r]][i].id
<1> DEFINE msgs == conv[target[r]]
           h == AsTurns(msgs)
           n == Len(msgs)
<1>1. msgs \in Seq(Messages) /\ History(target[r]) = msgs
  BY DEF TypeOK, Exists, History
<1>2. n \in Nat /\ DOMAIN msgs = 1 .. n
  BY <1>1, LenProperties
<1>3. n \in 1 .. n /\ msgs[n] = Question(asks[r])
  BY <1>1, <1>2, EmptySeq DEF Last
<1> HIDE DEF msgs, n
<1>4. h = [i \in 1 .. n |-> [role |-> msgs[i].role, text |-> msgs[i].id, form |-> "message"]]
  BY <1>2 DEF AsTurns
<1> HIDE DEF h
<1>5. /\ DOMAIN h = 1 .. n /\ Len(h) = n /\ h # <<>>
      /\ \A i \in 1 .. n : h[i].text = msgs[i].id /\ h[i].role = msgs[i].role
  <2>1. DOMAIN h = 1 .. n
    BY <1>4
  <2>2. Len(h) = n
    BY <1>2, <1>4
  <2>3. h # <<>>
    BY <1>3, <2>1
  <2>4. \A i \in 1 .. n : h[i].text = msgs[i].id /\ h[i].role = msgs[i].role
    BY <1>4
  <2>5. QED BY <2>1, <2>2, <2>3, <2>4
<1>6. Last(h).role = "user"
  BY <1>3, <1>5 DEF Last, Question
<1>7. PromptTurns(r) = [h EXCEPT ![n] = Prompt(r)]
  BY <1>1, <1>5, <1>6 DEF PromptTurns, h
<1>8. Prompt(r).text = msgs[n].id
  BY <1>3 DEF Prompt
<1>9. Len(PromptTurns(r)) = n /\ DOMAIN PromptTurns(r) = 1 .. n
  BY <1>2, <1>4, <1>7 DEF h
<1>10. \A i \in 1 .. n : PromptTurns(r)[i].text = msgs[i].id
  BY <1>3, <1>5, <1>7, <1>8
<1>11. QED BY <1>9, <1>10 DEF msgs, n

LEMMA SeesInductive ==
  ASSUME TypeOK, Bookkeeping, Served, [DocumentedNext]_vars
  PROVE  ModelSeesTheConversation'
<1> SUFFICES ASSUME NEW r \in Requests, pc'[r] = "asking", Exists(target[r])'
             PROVE  /\ Len(turns'[r]) = Len(conv'[target'[r]])
                    /\ \A i \in DOMAIN turns'[r] : turns'[r][i].text = conv'[target'[r]][i].id
  BY DEF ModelSeesTheConversation
<1>1. pc[r] \in Streaming /\ pc'[r] \in Streaming
  BY StreamBegins DEF Streaming
<1> DEFINE c == target[r]
<1>2. /\ target'[r] = c /\ Exists(c) /\ conv'[c] = conv[c]
      /\ turns'[r] = turns[r] \/ Ask(r)
      /\ pc[r] = "asking" \/ Ask(r)
  BY <1>1, StreamGoesOn DEF Served, Exists
<1>3. CASE Ask(r)
  <2>1. turns'[r] = PromptTurns(r) /\ pc[r] = "started"
    BY <1>3 DEF Ask, TypeOK
  <2>2. c \in Convs
    BY <2>1, TargetKnown
  <2>3. conv[c] # <<>> /\ Last(conv[c]) = Question(asks[r])
    BY <1>2, <2>1 DEF Served, UnderItsQuestion, Streaming
  <2>4. QED BY <1>2, <2>1, <2>2, <2>3, PromptIsTheConversation
<1>4. CASE ~Ask(r)
  BY <1>2, <1>4 DEF Served, ModelSeesTheConversation
<1>5. QED BY <1>3, <1>4

\* Clients that keep to the API page are served as it says, for any number of requests
\* and conversations, whatever fails or is deleted.
THEOREM DocumentedClientsServed == ClientsSpec => []DocumentedClientsAreServed
<1> DEFINE ClientInv == IInv /\ (client = "documented" => Served)
<1>1. ClientsInit => ClientInv
  <2> SUFFICES ASSUME ClientsInit PROVE ClientInv
    OBVIOUS
  <2>1. IInv
    BY InitiallyIInv DEF ClientsInit
  <2>2. Served
    BY DEF ClientsInit, Init, Served, OneStream, OwnWords, UnderItsQuestion,
           AnswersFollowTheirQuestions, ModelSeesTheConversation, Exists, Streaming
  <2>3. QED BY <2>1, <2>2
<1>2. ClientInv /\ [ClientsNext]_clientVars => ClientInv'
  <2> SUFFICES ASSUME ClientInv, [ClientsNext]_clientVars PROVE ClientInv'
    OBVIOUS
  <2>1. [Next]_vars /\ client' = client
    <3>1. ASSUME client = "documented", ClientsNext PROVE DocumentedNext
      BY <3>1 DEF ClientsNext, DocumentedNext
    <3>2. ASSUME ClientsNext PROVE [Next]_vars /\ client' = client
      <4>1. ASSUME NEW r \in Requests, DocumentedArrive(r) PROVE [Next]_vars
        BY <4>1, DocumentedIsNext DEF DocumentedNext
      <4>2. QED BY <3>2, <4>1 DEF ClientsNext, Next
    <3>3. QED BY <3>2 DEF clientVars
  <2>2. IInv'
    BY <2>1, StepKeepsIInv
  <2>3. ASSUME client' = "documented" PROVE Served'
    <3>1. [DocumentedNext]_vars /\ Served
      BY <2>1, <2>3 DEF ClientsNext, DocumentedNext, clientVars
    <3>2. TypeOK /\ TypeOK' /\ Bookkeeping /\ Written
      BY <2>2 DEF IInv
    <3>3. OneStream' /\ OwnWords'
      BY <3>1, <3>2, OneStreamInductive, OwnWordsInductive DEF Served
    <3>4. UnderItsQuestion' /\ AnswersFollowTheirQuestions' /\ ModelSeesTheConversation'
      BY <3>1, <3>2, UnderItsQuestionInductive, FollowInductive, SeesInductive
    <3>5. QED BY <3>3, <3>4 DEF Served
  <2>4. QED BY <2>2, <2>3
<1>3. ClientInv => DocumentedClientsAreServed
  BY DEF Served, DocumentedClientsAreServed
<1>4. QED BY <1>1, <1>2, <1>3, PTL DEF ClientsSpec

-----------------------------------------------------------------------------
(* The page.                                                                *)

Elements == [id : MessageIds, mid : SentIds, live : BOOLEAN]

\* A name is that of the answer it stands on, which was saved, the requests being
\* at p.
WellNamed(el, p) ==
  el.mid # Absent => el.mid = el.id /\ el.mid[2] = "assistant" /\ p[el.mid[1]] = "done"

Good(els, p) == els \in Seq(Elements) /\ \A i \in DOMAIN els : WellNamed(els[i], p)

PageInv ==
  /\ TypeOK /\ Bookkeeping
  /\ current \in Convs \cup {Absent}
  /\ reading \in [Requests -> Reading \cup {"none", "over"}]
  /\ abort \in Requests \cup {Absent}
  /\ streaming \in BOOLEAN
  /\ StopStopsAStream
  /\ Good(page, pc)

\* One more element, an element less, and the elements above one.
LEMMA GoodKept ==
  ASSUME NEW els, NEW p, Good(els, p)
  PROVE  /\ \A el \in Elements : WellNamed(el, p) => Good(Append(els, el), p)
         /\ \A i \in DOMAIN els : Good(RemoveAt(els, i), p) /\ Good(SubSeq(els, 1, i - 1), p)
<1>1. els \in Seq(Elements) /\ DOMAIN els = 1 .. Len(els) /\ Len(els) \in Nat
      /\ \A i \in 1 .. Len(els) : WellNamed(els[i], p)
  BY LenProperties DEF Good
<1>2. ASSUME NEW el \in Elements, WellNamed(el, p) PROVE Good(Append(els, el), p)
  <2>1. /\ Append(els, el) \in Seq(Elements)
        /\ Len(Append(els, el)) = Len(els) + 1
        /\ Append(els, el)[Len(els) + 1] = el
        /\ \A i \in 1 .. Len(els) : Append(els, el)[i] = els[i]
    BY <1>1, AppendProperties
  <2>2. DOMAIN Append(els, el) = 1 .. Len(els) + 1
    BY <2>1, LenProperties
  <2>3. QED BY <1>1, <1>2, <2>1, <2>2 DEF Good
<1>3. ASSUME NEW a \in 1 .. Len(els) + 1, NEW b \in 0 .. Len(els), a <= b + 1
      PROVE  Good(SubSeq(els, a, b), p)
  <2>1. /\ SubSeq(els, a, b) \in Seq(Elements)
        /\ Len(SubSeq(els, a, b)) = b - a + 1
        /\ \A j \in 1 .. b - a + 1 : SubSeq(els, a, b)[j] = els[a + j - 1]
    BY <1>1, <1>3, SubSeqProperties
  <2>2. DOMAIN SubSeq(els, a, b) = 1 .. b - a + 1
    BY <2>1, LenProperties
  <2>3. \A j \in 1 .. b - a + 1 : a + j - 1 \in 1 .. Len(els)
    BY <1>1
  <2>4. QED BY <1>1, <2>1, <2>2, <2>3 DEF Good
<1>4. ASSUME NEW one, NEW two, Good(one, p), Good(two, p) PROVE Good(one \o two, p)
  <2>1. /\ one \in Seq(Elements) /\ two \in Seq(Elements)
        /\ \A i \in 1 .. Len(one) : WellNamed(one[i], p)
        /\ \A i \in 1 .. Len(two) : WellNamed(two[i], p)
        /\ Len(one) \in Nat /\ Len(two) \in Nat
    BY <1>4, LenProperties DEF Good
  <2>2. /\ one \o two \in Seq(Elements)
        /\ Len(one \o two) = Len(one) + Len(two)
        /\ \A i \in 1 .. Len(one) + Len(two) :
             (one \o two)[i] = IF i <= Len(one) THEN one[i] ELSE two[i - Len(one)]
    BY <2>1, ConcatProperties
  <2>3. DOMAIN (one \o two) = 1 .. Len(one) + Len(two)
    BY <2>2, LenProperties
  <2> DEFINE both == one \o two
  <2> HIDE DEF both
  <2>4. ASSUME NEW i \in 1 .. Len(one) + Len(two) PROVE WellNamed(both[i], p)
    <3>0. both[i] = IF i <= Len(one) THEN one[i] ELSE two[i - Len(one)]
      BY <2>2 DEF both
    <3>1. CASE i <= Len(one)
      BY <2>1, <3>0, <3>1
    <3>2. CASE i > Len(one)
      <4> DEFINE k == i - Len(one)
      <4>1. Len(one) \in Nat /\ Len(two) \in Nat
        BY <2>1
      <4>2. k \in 1 .. Len(two) /\ ~(i <= Len(one))
        BY <3>2, <4>1
      <4>3. both[i] = two[k]
        BY <3>0, <4>2
      <4> HIDE DEF k
      <4>4. WellNamed(two[k], p)
        BY <2>1, <4>2
      <4>5. QED BY <4>3, <4>4
    <3>3. QED BY <2>1, <3>1, <3>2
  <2>5. QED BY <2>2, <2>3, <2>4 DEF Good, both
<1>5. ASSUME NEW i \in DOMAIN els
      PROVE  Good(RemoveAt(els, i), p) /\ Good(SubSeq(els, 1, i - 1), p)
  <2>1. Good(SubSeq(els, 1, i - 1), p) /\ Good(SubSeq(els, i + 1, Len(els)), p)
    BY <1>1, <1>3
  <2>2. QED BY <1>4, <2>1 DEF RemoveAt
<1>6. QED BY <1>2, <1>5

\* What was good stays so while what is done stays done.
LEMMA GoodLater ==
  ASSUME NEW els, NEW p, NEW q, Good(els, p),
         \A r \in Requests : p[r] = "done" => q[r] = "done"
  PROVE  Good(els, q)
<1>1. els \in Seq(Elements) /\ \A i \in DOMAIN els : els[i] \in Elements /\ WellNamed(els[i], p)
  BY ElementOfSeq, LenProperties DEF Good
<1>2. ASSUME NEW el \in Elements, WellNamed(el, p) PROVE WellNamed(el, q)
  <2>1. CASE el.mid = Absent
    BY <2>1 DEF WellNamed
  <2>2. CASE el.mid # Absent
    <3>1. el.mid[1] \in Requests
      BY <2>2 DEF Elements, SentIds, MessageIds
    <3>2. QED BY <1>2, <2>2, <3>1 DEF WellNamed
  <2>3. QED BY <2>1, <2>2
<1>3. QED BY <1>1, <1>2 DEF Good

\* What a step of the page is to the server: a step of the engine, or a request for a
\* conversation that the page does not have.
LEMMA ServerStep ==
  ASSUME PageInv, [UiNext]_allVars
  PROVE  [Next]_vars \/ \E r \in Requests : Unknown(r, "edit") \/ Unknown(r, "regenerate")
<1>1. ASSUME NEW i \in DOMAIN page PROVE page[i].mid \in SentIds
  <2>1. page \in Seq(Elements)
    BY DEF PageInv, Good
  <2>2. page[i] \in Elements
    BY <1>1, <2>1, ElementOfSeq, LenProperties
  <2>3. QED BY <2>2 DEF Elements
<1>2. Known(current) => current \in Convs
  BY DEF PageInv, Known
<1>3. ASSUME NEW r \in Requests, Send(r) PROVE [Next]_vars
  BY <1>2, <1>3 DEF Send, Next, Arrive
<1>4. ASSUME NEW r \in Requests, NEW i \in DOMAIN page, Edit(r, i)
      PROVE  Next \/ Unknown(r, "edit")
  BY <1>1, <1>2, <1>4 DEF Edit, Next, Arrive
<1>5. ASSUME NEW r \in Requests, NEW i \in DOMAIN page, Regenerate(r, i)
      PROVE  Next \/ Unknown(r, "regenerate")
  BY <1>1, <1>2, <1>5 DEF Regenerate, Next, Arrive
<1>6. ASSUME NEW r \in Requests, Server(r) PROVE Next
  BY <1>6 DEF Server, Next
<1>7. ASSUME NEW c \in Convs, Delete(c) PROVE Next
  BY <1>7 DEF Delete, Next, Manage
<1>8. ASSUME \/ Stop \/ UNCHANGED allVars \/ \E r \in Requests : Read(r)
             \/ (\E c \in Convs : OpenConversation(c)) \/ (NewChat /\ UNCHANGED vars)
      PROVE  UNCHANGED vars
  BY <1>8 DEF Stop, OpenConversation, Read, ReadConversation, ReadDone, ReadFailure,
              Finish, allVars
<1>9. QED BY <1>3, <1>4, <1>5, <1>6, <1>7, <1>8 DEF UiNext, Sidebar

\* The server's state keeps its type, and what is done stays done, whatever the page
\* or the server does.
LEMMA DoneStays ==
  ASSUME PageInv, [UiNext]_allVars
  PROVE  /\ TypeOK' /\ Bookkeeping'
         /\ \A q \in Requests : pc[q] = "done" => pc'[q] = "done"
<1>1. CASE [Next]_vars
  <2>1. TypeOK' /\ Bookkeeping'
    BY <1>1, TypeInductive, BookkeepingInductive DEF PageInv
  <2>2. \A q \in Requests : pc[q] = "done" => pc'[q] = "done"
    <3> USE DEF PageInv, TypeOK, GoTo, Streaming
    <3>1. ASSUME NEW r \in Requests, Arrive(r) \/ Disconnect(r) PROVE <2>2!:
      BY <3>1 DEF Arrive, OpenStream, OpenStreamOnNew, OpenRegenerate, OpenEdit, Reject,
                  OpenAfterSave, Disconnect
    <3>2. ASSUME NEW r \in Requests, Serve(r) PROVE <2>2!:
      BY <3>2 DEF Serve, AuditFails, Begin, BeginOnDeleted, BeginUnsaved, Ask, ModelFails,
                  ModelBreaks, Save, SaveOnDeleted, SaveUnsaved, Complete
    <3>3. CASE Manage \/ Quiet \/ UNCHANGED vars
      BY <3>3 DEF Manage, CreateConversation, DeleteConversation, Quiet, vars
    <3>4. QED BY <1>1, <3>1, <3>2, <3>3 DEF Next
  <2>3. QED BY <2>1, <2>2
<1>2. ASSUME NEW r \in Requests, Unknown(r, "edit") \/ Unknown(r, "regenerate")
      PROVE  /\ TypeOK' /\ Bookkeeping'
             /\ \A q \in Requests : pc[q] = "done" => pc'[q] = "done"
  <2>1. /\ pc[r] = "idle" /\ pc' = [pc EXCEPT ![r] = "rejected"]
        /\ \E endpoint \in {"edit", "regenerate"} : kind' = [kind EXCEPT ![r] = endpoint]
        /\ UNCHANGED <<conv, born, target, asks, decision, turns>>
    BY <1>2 DEF Unknown, GoTo
  <2>2. TypeOK'
    BY <2>1 DEF PageInv, TypeOK, Kinds, Phases, Ended
  <2>3. pc \in [Requests -> Phases]
    BY DEF PageInv, TypeOK
  <2>4. \A q \in Requests : pc'[q] = pc[q] \/ (pc'[q] = "rejected" /\ pc[q] = "idle")
    BY <2>1, <2>3
  <2>5. Bookkeeping'
    BY <2>1, <2>4 DEF PageInv, Bookkeeping, Exists, Fresh
  <2>6. QED BY <2>2, <2>4, <2>5
<1>3. QED BY <1>1, <1>2, ServerStep

LEMMA OwnIds ==
  ASSUME NEW r \in Requests
  PROVE  /\ Answer(r).id = <<r, "assistant">> /\ Question(r).id = <<r, "user">>
         /\ Answer(r).id \in MessageIds /\ Question(r).id \in MessageIds
         /\ Element(Question(r).id) \in Elements
         /\ Element(Question(r).id).mid = Absent
         /\ [id |-> Answer(r).id, mid |-> Absent, live |-> TRUE] \in Elements
BY DEF Answer, Question, SentIds, MessageIds, Roles, Element, Elements

\* A request of the page: a stream begins below elements that were there.
LEMMA RequestStep ==
  ASSUME PageInv, [UiNext]_allVars, NEW r \in Requests, NEW kept,
         Good(kept, pc), StreamRequest(r, kept)
  PROVE  PageInv'
<1> DEFINE el == [id |-> Answer(r).id, mid |-> Absent, live |-> TRUE]
<1>1. /\ TypeOK' /\ Bookkeeping'
      /\ \A q \in Requests : pc[q] = "done" => pc'[q] = "done"
  BY DoneStays
<1>2. el \in Elements /\ WellNamed(el, pc)
  BY OwnIds DEF WellNamed
<1>3. page' = Append(kept, el)
  BY DEF StreamRequest
<1> HIDE DEF el
<1>4. Good(page', pc)
  BY <1>2, <1>3, GoodKept
<1>5. Good(page', pc')
  BY <1>1, <1>4, GoodLater
<1>6. reading' \in [Requests -> Reading \cup {"none", "over"}] /\ reading'[r] \in Reading
  BY DEF PageInv, StreamRequest, Reading
<1>7. abort' = r /\ streaming' = TRUE /\ r # Absent
  BY NoRequestAssumption DEF StreamRequest
<1>8. current' = current
  BY DEF StreamRequest
<1>9. QED BY <1>1, <1>5, <1>6, <1>7, <1>8 DEF PageInv, StopStopsAStream

\* A stream is over for the page.
LEMMA FinishStep ==
  ASSUME PageInv, TypeOK', Bookkeeping', NEW r \in Requests, NEW mid, Finish(r, mid),
         mid = Absent \/ (mid = Answer(r).id /\ pc[r] = "done")
  PROVE  PageInv'
<1>1. pc' = pc /\ page' = Named(page, r, mid)
  BY DEF Finish, vars
<1>2. /\ page \in Seq(Elements) /\ DOMAIN page = 1 .. Len(page) /\ Len(page) \in Nat
      /\ \A i \in 1 .. Len(page) : page[i] \in Elements /\ WellNamed(page[i], pc)
  BY LenProperties, ElementOfSeq DEF PageInv, Good
<1>3. ASSUME NEW i \in 1 .. Len(page)
      PROVE  page'[i] \in Elements /\ WellNamed(page'[i], pc)
  <2>1. CASE ~IsOf(page[i], r)
    BY <1>1, <1>2, <2>1 DEF Named
  <2>2. CASE IsOf(page[i], r)
    <3>1. page'[i] = [page[i] EXCEPT !.mid = mid] /\ page[i] \in Elements
      BY <1>1, <1>2, <2>2 DEF Named
    <3>2. mid \in SentIds
      BY OwnIds DEF SentIds
    <3>3. page'[i] \in Elements /\ page'[i].mid = mid /\ page'[i].id = Answer(r).id
      BY <2>2, <3>1, <3>2 DEF Elements, IsOf
    <3>4. mid # Absent => mid[1] = r /\ mid[2] = "assistant" /\ mid = Answer(r).id /\ pc[r] = "done"
      <4>1. Answer(r).id[1] = r /\ Answer(r).id[2] = "assistant"
        BY DEF Answer
      <4>2. QED BY <4>1
    <3>5. WellNamed(page'[i], pc)
      BY <3>3, <3>4 DEF WellNamed
    <3>6. QED BY <3>3, <3>5
  <2>3. QED BY <2>1, <2>2
<1>4. page' \in Seq(Elements) /\ DOMAIN page' = 1 .. Len(page)
  <2>1. page' = [i \in 1 .. Len(page) |-> page'[i]]
    BY <1>1, <1>2 DEF Named
  <2>2. QED BY <1>2, <1>3, <2>1
<1>5. Good(page', pc')
  BY <1>1, <1>3, <1>4 DEF Good
<1>6. QED BY <1>1, <1>5, NoRequestAssumption DEF PageInv, Finish, StopStopsAStream

LEMMA PageStep ==
  ASSUME PageInv, [UiNext]_allVars
  PROVE  PageInv'
<1>1. /\ TypeOK' /\ Bookkeeping'
      /\ \A q \in Requests : pc[q] = "done" => pc'[q] = "done"
  BY DoneStays
<1>2. page \in Seq(Elements) /\ Good(page, pc)
  BY DEF PageInv, Good
<1>3. ASSUME NEW r \in Requests, Send(r) PROVE PageInv'
  <2> DEFINE el == Element(Question(r).id)
  <2>1. el \in Elements /\ WellNamed(el, pc)
    BY OwnIds DEF WellNamed
  <2> HIDE DEF el
  <2>2. Good(Append(page, el), pc)
    BY <1>2, <2>1, GoodKept
  <2>3. StreamRequest(r, Append(page, el))
    BY <1>3 DEF Send, el
  <2>4. QED BY <2>2, <2>3, RequestStep
<1>4. ASSUME NEW r \in Requests, NEW i \in DOMAIN page, Edit(r, i) PROVE PageInv'
  <2> DEFINE el == [page[i] EXCEPT !.id = Question(r).id]
             above == SubSeq(page, 1, i - 1)
  <2>1. page[i] \in Elements /\ WellNamed(page[i], pc) /\ page[i].id[2] = "user"
    BY <1>2, <1>4, ElementOfSeq, LenProperties DEF Good, Edit
  <2>2. page[i].mid = Absent
    BY <2>1 DEF WellNamed
  <2>3. el \in Elements /\ el.mid = Absent
    BY <2>1, <2>2, OwnIds DEF Elements
  <2>4. StreamRequest(r, Append(above, el))
    BY <1>4 DEF Edit
  <2>5. Good(above, pc)
    BY <1>2, GoodKept
  <2> HIDE DEF el, above
  <2>6. WellNamed(el, pc)
    BY <2>3 DEF WellNamed
  <2>7. Good(Append(above, el), pc)
    BY <2>3, <2>5, <2>6, GoodKept
  <2>8. QED BY <2>4, <2>7, RequestStep
<1>5. ASSUME NEW r \in Requests, NEW i \in DOMAIN page, Regenerate(r, i) PROVE PageInv'
  <2>1. Good(RemoveAt(page, i), pc)
    BY <1>2, GoodKept
  <2>2. StreamRequest(r, RemoveAt(page, i))
    BY <1>5 DEF Regenerate
  <2>3. QED BY <2>1, <2>2, RequestStep
<1>6. ASSUME NEW r \in Requests, ReadConversation(r) PROVE PageInv'
  <2>1. UNCHANGED vars /\ current' \in Convs \cup {Absent} /\ pc' = pc
    BY <1>6 DEF PageInv, TypeOK, ReadConversation, vars
  <2>2. /\ reading' \in [Requests -> Reading \cup {"none", "over"}]
        /\ \A q \in Requests : reading[q] \in Reading => reading'[q] \in Reading
        /\ UNCHANGED <<streaming, abort, page>>
    BY <1>6 DEF PageInv, ReadConversation, Reading
  <2>3. QED BY <1>1, <2>1, <2>2 DEF PageInv, StopStopsAStream
<1>7. ASSUME NEW r \in Requests, ReadDone(r) \/ ReadFailure(r) PROVE PageInv'
  BY <1>1, <1>7, FinishStep DEF ReadDone, ReadFailure
<1>8. CASE Stop
  BY <1>1, <1>8, FinishStep DEF Stop, PageInv
<1>9. ASSUME /\ UNCHANGED <<streaming, abort, reading>> /\ page' \in Seq(Elements)
             /\ current' \in Convs \cup {Absent}
             /\ \A i \in DOMAIN page' : page'[i].mid = Absent
      PROVE  PageInv'
  <2>1. Good(page', pc')
    BY <1>9 DEF Good, WellNamed
  <2>2. QED BY <1>1, <1>9, <2>1 DEF PageInv, StopStopsAStream
<1>10. CASE Sidebar
  <2>1. ASSUME NEW c \in Convs, OpenConversation(c) PROVE PageInv'
    <3>1. page' = Rendered(conv[c])
      BY <2>1 DEF OpenConversation
    <3>2. conv[c] \in Seq(Messages)
      BY <2>1 DEF OpenConversation, PageInv, TypeOK, Exists
    <3>3. \A i \in 1 .. Len(conv[c]) : Element(conv[c][i].id) \in Elements
      BY <3>2, ElementOfSeq DEF Messages, Element, Elements, SentIds, MessageIds
    <3>4. page' = [i \in 1 .. Len(conv[c]) |-> Element(conv[c][i].id)]
      BY <3>1, <3>2, LenProperties DEF Rendered
    <3>5. page' \in Seq(Elements)
      BY <3>2, <3>3, <3>4, LenProperties
    <3>6. \A i \in DOMAIN page' : page'[i].mid = Absent
      BY <3>4 DEF Element
    <3>7. UNCHANGED <<vars, streaming, abort, reading>> /\ current' = c
      BY <2>1 DEF OpenConversation
    <3>8. QED BY <1>9, <3>5, <3>6, <3>7
  <2>2. CASE NewChat
    <3>1. <<>> \in Seq(Elements) /\ DOMAIN <<>> = {}
      OBVIOUS
    <3>2. QED BY <1>9, <2>2, <3>1 DEF NewChat
  <2>3. ASSUME NEW c \in Convs, Delete(c) PROVE PageInv'
    <3>1. CASE UNCHANGED uiVars
      <4>1. Good(page, pc')
        BY <1>1, <1>2, GoodLater
      <4>2. QED BY <1>1, <3>1, <4>1 DEF PageInv, StopStopsAStream, uiVars
    <3>2. CASE NewChat
      BY <2>2, <3>2
    <3>3. QED BY <2>3, <3>1, <3>2 DEF Delete
  <2>4. QED BY <1>10, <2>1, <2>2, <2>3 DEF Sidebar
<1>11. ASSUME NEW r \in Requests, Server(r) PROVE PageInv'
  <2>1. Good(page, pc')
    BY <1>1, <1>2, GoodLater
  <2>2. QED BY <1>1, <1>11, <2>1 DEF PageInv, Server, uiVars, StopStopsAStream
<1>12. CASE UNCHANGED allVars
  BY <1>1, <1>12 DEF PageInv, allVars, vars, uiVars, StopStopsAStream
<1>13. QED
  BY <1>3, <1>4, <1>5, <1>6, <1>7, <1>8, <1>10, <1>11, <1>12 DEF UiNext, Read

LEMMA PageInitially == ASSUME UiInit PROVE PageInv
<1>1. TypeOK /\ Bookkeeping
  BY EmptySeq DEF UiInit, Init, TypeOK, Bookkeeping, Exists, Fresh, Phases, Kinds
<1>2. Good(page, pc)
  BY EmptySeq DEF UiInit, Good
<1>3. QED BY <1>1, <1>2 DEF UiInit, PageInv, StopStopsAStream

LEMMA PageInvariance == UiSpec => []PageInv
<1>1. UiInit => PageInv
  BY PageInitially
<1>2. PageInv /\ [UiNext]_allVars => PageInv'
  BY PageStep
<1>3. QED BY <1>1, <1>2, PTL DEF UiSpec

\* The stop button has a stream to stop, for any number of streams and conversations
\* and any user.
THEOREM PageStopsAStream == UiSpec => []StopStopsAStream
BY PageInvariance, PTL DEF PageInv

\* A name on the page is that of a saved answer, the one it stands on.
THEOREM PageNamesAreSaved == UiSpec => []NamesAreSaved
<1>1. PageInv => NamesAreSaved
  BY DEF PageInv, Good, WellNamed, NamesAreSaved
<1>2. QED BY <1>1, PageInvariance, PTL

-----------------------------------------------------------------------------
(* The users.                                                               *)

\* What a step of the server does to the requests and the conversations.
KeepsRequests(r) ==
  /\ UNCHANGED <<born, target, kind>>
  /\ \A q \in Requests : q # r => pc'[q] = pc[q]
  /\ pc[r] \in Streaming /\ pc'[r] \notin {"idle", "opened", "rejected"}
ServerWrites(r, m) ==
  /\ target[r] \in Convs /\ Exists(target[r])
  /\ conv' = [conv EXCEPT ![target[r]] = Append(@, m)]

LEMMA ServerSteps ==
  ASSUME TypeOK, Bookkeeping, NEW r \in Requests, Serve(r) \/ Disconnect(r)
  PROVE  /\ KeepsRequests(r)
         /\ \/ conv' = conv /\ (pc[r] = "opened" /\ pc'[r] \in Streaming => ~Persists(r))
            \/ pc[r] = "opened" /\ Persists(r) /\ ServerWrites(r, Question(r))
            \/ pc[r] # "opened" /\ pc'[r] \notin Streaming /\ ServerWrites(r, Answer(r))
<1> DEFINE Steps ==
      /\ KeepsRequests(r)
      /\ \/ conv' = conv /\ (pc[r] = "opened" /\ pc'[r] \in Streaming => ~Persists(r))
         \/ pc[r] = "opened" /\ Persists(r) /\ ServerWrites(r, Question(r))
         \/ pc[r] # "opened" /\ pc'[r] \notin Streaming /\ ServerWrites(r, Answer(r))
<1> SUFFICES Steps
  OBVIOUS
<1>1. pc[r] \in Streaming
  BY DEF Serve, AuditFails, Begin, BeginOnDeleted, BeginUnsaved, Ask, ModelFails, ModelBreaks,
         Save, SaveOnDeleted, SaveUnsaved, Complete, Disconnect, Streaming
<1>2. target[r] \in Convs
  BY <1>1, TargetKnown DEF Streaming
<1> USE DEF GoTo, TypeOK, KeepsRequests, Streaming
<1>3. CASE \/ AuditFails(r) \/ BeginOnDeleted(r) \/ Ask(r) \/ ModelFails(r)
           \/ ModelBreaks(r) \/ SaveOnDeleted(r) \/ Disconnect(r)
  BY <1>1, <1>3 DEF AuditFails, BeginOnDeleted, Ask, ModelFails, ModelBreaks, SaveOnDeleted,
                    Disconnect
<1>4. CASE Begin(r) \/ BeginUnsaved(r)
  BY <1>1, <1>2, <1>4 DEF Begin, BeginUnsaved, ServerWrites, Add, Added
<1>5. CASE Save(r) \/ SaveUnsaved(r)
  BY <1>1, <1>2, <1>5 DEF Save, SaveUnsaved, Complete, ServerWrites, Add, Added
<1>6. QED BY <1>3, <1>4, <1>5 DEF Serve

\* Conversations that are gone stay gone, requests keep to theirs.
LEMMA ServerFrame ==
  ASSUME PageInv, [UiNext]_allVars
  PROVE  /\ born \subseteq born'
         /\ \A c \in born : Exists(c)' => Exists(c)
         /\ \A q \in Requests : pc[q] \notin {"idle", "rejected"} =>
              /\ target'[q] = target[q] /\ kind'[q] = kind[q]
              /\ target[q] \in born
              /\ pc'[q] \notin {"idle", "rejected"}
              /\ pc[q] = "broken" => pc'[q] = "broken"
<1> DEFINE Frame ==
      /\ born \subseteq born'
      /\ \A c \in born : Exists(c)' => Exists(c)
      /\ \A q \in Requests : pc[q] \notin {"idle", "rejected"} =>
           /\ target'[q] = target[q] /\ kind'[q] = kind[q]
           /\ pc'[q] \notin {"idle", "rejected"}
           /\ pc[q] = "broken" => pc'[q] = "broken"
<1>0. TypeOK /\ Bookkeeping
  BY DEF PageInv
<1>1. SUFFICES Frame
  BY <1>0 DEF Bookkeeping
<1> USE <1>0 DEF TypeOK, GoTo, OpenAfterSave, Exists
<1>2. ASSUME NEW r \in Requests, NEW c \in Convs, OpenStream(r, c) \/ OpenStreamOnNew(r, c)
      PROVE  Frame
  BY <1>2 DEF OpenStream, OpenStreamOnNew
<1>3. ASSUME NEW r \in Requests, NEW c \in Convs, NEW id,
             OpenRegenerate(r, c, id) \/ Reject(r, c, id)
      PROVE  Frame
  <2>1. CASE OpenRegenerate(r, c, id)
    BY <2>1 DEF OpenRegenerate, CanRegenerate
  <2>2. CASE Reject(r, c, id)
    BY <2>2 DEF Reject
  <2>3. QED BY <1>3, <2>1, <2>2
<1>4. ASSUME NEW r \in Requests, NEW c \in Convs, NEW id, OpenEdit(r, c, id)
      PROVE  Frame
  BY <1>4 DEF OpenEdit
<1>5. ASSUME NEW r \in Requests, Serve(r) \/ Disconnect(r) PROVE Frame
  <2>1. KeepsRequests(r) /\ (conv' = conv \/ \E m : ServerWrites(r, m))
    BY <1>5, ServerSteps
  <2>2. QED BY <2>1 DEF KeepsRequests, ServerWrites, Streaming
<1>6. CASE Manage \/ UNCHANGED vars
  BY <1>6 DEF Manage, CreateConversation, DeleteConversation, vars
<1>7. ASSUME NEW r \in Requests, NEW endpoint, Unknown(r, endpoint) PROVE Frame
  BY <1>7 DEF Unknown
<1>8. QED
  BY <1>2, <1>3, <1>4, <1>5, <1>6, <1>7, ServerStep DEF Next, Arrive, Quiet

\* What stays of the page when a request is made: elements that were there, and
\* perhaps a question.
Remains(kept) ==
  /\ kept \in Seq(Elements)
  /\ \A j \in DOMAIN kept :
       \/ \E i \in DOMAIN page : kept[j] = page[i]
       \/ kept[j].mid = Absent /\ kept[j].id[2] = "user"

\* The server takes a request of the page, in the conversation it is in or in a new
\* one, or refuses it.
Taken(r) ==
  /\ \A q \in Requests : q # r => pc'[q] = pc[q]
  /\ pc[r] = "idle" /\ pc'[r] \in {"opened", "broken", "rejected"}
  /\ pc'[r] = "opened" =>
       \/ Known(current) /\ target'[r] = current
       \/ ~Known(current) /\ kind'[r] = "stream"

LEMMA RequestsArrive ==
  ASSUME PageInv, NEW r \in Requests,
         \/ Send(r)
         \/ \E i \in DOMAIN page : Edit(r, i) \/ Regenerate(r, i)
  PROVE  Taken(r) /\ \E kept : Remains(kept) /\ StreamRequest(r, kept)
<1>0. /\ page \in Seq(Elements) /\ DOMAIN page = 1 .. Len(page) /\ Len(page) \in Nat
      /\ \A i \in DOMAIN page : page[i] \in Elements /\ WellNamed(page[i], pc)
  BY ElementOfSeq, LenProperties DEF PageInv, Good
<1> USE DEF PageInv, TypeOK, GoTo, OpenAfterSave
<1>1. ASSUME NEW endpoint, Unknown(r, endpoint) PROVE Taken(r)
  BY <1>1 DEF Unknown, Taken
<1>2. CASE Send(r)
  <2>1. Taken(r)
    BY <1>2 DEF Send, OpenStream, OpenStreamOnNew, Taken, Known
  <2> DEFINE el == Element(Question(r).id)
             kept == Append(page, el)
  <2>2. el \in Elements /\ el.mid = Absent /\ el.id[2] = "user"
    <3>1. el \in Elements /\ el.mid = Absent
      BY OwnIds
    <3>2. el.id = <<r, "user">>
      BY DEF Element, Question
    <3>3. QED BY <3>1, <3>2
  <2> HIDE DEF el
  <2>3. /\ kept \in Seq(Elements) /\ Len(kept) = Len(page) + 1 /\ kept[Len(page) + 1] = el
        /\ \A j \in 1 .. Len(page) : kept[j] = page[j]
    BY <1>0, <2>2, AppendProperties
  <2>4. DOMAIN kept = 1 .. Len(page) + 1
    BY <2>3, LenProperties
  <2> HIDE DEF kept
  <2>5. Remains(kept)
    <3>0. Len(page) \in Nat /\ DOMAIN page = 1 .. Len(page)
      BY <1>0
    <3>1. \A j \in 1 .. Len(page) + 1 : j \in DOMAIN page \/ j = Len(page) + 1
      BY <3>0
    <3>2. ASSUME NEW j \in DOMAIN kept, j \in DOMAIN page PROVE kept[j] = page[j]
      BY <1>0, <2>3, <3>2
    <3>3. QED BY <2>2, <2>3, <2>4, <3>1, <3>2 DEF Remains
  <2>6. StreamRequest(r, kept)
    BY <1>2 DEF Send, kept, el
  <2>7. QED BY <2>1, <2>5, <2>6
<1>3. ASSUME NEW i \in DOMAIN page, Edit(r, i)
      PROVE  Taken(r) /\ \E kept : Remains(kept) /\ StreamRequest(r, kept)
  <2>1. Taken(r)
    <3>1. CASE Known(current)
      BY <1>3, <3>1 DEF Edit, OpenEdit, Taken, Known
    <3>2. CASE ~Known(current)
      BY <1>1, <1>3, <3>2 DEF Edit
    <3>3. QED BY <3>1, <3>2
  <2> DEFINE el == [page[i] EXCEPT !.id = Question(r).id]
             above == SubSeq(page, 1, i - 1)
             kept == Append(above, el)
  <2>2. page[i] \in Elements /\ page[i].mid = Absent
    BY <1>0, <1>3 DEF Edit, WellNamed
  <2>3. el \in Elements /\ el.mid = Absent /\ el.id[2] = "user"
    <3>1. Question(r).id \in MessageIds /\ Question(r).id[2] = "user"
      <4>1. Question(r).id \in MessageIds /\ Question(r).id = <<r, "user">>
        BY OwnIds
      <4>2. QED BY <4>1
    <3>2. el.id = Question(r).id /\ el.mid = page[i].mid /\ el \in Elements
      BY <2>2, <3>1 DEF Elements
    <3>3. QED BY <2>2, <3>1, <3>2
  <2> HIDE DEF el
  <2>4. /\ above \in Seq(Elements) /\ Len(above) = i - 1
        /\ \A j \in 1 .. i - 1 : above[j] = page[j]
    <3>1. \A j \in 1 .. i - 1 : page[j] \in Elements /\ 1 + j - 1 = j
      BY <1>0
    <3>2. QED BY <1>0, <3>1, SubSeqProperties
  <2> HIDE DEF above
  <2>5. /\ kept \in Seq(Elements) /\ Len(kept) = i /\ kept[i] = el
        /\ \A j \in 1 .. i - 1 : kept[j] = page[j]
    BY <1>0, <2>3, <2>4, AppendProperties
  <2>6. DOMAIN kept = 1 .. i
    BY <2>5, LenProperties
  <2> HIDE DEF kept
  <2>7. Remains(kept)
    <3>1. \A j \in 1 .. i : (j \in 1 .. i - 1 /\ j \in DOMAIN page) \/ j = i
      BY <1>0
    <3>2. QED BY <2>3, <2>5, <2>6, <3>1 DEF Remains
  <2>8. StreamRequest(r, kept)
    BY <1>3 DEF Edit, kept, el, above
  <2>9. QED BY <2>1, <2>7, <2>8
<1>4. ASSUME NEW i \in DOMAIN page, Regenerate(r, i)
      PROVE  Taken(r) /\ \E kept : Remains(kept) /\ StreamRequest(r, kept)
  <2>1. Taken(r)
    <3>1. CASE Known(current) /\ CanRegenerate(current, page[i].mid)
      BY <1>4, <3>1 DEF Regenerate, OpenRegenerate, Taken, Known
    <3>2. CASE ~(Known(current) /\ CanRegenerate(current, page[i].mid))
      BY <1>1, <1>4, <3>2 DEF Regenerate
    <3>3. QED BY <3>1, <3>2
  <2> DEFINE kept == RemoveAt(page, i)
  <2>2. /\ kept \in Seq(Elements) /\ Len(kept) = Len(page) - 1
        /\ \A j \in 1 .. Len(page) - 1 : kept[j] = IF j < i THEN page[j] ELSE page[j + 1]
    <3>1. i \in 1 .. Len(page)
      BY <1>0
    <3>2. QED BY <1>0, <3>1, RemovedProperties
  <2>3. DOMAIN kept = 1 .. Len(page) - 1
    BY <2>2, LenProperties
  <2> HIDE DEF kept
  <2>4. Remains(kept)
    <3>1. ASSUME NEW j \in 1 .. Len(page) - 1 PROVE \E k \in DOMAIN page : kept[j] = page[k]
      <4>1. j \in DOMAIN page /\ j + 1 \in DOMAIN page
        BY <1>0
      <4>2. QED BY <2>2, <4>1
    <3>2. QED BY <2>2, <2>3, <3>1 DEF Remains
  <2>5. StreamRequest(r, kept)
    BY <1>4 DEF Regenerate, kept
  <2>6. QED BY <2>1, <2>4, <2>5
<1>5. QED BY <1>2, <1>3, <1>4

\* A stream that is read knows its conversation: the page was told, or asked for it.
Told(r) == reading[r] = "told" \/ (reading[r] = "waiting" /\ kind[r] # "stream")

\* What keeps names current: the page shows the answer of a stream it reads in the
\* conversation of that stream, or no name that is not of it.
NamesInv ==
  /\ StreamsCanBeStopped /\ NamesAreCurrent
  /\ \A r \in Requests :
       /\ reading[r] = "failed" => pc[r] \in {"broken", "rejected"}
       /\ reading[r] \in {"waiting", "told"} => pc[r] \notin {"idle", "rejected"}
       /\ \A i \in DOMAIN page :
            /\ IsOf(page[i], r) /\ Told(r) /\ Exists(target[r]) => target[r] = current
            /\ reading[r] = "waiting" /\ kind[r] = "stream" /\ page[i].mid # Absent =>
                 LET c == target[page[i].mid[1]] IN Exists(c) => c = target[r]

\* Whose name is on the page has been done, and its conversation is settled.
LEMMA NamedIsDone ==
  ASSUME PageInv, [UiNext]_allVars, NEW i \in DOMAIN page, page[i].mid # Absent,
         NEW a, a = page[i].mid[1]
  PROVE  /\ a \in Requests /\ pc[a] = "done" /\ target'[a] = target[a]
         /\ target[a] \in Convs
         /\ conv'[target'[a]] # Absent => Exists(target[a])
<1>1. page[i] \in Elements /\ WellNamed(page[i], pc)
  BY ElementOfSeq, LenProperties DEF PageInv, Good
<1>2. a \in Requests /\ pc[a] = "done"
  <2>1. page[i].mid \in MessageIds
    BY <1>1 DEF Elements, SentIds
  <2>2. QED BY <1>1, <2>1 DEF MessageIds, WellNamed
<1>3. target'[a] = target[a] /\ target[a] \in born
  BY <1>2, ServerFrame
<1>4. target[a] \in Convs
  BY <1>3 DEF PageInv, TypeOK
<1>5. conv'[target[a]] # Absent => Exists(target[a])
  <2>1. \A c \in born : Exists(c)' => Exists(c)
    BY ServerFrame
  <2>2. QED BY <1>3, <2>1 DEF Exists
<1>6. QED BY <1>2, <1>3, <1>4, <1>5

\* A request that the page makes when it reads no stream.
LEMMA NamesWhenRequested ==
  ASSUME PageInv, NamesInv, [UiNext]_allVars, NEW r \in Requests, Taken(r),
         NEW kept, Remains(kept), StreamRequest(r, kept), Unread
  PROVE  NamesInv'
<1> DEFINE el == [id |-> Answer(r).id, mid |-> Absent, live |-> TRUE]
<1>1. page' = Append(kept, el) /\ el \in Elements
  BY OwnIds DEF StreamRequest
<1>2. /\ el.mid = Absent
      /\ \A q \in Requests : IsOf(el, q) => q = r
  BY DEF IsOf, Answer
<1> HIDE DEF el
<1>3. ASSUME NEW i \in DOMAIN page'
      PROVE  \/ \E k \in DOMAIN page : page'[i] = page[k]
             \/ page'[i].mid = Absent /\ \A q \in Requests : IsOf(page'[i], q) => q = r
  <2>1. /\ kept \in Seq(Elements) /\ Append(kept, el) \in Seq(Elements)
        /\ Len(kept) \in Nat /\ DOMAIN kept = 1 .. Len(kept)
        /\ DOMAIN page' = 1 .. Len(kept) + 1 /\ page'[Len(kept) + 1] = el
        /\ \A j \in 1 .. Len(kept) : page'[j] = kept[j]
    <3>1. kept \in Seq(Elements)
      BY DEF Remains
    <3>2. /\ Append(kept, el) \in Seq(Elements) /\ Len(Append(kept, el)) = Len(kept) + 1
          /\ Append(kept, el)[Len(kept) + 1] = el
          /\ \A j \in 1 .. Len(kept) : Append(kept, el)[j] = kept[j]
      BY <1>1, <3>1, AppendProperties
    <3>3. Len(kept) \in Nat /\ DOMAIN kept = 1 .. Len(kept)
          /\ DOMAIN Append(kept, el) = 1 .. Len(kept) + 1
      BY <3>1, <3>2, LenProperties
    <3>4. QED BY <1>1, <3>1, <3>2, <3>3
  <2>2. CASE i = Len(kept) + 1
    BY <1>2, <2>1, <2>2
  <2>3. CASE i \in DOMAIN kept
    <3>1. page'[i] = kept[i]
      BY <2>1, <2>3
    <3>2. CASE kept[i].mid = Absent /\ kept[i].id[2] = "user"
      <4>1. \A q \in Requests : ~IsOf(kept[i], q)
        <5>1. \A q \in Requests : Answer(q).id[2] = "assistant"
          BY DEF Answer
        <5>2. QED BY <3>2, <5>1 DEF IsOf
      <4>2. QED BY <3>1, <3>2, <4>1
    <3>3. QED BY <2>3, <3>1, <3>2 DEF Remains
  <2>4. i \in DOMAIN kept \/ i = Len(kept) + 1
    BY <1>3, <2>1
  <2>5. QED BY <2>2, <2>3, <2>4
<1>4. /\ reading \in [Requests -> Reading \cup {"none", "over"}] /\ pc \in [Requests -> Phases]
  BY DEF PageInv, TypeOK
<1>5. /\ streaming' = TRUE /\ abort' = r /\ current' = current
      /\ reading'[r] = IF pc'[r] \in Streaming THEN "waiting" ELSE "failed"
      /\ \A q \in Requests : q # r => reading'[q] = reading[q] /\ reading[q] \notin Reading
  BY <1>4 DEF StreamRequest, Unread
<1>6. /\ pc'[r] \in {"opened", "broken", "rejected"}
      /\ reading'[r] = "waiting" => pc'[r] = "opened"
      /\ reading'[r] # "waiting" => reading'[r] = "failed" /\ pc'[r] \in {"broken", "rejected"}
  BY <1>5 DEF Taken, Streaming
<1>7. ASSUME NEW q \in Requests, reading'[q] \in Reading PROVE q = r
  BY <1>5, <1>7
<1>8. ASSUME NEW i \in DOMAIN page', page'[i].mid # Absent,
             NEW a, a = page'[i].mid[1], conv'[target'[a]] # Absent
      PROVE  target'[a] = current /\ Known(current)
  <2>1. PICK k \in DOMAIN page : page'[i] = page[k]
    BY <1>3, <1>8
  <2>2. target'[a] = target[a] /\ target[a] \in Convs /\ Exists(target[a])
    BY <1>8, <2>1, NamedIsDone
  <2>3. target[a] = current
    BY <1>8, <2>1, <2>2 DEF NamesInv, NamesAreCurrent
  <2>4. Known(current)
    BY <2>2, <2>3, RequestsAssumption DEF Known
  <2>5. QED BY <2>2, <2>3, <2>4
<1>9. StreamsCanBeStopped'
  BY <1>5, <1>7 DEF StreamsCanBeStopped
<1>10. NamesAreCurrent'
  BY <1>5, <1>8 DEF NamesAreCurrent, Exists
<1>11. ASSUME NEW q \in Requests
       PROVE  /\ reading'[q] = "failed" => pc'[q] \in {"broken", "rejected"}
              /\ reading'[q] \in {"waiting", "told"} => pc'[q] \notin {"idle", "rejected"}
  BY <1>6, <1>7 DEF Reading
<1>12. ASSUME NEW q \in Requests, NEW i \in DOMAIN page', IsOf(page'[i], q), Told(q)',
              Exists(target[q])'
       PROVE  target'[q] = current'
  <2>1. q = r /\ reading'[r] = "waiting" /\ kind'[r] # "stream"
    BY <1>6, <1>7, <1>12 DEF Told, Reading
  <2>2. QED BY <1>5, <1>6, <2>1 DEF Taken
<1>13. ASSUME NEW q \in Requests, NEW i \in DOMAIN page', reading'[q] = "waiting",
              kind'[q] = "stream", page'[i].mid # Absent,
              NEW a, a = page'[i].mid[1], conv'[target'[a]] # Absent
       PROVE  target'[a] = target'[q]
  <2>1. q = r
    BY <1>7, <1>13 DEF Reading
  <2>2. target'[a] = current /\ Known(current)
    BY <1>8, <1>13
  <2>3. QED BY <1>6, <1>13, <2>1, <2>2 DEF Taken
<1>14. QED BY <1>9, <1>10, <1>11, <1>12, <1>13 DEF NamesInv, IsOf, Told, Exists, Answer

\* What the page does when no step of the server is in it: the stream it reads ends.
LEMMA NamesWhenFinished ==
  ASSUME PageInv, NamesInv, NEW r \in Requests, NEW mid, Finish(r, mid),
         mid = Absent \/ (mid = Answer(r).id /\ Told(r))
  PROVE  NamesInv'
<1>1. reading \in [Requests -> Reading \cup {"none", "over"}] /\ page \in Seq(Elements)
  BY DEF PageInv, Good
<1>2. \A q \in Requests : reading'[q] \notin Reading
  BY <1>1 DEF NamesInv, StreamsCanBeStopped, Finish, Reading
<1>3. ASSUME NEW i \in DOMAIN page', page'[i].mid # Absent,
             NEW a, a = page'[i].mid[1], conv'[target'[a]] # Absent
      PROVE  target'[a] = current'
  <2>1. /\ i \in DOMAIN page /\ page[i] \in Elements
        /\ page'[i] = IF IsOf(page[i], r) THEN [page[i] EXCEPT !.mid = mid] ELSE page[i]
    BY <1>1, <1>3, ElementOfSeq, LenProperties DEF Finish, Named
  <2>2. UNCHANGED <<conv, target, current>>
    BY DEF Finish, vars
  <2>3. CASE IsOf(page[i], r)
    <3>1. page'[i].mid = mid
      BY <2>1, <2>3 DEF Elements
    <3>2. mid = <<r, "assistant">> /\ Told(r)
      BY <1>3, <3>1 DEF Answer
    <3>3. a = r
      BY <1>3, <3>1, <3>2
    <3>4. QED BY <1>3, <2>1, <2>2, <2>3, <3>2, <3>3 DEF NamesInv, Exists
  <2>4. CASE ~IsOf(page[i], r)
    BY <1>3, <2>1, <2>2, <2>4 DEF NamesInv, NamesAreCurrent, Exists
  <2>5. QED BY <2>3, <2>4
<1>4. StreamsCanBeStopped' /\ NamesAreCurrent'
  BY <1>2, <1>3 DEF StreamsCanBeStopped, NamesAreCurrent, Exists
<1>5. QED BY <1>2, <1>4 DEF NamesInv, Told, Reading

LEMMA NamesWhenRead ==
  ASSUME PageInv, NamesInv, NEW r \in Requests, Read(r) \/ Stop
  PROVE  NamesInv'
<1>0. reading \in [Requests -> Reading \cup {"none", "over"}] /\ page \in Seq(Elements)
  BY DEF PageInv, Good
<1>1. CASE ReadConversation(r)
  <2>1. /\ reading[r] = "waiting" /\ kind[r] = "stream" /\ current' = target[r]
        /\ reading'[r] = "told" /\ pc[r] \notin {"idle", "rejected"}
        /\ \A q \in Requests : q # r => reading'[q] = reading[q] /\ reading[q] \notin Reading
        /\ UNCHANGED <<vars, streaming, abort, page>>
        /\ streaming /\ abort = r
    BY <1>0, <1>1 DEF ReadConversation, NamesInv, StreamsCanBeStopped, Reading
  <2>2. UNCHANGED <<conv, pc, kind, target>>
    BY <2>1 DEF vars
  <2>3. StreamsCanBeStopped'
    BY <2>1 DEF StreamsCanBeStopped
  <2>4. NamesAreCurrent'
    BY <2>1, <2>2 DEF NamesInv, NamesAreCurrent, Exists
  <2>5. QED BY <2>1, <2>2, <2>3, <2>4 DEF NamesInv, Told, Reading, IsOf, Exists, Answer
<1>2. CASE ReadDone(r)
  <2>1. Told(r)
    BY <1>2 DEF ReadDone, Finish, Told, NamesInv, Reading
  <2>2. QED BY <1>2, <2>1, NamesWhenFinished DEF ReadDone
<1>3. CASE ReadFailure(r)
  BY <1>3, NamesWhenFinished DEF ReadFailure
<1>4. CASE Stop
  BY <1>4, NamesWhenFinished DEF Stop, PageInv
<1>5. QED BY <1>1, <1>2, <1>3, <1>4 DEF Read

\* Neither the server nor the sidebar reads or names anything.
LEMMA NamesWhenServed ==
  ASSUME PageInv, NamesInv, [UiNext]_allVars, UNCHANGED uiVars,
         \/ \E r \in Requests : Serve(r) \/ Disconnect(r)
         \/ \E c \in Convs : DeleteConversation(c)
         \/ UNCHANGED vars
  PROVE  NamesInv'
<1>0. /\ UNCHANGED <<current, streaming, abort, page, reading>> /\ TypeOK /\ Bookkeeping
      /\ StreamsCanBeStopped /\ NamesAreCurrent
  BY DEF uiVars, PageInv, NamesInv
<1>1. \A q \in Requests :
        /\ pc[q] \in {"broken", "rejected"} => pc'[q] = pc[q]
        /\ pc[q] \notin {"idle", "rejected"} => kind'[q] = kind[q]
  <2>1. ASSUME NEW r \in Requests, Serve(r) \/ Disconnect(r) PROVE KeepsRequests(r)
    BY <1>0, <2>1, ServerSteps
  <2>2. QED BY <2>1 DEF KeepsRequests, Streaming, DeleteConversation, vars
<1>2. ASSUME NEW q \in Requests, pc[q] \notin {"idle", "rejected"}
      PROVE  /\ pc'[q] \notin {"idle", "rejected"} /\ target'[q] = target[q]
             /\ conv'[target'[q]] # Absent => conv[target[q]] # Absent
  BY <1>2, ServerFrame DEF Exists
<1>3. ASSUME NEW i \in DOMAIN page', page'[i].mid # Absent,
             NEW a, a = page'[i].mid[1], conv'[target'[a]] # Absent
      PROVE  target'[a] = target[a] /\ target[a] = current /\ conv[target[a]] # Absent
  <2>1. i \in DOMAIN page /\ page'[i] = page[i]
    BY <1>0, <1>3
  <2>2. target'[a] = target[a] /\ Exists(target[a])
    BY <1>3, <2>1, NamedIsDone
  <2>3. QED BY <1>0, <1>3, <2>1, <2>2 DEF NamesAreCurrent, Exists
<1>4. StreamsCanBeStopped' /\ NamesAreCurrent'
  BY <1>0, <1>3 DEF StreamsCanBeStopped, NamesAreCurrent, Exists
<1>5. ASSUME NEW q \in Requests
      PROVE  /\ reading'[q] = "failed" => pc'[q] \in {"broken", "rejected"}
             /\ reading'[q] \in {"waiting", "told"} => pc'[q] \notin {"idle", "rejected"}
  BY <1>0, <1>1, <1>2 DEF NamesInv
<1>6. ASSUME NEW q \in Requests, NEW i \in DOMAIN page', IsOf(page'[i], q), Told(q)',
             conv'[target'[q]] # Absent
      PROVE  target'[q] = current'
  <2>1. reading[q] \in {"waiting", "told"} /\ Told(q)
    BY <1>0, <1>2, <1>1, <1>6 DEF Told, NamesInv
  <2>2. pc[q] \notin {"idle", "rejected"}
    BY <2>1 DEF NamesInv
  <2>3. QED BY <1>0, <1>2, <1>6, <2>1, <2>2 DEF NamesInv, Exists
<1>7. ASSUME NEW q \in Requests, NEW i \in DOMAIN page', reading'[q] = "waiting",
             kind'[q] = "stream", page'[i].mid # Absent,
             NEW a, a = page'[i].mid[1], conv'[target'[a]] # Absent
      PROVE  target'[a] = target'[q]
  <2>1. pc[q] \notin {"idle", "rejected"} /\ reading[q] = "waiting" /\ kind[q] = "stream"
    BY <1>0, <1>1, <1>7 DEF NamesInv
  <2>2. target'[q] = target[q] /\ target'[a] = target[a] /\ conv[target[a]] # Absent
    BY <1>2, <1>3, <1>7, <2>1
  <2>3. QED BY <1>0, <1>7, <2>1, <2>2 DEF NamesInv, Exists
<1>8. QED BY <1>4, <1>5, <1>6, <1>7 DEF NamesInv, IsOf, Told, Exists, Answer

LEMMA NamesWhenTurned ==
  ASSUME PageInv, NamesInv, UNCHANGED <<streaming, abort, reading, pc, kind>>,
         \A i \in DOMAIN page' : page'[i].mid = Absent /\ ~page'[i].live
  PROVE  NamesInv'
<1>1. StreamsCanBeStopped' /\ NamesAreCurrent'
  BY DEF StreamsCanBeStopped, NamesAreCurrent, NamesInv
<1>2. QED BY <1>1 DEF NamesInv, IsOf

LEMMA NamesInductive ==
  ASSUME PageInv, habit # "hasty", NamesInv, UsersNext
  PROVE  NamesInv'
<1>1. [UiNext]_allVars
  BY DEF UsersNext, UiNext
<1>2. ASSUME NEW r \in Requests,
             \/ Send(r)
             \/ \E i \in DOMAIN page : Edit(r, i) \/ Regenerate(r, i),
             Unread
      PROVE  NamesInv'
  BY <1>1, <1>2, RequestsArrive, NamesWhenRequested
<1>3. ASSUME ~streaming PROVE Unread
  BY <1>3 DEF NamesInv, StreamsCanBeStopped, Unread
<1>4. ASSUME NEW r \in Requests,
             \/ Send(r)
             \/ \E i \in DOMAIN page :
                  \/ MayEdit /\ Edit(r, i)
                  \/ MayRegenerate(page[i]) /\ Regenerate(r, i)
      PROVE  NamesInv'
  BY <1>2, <1>3, <1>4 DEF Send, Regenerate, MayEdit
<1>5. ASSUME NEW r \in Requests, Server(r) PROVE NamesInv'
  BY <1>1, <1>5, NamesWhenServed DEF Server
<1>6. CASE Sidebar
  <2>1. ASSUME NEW c \in Convs, OpenConversation(c) PROVE NamesInv'
    <3>1. \A i \in DOMAIN page' : page'[i].mid = Absent /\ ~page'[i].live
      BY <2>1 DEF OpenConversation, Rendered, Element
    <3>2. QED BY <2>1, <3>1, NamesWhenTurned DEF OpenConversation, vars
  <2>2. ASSUME page' = <<>> PROVE \A i \in DOMAIN page' : page'[i].mid = Absent /\ ~page'[i].live
    BY <2>2
  <2>3. ASSUME NEW c \in Convs, Delete(c) PROVE NamesInv'
    <3>1. CASE c = current
      BY <2>2, <2>3, <3>1, NamesWhenTurned DEF Delete, NewChat, DeleteConversation
    <3>2. CASE c # current
      BY <1>1, <2>3, <3>2, NamesWhenServed DEF Delete
    <3>3. QED BY <3>1, <3>2
  <2>4. CASE NewChat /\ UNCHANGED vars
    BY <2>2, <2>4, NamesWhenTurned DEF NewChat, vars
  <2>5. QED BY <1>6, <2>1, <2>3, <2>4 DEF Sidebar
<1>7. ASSUME NEW r \in Requests, Read(r) PROVE NamesInv'
  BY <1>7, NamesWhenRead
<1>8. ASSUME Stop PROVE NamesInv'
  BY <1>8, NamesWhenRead DEF Stop, PageInv
<1>9. QED BY <1>4, <1>5, <1>6, <1>7, <1>8 DEF UsersNext

-----------------------------------------------------------------------------
(* The patient user.                                                        *)

\* Something on the page is the message with the given id, or is to become it.
Stands(id) == \E i \in DOMAIN page : page[i].id = id

\* The page shows a conversation, and what its streams will add to it.
Visible(c) ==
  /\ \A i \in DOMAIN conv[c] : Stands(conv[c][i].id)
  /\ \A q \in Requests : pc[q] \in Streaming /\ target[q] = c =>
       /\ Stands(Answer(q).id)
       /\ pc[q] = "opened" /\ Persists(q) => Stands(Question(q).id)

\* Conversations begin with a question, which no regeneration cuts off.
QuestionsFirst ==
  /\ \A c \in Convs : Exists(c) /\ conv[c] # <<>> => conv[c][1].role = "user"
  /\ \A r \in Requests :
       /\ pc[r] \in Streaming /\ Exists(target[r])
       /\ pc[r] # "opened" \/ ~Persists(r)
       => conv[target[r]] # <<>>

\* Why nothing is hidden from the patient: the page shows the conversation it is in,
\* or is about to be in.
PatientInv ==
  /\ \A r \in Requests : kind[r] # "edit"
  /\ QuestionsFirst
  /\ current \in born \cup {Absent}
  /\ Known(current) => Visible(current)
  /\ \A r \in Requests :
       reading[r] = "waiting" /\ kind[r] = "stream" /\ Exists(target[r]) =>
         Visible(target[r])

LEMMA ConversationOfMessages ==
  ASSUME TypeOK, NEW c \in Convs, Exists(c)
  PROVE  /\ conv[c] \in Seq(Messages) /\ Len(conv[c]) \in Nat
         /\ DOMAIN conv[c] = 1 .. Len(conv[c])
         /\ \A j \in DOMAIN conv[c] : conv[c][j].id[2] = conv[c][j].role
<1>1. conv[c] \in Seq(Messages)
  BY DEF TypeOK, Exists
<1>2. Len(conv[c]) \in Nat /\ DOMAIN conv[c] = 1 .. Len(conv[c])
  BY <1>1, LenProperties
<1>3. ASSUME NEW j \in DOMAIN conv[c] PROVE conv[c][j].id[2] = conv[c][j].role
  <2>1. conv[c][j] \in Messages
    BY <1>1, <1>2, ElementOfSeq
  <2>2. PICK a \in Requests, role \in Roles : conv[c][j] = [id |-> <<a, role>>, role |-> role]
    BY <2>1 DEF Messages
  <2>3. QED BY <2>2
<1>4. QED BY <1>1, <1>2, <1>3

\* A regeneration cuts the answer off and not the first question; what cannot be
\* regenerated is not in the conversation.
LEMMA RegenerationCuts ==
  ASSUME TypeOK, NEW c \in Convs, NEW id, CanRegenerate(c, id)
  PROVE  LET cut == Truncated(conv[c], id, TRUE)
         IN  /\ cut # <<>> /\ cut # Absent
             /\ \A j \in DOMAIN cut :
                  j \in DOMAIN conv[c] /\ cut[j] = conv[c][j] /\ cut[j].id # id
<1> DEFINE p == PositionOf(conv[c], id)
           cut == Truncated(conv[c], id, TRUE)
<1>1. Exists(c) /\ Holds(conv[c], id) /\ UserTurnsBefore(conv[c], id) # {}
  BY DEF CanRegenerate
<1>2. conv[c] \in Seq(Messages) /\ Len(conv[c]) \in Nat /\ DOMAIN conv[c] = 1 .. Len(conv[c])
  BY <1>1, ConversationOfMessages
<1>3. p \in 1 .. Len(conv[c]) /\ \A j \in 1 .. p - 1 : conv[c][j].id # id
  BY <1>1, <1>2, PositionProperties
<1>4. p > 1
  BY <1>1, <1>2, <1>3 DEF UserTurnsBefore, UserTurns
<1>5. /\ cut \in Seq(Messages) /\ Len(cut) = p - 1
      /\ \A j \in 1 .. p - 1 : cut[j] = conv[c][j]
  <2>1. cut = SubSeq(conv[c], 1, p - 1)
    BY <1>1 DEF Truncated
  <2> HIDE DEF cut, p
  <2>2. \A j \in 1 .. p - 1 : conv[c][j] \in Messages /\ 1 + j - 1 = j
    BY <1>2, <1>3, ElementOfSeq
  <2>3. QED BY <1>2, <1>3, <2>1, <2>2, SubSeqProperties
<1> HIDE DEF cut, p
<1>6. DOMAIN cut = 1 .. p - 1 /\ cut # Absent
  BY <1>5, LenProperties, AbsentAssumption
<1>7. cut # <<>>
  BY <1>3, <1>4, <1>5, EmptySeq
<1>8. \A j \in 1 .. p - 1 : j \in 1 .. Len(conv[c])
  BY <1>2, <1>3
<1>9. QED BY <1>2, <1>3, <1>5, <1>6, <1>7, <1>8 DEF cut

LEMMA RefusedIsNotHeld ==
  ASSUME TypeOK, QuestionsFirst, NEW c \in Convs, Exists(c),
         NEW id, id[2] = "assistant", ~CanRegenerate(c, id)
  PROVE  ~Holds(conv[c], id)
<1> SUFFICES ASSUME Holds(conv[c], id) PROVE FALSE
  OBVIOUS
<1> DEFINE p == PositionOf(conv[c], id)
<1>1. /\ conv[c] \in Seq(Messages) /\ Len(conv[c]) \in Nat /\ DOMAIN conv[c] = 1 .. Len(conv[c])
      /\ \A j \in DOMAIN conv[c] : conv[c][j].id[2] = conv[c][j].role
  BY ConversationOfMessages
<1>2. p \in 1 .. Len(conv[c]) /\ conv[c][p].id = id
  BY <1>1, PositionProperties
<1>3. conv[c][p].role = "assistant"
  BY <1>1, <1>2
<1>4. conv[c] # <<>>
  BY <1>1, <1>2, EmptySeq
<1>5. conv[c][1].role = "user" /\ 1 \in DOMAIN conv[c]
  BY <1>1, <1>2, <1>4 DEF QuestionsFirst
<1>6. UserTurnsBefore(conv[c], id) = {}
  BY DEF CanRegenerate
<1>7. ~(1 < p)
  BY <1>5, <1>6 DEF UserTurnsBefore, UserTurns
<1>8. p = 1
  BY <1>1, <1>2, <1>7
<1>9. QED BY <1>3, <1>5, <1>8

\* The server keeps both.
LEMMA ServedInPlace ==
  ASSUME TypeOK, Bookkeeping, NEW r \in Requests, Serve(r) \/ Disconnect(r),
         NEW c \in Convs, conv'[c] # Absent
  PROVE  /\ Exists(c)
         /\ \/ conv'[c] = conv[c]
            \/ /\ target[r] = c /\ pc[r] = "opened" /\ Persists(r)
               /\ conv'[c] = Append(conv[c], Question(r))
            \/ /\ target[r] = c /\ pc[r] # "opened" /\ pc'[r] \notin Streaming
               /\ conv'[c] = Append(conv[c], Answer(r))
<1>1. CASE conv' = conv
  BY <1>1 DEF Exists
<1>2. ASSUME NEW m, ServerWrites(r, m)
      PROVE  /\ Exists(c)
             /\ conv'[c] = conv[c] \/ (target[r] = c /\ conv'[c] = Append(conv[c], m))
  BY <1>2 DEF ServerWrites, TypeOK, Exists
<1>3. QED BY <1>1, <1>2, ServerSteps

LEMMA QuestionsWhenServed ==
  ASSUME TypeOK, Bookkeeping, QuestionsFirst, NEW r \in Requests, Serve(r) \/ Disconnect(r)
  PROVE  QuestionsFirst'
<1>0. KeepsRequests(r)
  BY ServerSteps
<1>1. ASSUME NEW c \in Convs, conv'[c] # Absent
      PROVE  /\ Exists(c)
             /\ conv[c] # <<>> => conv'[c] # <<>> /\ conv'[c][1] = conv[c][1]
             /\ conv[c] = <<>> => conv'[c] = <<>> \/ conv'[c] = Append(<<>>, Question(r))
  <2>0. Exists(c) /\ conv[c] \in Seq(Messages)
    BY <1>1, ServedInPlace, ConversationOfMessages
  <2>1. ASSUME NEW m \in Messages, conv'[c] = Append(conv[c], m)
        PROVE  conv[c] # <<>> => conv'[c] # <<>> /\ conv'[c][1] = conv[c][1]
    BY <2>0, <2>1, AppendProperties, EmptySeq, LenProperties
  <2>2. conv[c] = <<>> /\ target[r] = c => pc[r] = "opened"
    BY <1>0, <2>0 DEF QuestionsFirst, KeepsRequests
  <2>3. QED BY <1>1, <2>0, <2>1, <2>2, ServedInPlace, OwnMessages
<1>2. Append(<<>>, Question(r))[1].role = "user"
  <2>1. Append(<<>>, Question(r))[1] = Question(r)
    BY OwnMessages, EmptySeq, AppendProperties
  <2>2. QED BY <2>1 DEF Question
<1>3. ASSUME NEW c \in Convs, conv'[c] # Absent, conv'[c] # <<>>
      PROVE  conv'[c][1].role = "user"
  BY <1>1, <1>2, <1>3 DEF QuestionsFirst
<1>4. ASSUME NEW q \in Requests, pc'[q] \in Streaming, conv'[target'[q]] # Absent,
             pc'[q] # "opened" \/ ~(kind'[q] # "regenerate")
      PROVE  conv'[target'[q]] # <<>>
  <2>1. target'[q] = target[q] /\ kind'[q] = kind[q] /\ pc[q] \in Streaming
    BY <1>0, <1>4 DEF KeepsRequests
  <2>2. target[q] \in Convs
    BY <2>1, TargetKnown DEF Streaming
  <2>3. Exists(target[q]) /\ (conv[target[q]] # <<>> => conv'[target[q]] # <<>>)
    BY <1>1, <1>4, <2>1, <2>2
  <2>4. CASE pc[q] # "opened" \/ ~Persists(q)
    BY <2>1, <2>3, <2>4 DEF QuestionsFirst
  <2>5. CASE pc[q] = "opened" /\ Persists(q)
    <3>1. q = r
      BY <1>0, <1>4, <2>1, <2>5 DEF KeepsRequests, Persists
    <3>2. ServerWrites(r, Question(r))
      BY <1>4, <2>5, <3>1, ServerSteps
    <3>3. conv'[target[r]] = Append(conv[target[r]], Question(r))
      BY <3>2 DEF ServerWrites, TypeOK
    <3>4. conv[target[q]] \in Seq(Messages)
      BY <2>2, <2>3, ConversationOfMessages
    <3>5. Append(conv[target[q]], Question(q)) # <<>>
      BY <3>4, OwnMessages, AppendProperties, EmptySeq, LenProperties
    <3>6. QED BY <2>1, <3>1, <3>3, <3>5
  <2>6. QED BY <2>4, <2>5
<1>5. QED BY <1>3, <1>4 DEF QuestionsFirst, Exists, Persists

LEMMA VisibleWhenServed ==
  ASSUME TypeOK, Bookkeeping, NEW r \in Requests, Serve(r) \/ Disconnect(r), page' = page,
         NEW c \in Convs, conv'[c] # Absent, Visible(c)
  PROVE  Visible(c)'
<1>0. KeepsRequests(r)
  BY ServerSteps
<1>1. ASSUME NEW i \in DOMAIN conv'[c] PROVE Stands(conv'[c][i].id)
  <2>1. conv[c] \in Seq(Messages) /\ Exists(c)
    BY ServedInPlace, ConversationOfMessages
  <2>2. ASSUME NEW m \in Messages, conv'[c] = Append(conv[c], m)
        PROVE  conv'[c][i] = m \/ (i \in DOMAIN conv[c] /\ conv'[c][i] = conv[c][i])
    BY <1>1, <2>1, <2>2, AppendProperties, LenProperties
  <2>3. \/ /\ conv'[c][i] = Question(r)
           /\ target[r] = c /\ pc[r] = "opened" /\ Persists(r)
        \/ conv'[c][i] = Answer(r) /\ target[r] = c
        \/ i \in DOMAIN conv[c] /\ conv'[c][i] = conv[c][i]
    BY <1>1, <2>2, ServedInPlace, OwnMessages
  <2>4. QED BY <1>0, <2>3 DEF Visible, KeepsRequests
<1>2. ASSUME NEW q \in Requests, pc'[q] \in Streaming, target'[q] = c
      PROVE  /\ Stands(Answer(q).id)
             /\ pc'[q] = "opened" /\ kind'[q] # "regenerate" => Stands(Question(q).id)
  <2>1. /\ pc[q] \in Streaming /\ target[q] = c /\ kind'[q] = kind[q]
        /\ pc'[q] = "opened" => pc[q] = "opened"
    BY <1>0, <1>2 DEF KeepsRequests
  <2>2. Stands(Answer(q).id) /\ (pc[q] = "opened" /\ Persists(q) => Stands(Question(q).id))
    BY <2>1 DEF Visible
  <2>3. QED BY <2>1, <2>2 DEF Persists
<1>3. QED BY <1>1, <1>2 DEF Visible, Persists, Stands, Answer, Question

\* What still shows after a request r: all but what has Gone, and what r will add.
LEMMA VisibleStays ==
  ASSUME NEW c, Visible(c), NEW Gone, NEW r \in Requests,
         \A id : Stands(id) /\ id \notin Gone => Stands(id)',
         \A i \in DOMAIN conv'[c] :
           i \in DOMAIN conv[c] /\ conv'[c][i] = conv[c][i] /\ conv'[c][i].id \notin Gone,
         Stands(Answer(r).id)', kind'[r] # "regenerate" => Stands(Question(r).id)',
         \A q \in Requests : q # r =>
           /\ pc'[q] = pc[q] /\ target'[q] = target[q] /\ kind'[q] = kind[q]
           /\ pc[q] \in Streaming => Answer(q).id \notin Gone /\ Question(q).id \notin Gone
  PROVE  Visible(c)'
<1>1. ASSUME NEW i \in DOMAIN conv'[c]
      PROVE  \E k \in DOMAIN page' : page'[k].id = conv'[c][i].id
  <2>1. i \in DOMAIN conv[c] /\ conv'[c][i] = conv[c][i] /\ conv[c][i].id \notin Gone
    BY <1>1
  <2>2. Stands(conv[c][i].id)
    BY <2>1 DEF Visible
  <2> DEFINE id == conv[c][i].id
  <2>3. id \notin Gone /\ Stands(id)
    BY <2>1, <2>2
  <2> HIDE DEF id
  <2>4. \E k \in DOMAIN page' : page'[k].id = id
    BY <2>3 DEF Stands
  <2>5. QED BY <2>1, <2>4 DEF id
<1>2. ASSUME NEW q \in Requests, pc'[q] \in Streaming, target'[q] = c
      PROVE  /\ Stands(Answer(q).id)'
             /\ pc'[q] = "opened" /\ kind'[q] # "regenerate" => Stands(Question(q).id)'
  <2>1. CASE q = r
    BY <2>1
  <2>2. CASE q # r
    <3>1. /\ pc[q] \in Streaming /\ target[q] = c /\ pc'[q] = pc[q] /\ kind'[q] = kind[q]
          /\ Answer(q).id \notin Gone /\ Question(q).id \notin Gone
      BY <1>2, <2>2
    <3>2. Stands(Answer(q).id) /\ (pc[q] = "opened" /\ Persists(q) => Stands(Question(q).id))
      BY <3>1 DEF Visible
    <3>3. Stands(Answer(q).id)'
      BY <3>1, <3>2 DEF Answer
    <3>4. Stands(Question(q).id) => Stands(Question(q).id)'
      BY <3>1 DEF Question
    <3>5. QED BY <3>1, <3>2, <3>3, <3>4 DEF Persists
  <2>3. QED BY <2>1, <2>2
<1>3. QED BY <1>1, <1>2 DEF Visible, Persists, Stands

\* What a request leaves of the page, and its answer.
LEMMA AnswerBelow ==
  ASSUME NEW r \in Requests, NEW kept \in Seq(Elements), StreamRequest(r, kept)
  PROVE  /\ \A k \in DOMAIN kept : \A id : kept[k].id = id => Stands(id)'
         /\ Stands(Answer(r).id)'
<1> DEFINE el == [id |-> Answer(r).id, mid |-> Absent, live |-> TRUE]
<1>1. page' = Append(kept, el) /\ el \in Elements
  BY OwnIds DEF StreamRequest
<1>2. el.id = Answer(r).id
  OBVIOUS
<1> HIDE DEF el
<1>3. /\ Append(kept, el) \in Seq(Elements) /\ Len(Append(kept, el)) = Len(kept) + 1
      /\ Append(kept, el)[Len(kept) + 1] = el
      /\ \A k \in 1 .. Len(kept) : Append(kept, el)[k] = kept[k]
  BY <1>1, AppendProperties
<1>4. Len(kept) \in Nat /\ DOMAIN kept = 1 .. Len(kept)
      /\ DOMAIN page' = 1 .. Len(kept) + 1
  BY <1>1, <1>3, LenProperties
<1>5. \A k \in DOMAIN kept : k \in DOMAIN page' /\ page'[k] = kept[k]
  BY <1>1, <1>3, <1>4
<1>6. Len(kept) + 1 \in DOMAIN page' /\ page'[Len(kept) + 1] = el
  BY <1>1, <1>3, <1>4
<1>7. QED BY <1>2, <1>5, <1>6 DEF Stands, Answer

LEMMA PatientWhenSent ==
  ASSUME PageInv, PatientInv, NEW r \in Requests, Send(r), Unread
  PROVE  PatientInv'
<1>0. TypeOK /\ Bookkeeping /\ page \in Seq(Elements) /\ QuestionsFirst
      /\ reading \in [Requests -> Reading \cup {"none", "over"}]
  BY DEF PageInv, Good, PatientInv
<1> DEFINE el == Element(Question(r).id)
           kept == Append(page, el)
<1>1. el \in Elements /\ el.id = Question(r).id
  BY OwnIds DEF Element
<1>2. StreamRequest(r, kept)
  BY DEF Send
<1> HIDE DEF el
<1>3. /\ kept \in Seq(Elements) /\ DOMAIN kept = 1 .. Len(page) + 1 /\ Len(page) \in Nat
      /\ kept[Len(page) + 1] = el /\ DOMAIN page = 1 .. Len(page)
      /\ \A k \in 1 .. Len(page) : kept[k] = page[k]
  BY <1>0, <1>1, AppendProperties, LenProperties
<1> HIDE DEF kept
<1>4. /\ \A id : Stands(id) => Stands(id)'
      /\ Stands(Answer(r).id)'
      /\ Stands(Question(r).id)'
  <2>1. /\ \A k \in DOMAIN kept : \A id : kept[k].id = id => Stands(id)'
        /\ Stands(Answer(r).id)'
    BY <1>2, <1>3, AnswerBelow
  <2>2. \A k \in DOMAIN page : k \in DOMAIN kept /\ kept[k] = page[k]
    BY <1>3
  <2>3. Len(page) + 1 \in DOMAIN kept /\ kept[Len(page) + 1] = el
    BY <1>3
  <2>4. ASSUME NEW id, Stands(id) PROVE Stands(id)'
    BY <2>1, <2>2, <2>4 DEF Stands
  <2>5. \A id : id = el.id => Stands(id)'
    BY <2>1, <2>3
  <2>6. Stands(Question(r).id)'
    BY <1>1, <2>5 DEF Question
  <2>7. QED BY <2>1, <2>4, <2>6
<1>5. /\ current' = current
      /\ \A q \in Requests : q # r => reading'[q] \notin Reading
      /\ reading'[r] = "waiting" => pc'[r] \in Streaming
  BY <1>0, <1>2 DEF StreamRequest, Unread
<1>6. PICK c \in Convs :
        IF Known(current) THEN c = current /\ OpenStream(r, c) ELSE OpenStreamOnNew(r, c)
  BY DEF Send, PageInv, Known
<1>7. /\ kind' = [kind EXCEPT ![r] = "stream"] /\ target' = [target EXCEPT ![r] = c]
      /\ \A q \in Requests : q # r => pc'[q] = pc[q] /\ target'[q] = target[q] /\ kind'[q] = kind[q]
      /\ kind'[r] = "stream" /\ target'[r] = c
      /\ pc'[r] \in {"opened", "broken"} /\ pc[r] = "idle" /\ born \subseteq born'
  BY <1>0, <1>6 DEF OpenStream, OpenStreamOnNew, OpenAfterSave, GoTo, TypeOK
<1>8. CASE Known(current)
  <2>1. conv' = conv /\ c = current /\ born' = born
    BY <1>6, <1>8 DEF OpenStream
  <2>2. Visible(c)'
    <3>1. Visible(c)
      BY <1>8, <2>1 DEF PatientInv
    <3>2. \A i \in DOMAIN conv'[c] : i \in DOMAIN conv[c] /\ conv'[c][i] = conv[c][i]
      BY <2>1
    <3> DEFINE Gone == {}
    <3>3. /\ \A id : Stands(id) /\ id \notin Gone => Stands(id)'
          /\ \A i \in DOMAIN conv'[c] :
               i \in DOMAIN conv[c] /\ conv'[c][i] = conv[c][i] /\ conv'[c][i].id \notin Gone
          /\ \A q \in Requests : q # r =>
               /\ pc'[q] = pc[q] /\ target'[q] = target[q] /\ kind'[q] = kind[q]
               /\ pc[q] \in Streaming => Answer(q).id \notin Gone /\ Question(q).id \notin Gone
      BY <1>4, <1>7, <3>2
    <3> HIDE DEF Gone
    <3>4. QED BY <1>4, <3>1, <3>3, VisibleStays
  <2>3. QuestionsFirst'
    <3>1. ASSUME NEW q \in Requests, pc'[q] \in Streaming, conv'[target'[q]] # Absent,
                 pc'[q] # "opened" \/ ~(kind'[q] # "regenerate")
          PROVE  conv'[target'[q]] # <<>>
      <4>1. q # r
        BY <1>7, <3>1 DEF Streaming
      <4>2. QED BY <1>0, <1>7, <2>1, <3>1, <4>1 DEF QuestionsFirst, Exists, Persists
    <3>2. \A d \in Convs : conv'[d] # Absent /\ conv'[d] # <<>> => conv'[d][1].role = "user"
      BY <1>0, <2>1 DEF QuestionsFirst, Exists
    <3>3. QED BY <3>1, <3>2 DEF QuestionsFirst, Exists, Persists
  <2>4. \A q \in Requests : reading'[q] = "waiting" => q = r
    BY <1>5 DEF Reading
  <2>5. /\ \A q \in Requests : kind'[q] # "edit"
        /\ current' \in born' \cup {Absent}
    BY <1>5, <1>7, <2>1 DEF PatientInv
  <2>6. c = current' /\ \A q \in Requests : reading'[q] = "waiting" => target'[q] = c
    BY <1>5, <1>7, <2>1, <2>4
  <2>7. QED BY <2>2, <2>3, <2>5, <2>6 DEF PatientInv, Visible
<1>9. CASE ~Known(current)
  <2>1. c \notin born /\ conv' = [conv EXCEPT ![c] = <<>>] /\ conv'[c] = <<>>
    BY <1>0, <1>6, <1>9 DEF OpenStreamOnNew, TypeOK
  <2>2. \A q \in Requests : q # r /\ pc[q] \in Streaming => target[q] # c
    BY <1>0, <2>1 DEF Bookkeeping, Streaming
  <2>3. Visible(c)'
    BY <1>4, <1>7, <2>1, <2>2 DEF Visible
  <2>4. current # c /\ ~Known(current)'
    BY <1>5, <1>9, <2>1, RequestsAssumption DEF Known, Exists, PatientInv
  <2>5. QuestionsFirst'
    <3>1. \A d \in Convs : d # c => conv'[d] = conv[d]
      BY <1>0, <2>1 DEF TypeOK
    <3>2. \A q \in Requests : pc[q] \in Streaming => target[q] \in Convs
      BY <1>0, TargetKnown DEF Streaming
    <3>3. ASSUME NEW q \in Requests, pc'[q] \in Streaming, conv'[target'[q]] # Absent,
                 pc'[q] # "opened" \/ ~(kind'[q] # "regenerate")
          PROVE  conv'[target'[q]] # <<>>
      <4>1. q # r
        BY <1>7, <3>3 DEF Streaming
      <4>2. /\ pc[q] \in Streaming /\ pc'[q] = pc[q] /\ kind'[q] = kind[q]
            /\ target'[q] = target[q] /\ conv'[target[q]] = conv[target[q]]
        BY <1>7, <2>2, <3>1, <3>2, <3>3, <4>1
      <4>3. QED BY <1>0, <3>3, <4>2 DEF QuestionsFirst, Exists, Persists
    <3>4. \A d \in Convs : conv'[d] # Absent /\ conv'[d] # <<>> => conv'[d][1].role = "user"
      BY <1>0, <2>1, <3>1 DEF QuestionsFirst, Exists
    <3>5. QED BY <3>3, <3>4 DEF QuestionsFirst, Exists, Persists
  <2>6. \A q \in Requests : reading'[q] = "waiting" => target'[q] = c
    BY <1>5, <1>7 DEF Reading
  <2>7. /\ \A q \in Requests : kind'[q] # "edit"
        /\ current' \in born' \cup {Absent}
    BY <1>5, <1>7 DEF PatientInv
  <2>8. QED BY <2>3, <2>4, <2>5, <2>6, <2>7 DEF PatientInv, Visible
<1>10. QED BY <1>8, <1>9

\* A regeneration takes away what it cuts off, and nothing else.
LEMMA PatientWhenRegenerated ==
  ASSUME PageInv, PatientInv, NEW r \in Requests, Unread,
         NEW i \in DOMAIN page, page[i].mid # Absent, Regenerate(r, i)
  PROVE  PatientInv'
<1>0. /\ TypeOK /\ Bookkeeping /\ page \in Seq(Elements) /\ QuestionsFirst
      /\ reading \in [Requests -> Reading \cup {"none", "over"}]
      /\ DOMAIN page = 1 .. Len(page) /\ Len(page) \in Nat
  BY LenProperties DEF PageInv, Good, PatientInv
<1> DEFINE id == page[i].id
           kept == RemoveAt(page, i)
<1>1. page[i].mid = id /\ id \in MessageIds /\ id[2] = "assistant" /\ pc[id[1]] = "done"
  <2>1. page[i] \in Elements /\ WellNamed(page[i], pc)
    BY <1>0, ElementOfSeq DEF PageInv, Good
  <2>2. id \in MessageIds /\ id[2] = "assistant"
    BY <2>1 DEF Elements, Regenerate
  <2>3. QED BY <2>1, <2>2 DEF WellNamed
<1>2. PICK a \in Requests : id = <<a, "assistant">> /\ pc[a] = "done"
  <2>1. PICK a \in Requests, role \in Roles : id = <<a, role>>
    BY <1>1 DEF MessageIds
  <2>2. role = "assistant" /\ id[1] = a
    BY <1>1, <2>1
  <2>3. QED BY <1>1, <2>1, <2>2
<1>3. IF Known(current) /\ CanRegenerate(current, id)
      THEN OpenRegenerate(r, current, id) ELSE Unknown(r, "regenerate")
  BY <1>1 DEF Regenerate
<1>4. StreamRequest(r, kept)
  BY DEF Regenerate
<1>5. /\ kept \in Seq(Elements) /\ DOMAIN kept = 1 .. Len(page) - 1
      /\ \A j \in 1 .. Len(page) - 1 : kept[j] = IF j < i THEN page[j] ELSE page[j + 1]
  BY <1>0, RemovedProperties, LenProperties
<1> HIDE DEF id, kept
<1> DEFINE Gone == {id}
<1>6. /\ \A m : Stands(m) /\ m \notin Gone => Stands(m)'
      /\ Stands(Answer(r).id)'
  <2>1. /\ \A k \in DOMAIN kept : \A m : kept[k].id = m => Stands(m)'
        /\ Stands(Answer(r).id)'
    BY <1>4, <1>5, AnswerBelow
  <2>2. ASSUME NEW j \in DOMAIN page, page[j].id # id
        PROVE  \E k \in DOMAIN kept : kept[k] = page[j]
    <3>1. j # i
      BY <2>2 DEF id
    <3>2. CASE j < i
      <4>1. j \in 1 .. Len(page) - 1
        BY <1>0, <3>2
      <4>2. QED BY <1>5, <3>2, <4>1
    <3>3. CASE j > i
      <4>1. j - 1 \in 1 .. Len(page) - 1 /\ ~(j - 1 < i) /\ j - 1 + 1 = j
        BY <1>0, <3>3
      <4>2. QED BY <1>5, <4>1
    <3>4. QED BY <1>0, <3>1, <3>2, <3>3
  <2>3. QED BY <2>1, <2>2 DEF Stands
<1>7. /\ current' = current
      /\ \A q \in Requests : q # r => reading'[q] \notin Reading
  BY <1>0, <1>4 DEF StreamRequest, Unread
<1>8. /\ kind'[r] = "regenerate" /\ born' = born
      /\ \A q \in Requests : q # r =>
           pc'[q] = pc[q] /\ target'[q] = target[q] /\ kind'[q] = kind[q]
  BY <1>0, <1>3 DEF OpenRegenerate, Unknown, OpenAfterSave, GoTo, TypeOK
<1>9. \A q \in Requests : q # r =>
        /\ pc'[q] = pc[q] /\ target'[q] = target[q] /\ kind'[q] = kind[q]
        /\ pc[q] \in Streaming => Answer(q).id \notin Gone /\ Question(q).id \notin Gone
  <2>1. ASSUME NEW q \in Requests, pc[q] \in Streaming
        PROVE  <<q, "assistant">> # <<a, "assistant">> /\ <<q, "user">> # <<a, "assistant">>
    BY <1>2, <2>1 DEF Streaming
  <2>2. QED BY <1>2, <1>8, <2>1 DEF Answer, Question
<1>10. \A q \in Requests : ~(reading'[q] = "waiting" /\ kind'[q] = "stream")
  BY <1>7, <1>8 DEF Reading
<1>11. ASSUME NEW c \in Convs, Exists(c), c = current
       PROVE  \A j \in DOMAIN conv'[c] :
                j \in DOMAIN conv[c] /\ conv'[c][j] = conv[c][j] /\ conv'[c][j].id \notin Gone
  <2>1. Known(current)
    BY <1>11, RequestsAssumption DEF Known
  <2>2. CASE CanRegenerate(c, id)
    <3>1. conv'[c] = Truncated(conv[c], id, TRUE)
      BY <1>0, <1>3, <1>11, <2>1, <2>2 DEF OpenRegenerate, TypeOK
    <3>2. \A j \in DOMAIN Truncated(conv[c], id, TRUE) :
            /\ j \in DOMAIN conv[c] /\ Truncated(conv[c], id, TRUE)[j] = conv[c][j]
            /\ Truncated(conv[c], id, TRUE)[j].id # id
      BY <1>0, <2>2, RegenerationCuts
    <3>3. QED BY <3>1, <3>2
  <2>3. CASE ~CanRegenerate(c, id)
    <3>1. conv' = conv
      BY <1>3, <1>11, <2>3 DEF Unknown
    <3>2. ~Holds(conv[c], id)
      BY <1>0, <1>1, <1>11, <2>3, RefusedIsNotHeld DEF id
    <3>3. QED BY <3>1, <3>2 DEF Holds
  <2>4. QED BY <2>2, <2>3
<1>12. ASSUME NEW c \in Convs, conv'[c] # Absent
       PROVE  /\ Exists(c) /\ (conv[c] # <<>> => conv'[c] # <<>>)
              /\ conv'[c] # <<>> => conv[c] # <<>> /\ conv'[c][1] = conv[c][1]
  <2>1. CASE conv' = conv
    BY <1>12, <2>1 DEF Exists
  <2>2. CASE Known(current) /\ CanRegenerate(current, id) /\ c = current
    <3>1. conv'[c] = Truncated(conv[c], id, TRUE) /\ Exists(c)
      BY <1>0, <1>3, <2>2 DEF OpenRegenerate, TypeOK, CanRegenerate
    <3>2. /\ conv[c] \in Seq(Messages) /\ Len(conv[c]) \in Nat
          /\ DOMAIN conv[c] = 1 .. Len(conv[c])
      BY <1>0, <3>1, ConversationOfMessages
    <3>3. /\ conv'[c] # <<>>
          /\ \A j \in DOMAIN conv'[c] : j \in DOMAIN conv[c] /\ conv'[c][j] = conv[c][j]
      <4>1. /\ Truncated(conv[c], id, TRUE) # <<>>
            /\ \A j \in DOMAIN Truncated(conv[c], id, TRUE) :
                 j \in DOMAIN conv[c] /\ Truncated(conv[c], id, TRUE)[j] = conv[c][j]
        <5>1. CanRegenerate(c, id)
          BY <2>2
        <5>2. Truncated(conv[c], id, TRUE) # <<>>
          BY <1>0, <5>1, RegenerationCuts
        <5>3. \A j \in DOMAIN Truncated(conv[c], id, TRUE) :
                /\ j \in DOMAIN conv[c] /\ Truncated(conv[c], id, TRUE)[j] = conv[c][j]
                /\ Truncated(conv[c], id, TRUE)[j].id # id
          BY <1>0, <5>1, RegenerationCuts
        <5>4. QED BY <5>2, <5>3
      <4>2. QED BY <3>1, <4>1
    <3>4. 1 \in DOMAIN conv'[c]
      <4>1. conv'[c] \in Seq(Messages)
        BY <3>1, <3>2, TruncatedIsCut
      <4>2. DOMAIN conv'[c] = 1 .. Len(conv'[c]) /\ Len(conv'[c]) \in Nat
            /\ Len(conv'[c]) # 0
        BY <3>3, <4>1, LenProperties, EmptySeq
      <4>3. QED BY <4>2
    <3>5. conv[c] # <<>>
      BY <3>2, <3>3, <3>4, EmptySeq
    <3>6. QED BY <3>1, <3>3, <3>4, <3>5
  <2>3. CASE Known(current) /\ CanRegenerate(current, id) /\ c # current
    <3>1. conv'[c] = conv[c]
      BY <1>0, <1>3, <2>3 DEF OpenRegenerate, TypeOK
    <3>2. QED BY <1>12, <3>1 DEF Exists
  <2>4. QED BY <1>3, <2>1, <2>2, <2>3 DEF Unknown
<1>13. QuestionsFirst'
  <2>1. ASSUME NEW q \in Requests, pc'[q] \in Streaming, conv'[target'[q]] # Absent,
               pc'[q] # "opened" \/ ~(kind'[q] # "regenerate")
        PROVE  conv'[target'[q]] # <<>>
    <3>1. CASE q # r
      <4>1. /\ pc[q] \in Streaming /\ pc'[q] = pc[q] /\ kind'[q] = kind[q]
            /\ target'[q] = target[q]
        BY <1>8, <2>1, <3>1
      <4>2. target[q] \in Convs
        BY <1>0, <4>1, TargetKnown DEF Streaming
      <4>3. Exists(target[q]) /\ (conv[target[q]] # <<>> => conv'[target[q]] # <<>>)
        BY <1>12, <2>1, <4>1, <4>2
      <4>4. conv[target[q]] # <<>>
        BY <1>0, <2>1, <4>1, <4>3 DEF QuestionsFirst, Persists
      <4>5. QED BY <4>1, <4>3, <4>4
    <3>2. CASE q = r
      <4>1. Known(current) /\ CanRegenerate(current, id) /\ OpenRegenerate(r, current, id)
        BY <1>0, <1>3, <2>1, <3>2 DEF Unknown, GoTo, TypeOK, Streaming
      <4>2. current \in Convs
        BY <4>1 DEF Known, PageInv
      <4>3. target'[r] = current /\ conv'[current] = Truncated(conv[current], id, TRUE)
        BY <1>0, <4>1, <4>2 DEF OpenRegenerate, TypeOK
      <4>4. Truncated(conv[current], id, TRUE) # <<>>
        BY <1>0, <4>1, <4>2, RegenerationCuts
      <4>5. QED BY <3>2, <4>3, <4>4
    <3>3. QED BY <3>1, <3>2
  <2>2. \A d \in Convs : conv'[d] # Absent /\ conv'[d] # <<>> => conv'[d][1].role = "user"
    BY <1>0, <1>12 DEF QuestionsFirst
  <2>3. QED BY <2>1, <2>2 DEF QuestionsFirst, Exists, Persists
<1>14. ASSUME NEW c \in Convs, c = current, conv'[c] # Absent PROVE Visible(c)'
  <2>1. Exists(c)
    BY <1>12, <1>14
  <2>2. Visible(c)
    BY <1>14, <2>1, RequestsAssumption DEF PatientInv, Known
  <2>3. \A j \in DOMAIN conv'[c] :
          j \in DOMAIN conv[c] /\ conv'[c][j] = conv[c][j] /\ conv'[c][j].id \notin Gone
    BY <1>11, <1>14, <2>1
  <2> HIDE DEF Gone
  <2>4. QED BY <1>6, <1>8, <1>9, <2>2, <2>3, VisibleStays
<1>15. \A q \in Requests : kind'[q] # "edit"
  BY <1>8 DEF PatientInv
<1>16. QED
  <2>1. CASE current = Absent
    BY <1>7, <1>8, <1>10, <1>13, <1>15, <2>1 DEF PatientInv, Known
  <2>2. CASE current \in Convs
    BY <1>7, <1>8, <1>10, <1>13, <1>14, <1>15, <2>2 DEF PatientInv, Known, Visible, Exists
  <2>3. QED BY <2>1, <2>2 DEF PageInv

\* A stream that is read adds nothing to the page that it has not shown.
LEMMA PatientWhenRead ==
  ASSUME PageInv, NamesInv, PatientInv, NEW r \in Requests, Read(r) \/ Stop
  PROVE  PatientInv'
<1>0. /\ TypeOK /\ Bookkeeping /\ page \in Seq(Elements)
      /\ reading \in [Requests -> Reading \cup {"none", "over"}]
  BY DEF PageInv, Good
<1>1. CASE ReadConversation(r)
  <2>1. /\ reading[r] = "waiting" /\ kind[r] = "stream" /\ current' = target[r]
        /\ \A q \in Requests : reading'[q] = "waiting" => reading[q] = "waiting"
        /\ UNCHANGED <<vars, page>>
    BY <1>0, <1>1 DEF ReadConversation
  <2>2. target[r] \in Convs \cup {Absent}
    BY <1>0 DEF TypeOK
  <2>3. conv[target[r]] # Absent => Visible(target[r])
    BY <2>1 DEF PatientInv, Exists
  <2>4. target[r] # Absent => target[r] \in born
    BY <1>0, <2>1 DEF Bookkeeping, NamesInv
  <2>5. UNCHANGED <<conv, born, pc, kind, target>>
    BY <2>1 DEF vars
  <2>6. QuestionsFirst'
    BY <2>5 DEF PatientInv, QuestionsFirst, Exists, Persists
  <2>7. Known(current)' => Visible(current)'
    BY <2>1, <2>3, <2>5 DEF Known, Visible, Exists, Stands, Persists
  <2>8. \A q \in Requests :
          reading'[q] = "waiting" /\ kind'[q] = "stream" /\ conv'[target'[q]] # Absent =>
            Visible(target[q])
    BY <2>1, <2>5 DEF PatientInv, Exists
  <2>9. QED BY <2>1, <2>2, <2>4, <2>5, <2>6, <2>7, <2>8
           DEF PatientInv, Visible, Exists, Stands, Persists
<1>2. ASSUME NEW q \in Requests, NEW mid, Finish(q, mid) PROVE PatientInv'
  <2>1. /\ \A p \in Requests : reading'[p] = "waiting" => reading[p] = "waiting"
        /\ current' = current /\ page' = Named(page, q, mid)
        /\ UNCHANGED <<conv, born, pc, kind, target>>
    BY <1>0, <1>2 DEF Finish, vars
  <2>2. DOMAIN page' = DOMAIN page /\ \A i \in DOMAIN page : page'[i].id = page[i].id
    <3>1. \A i \in DOMAIN page : page[i] \in Elements
      BY <1>0, ElementOfSeq, LenProperties
    <3>2. QED BY <2>1, <3>1 DEF Named, Elements
  <2>3. ASSUME NEW c, Visible(c) PROVE Visible(c)'
    <3>1. \A id : Stands(id) => \E i \in DOMAIN page' : page'[i].id = id
      BY <2>2 DEF Stands
    <3>2. \A i \in DOMAIN conv'[c] : \E k \in DOMAIN page' : page'[k].id = conv'[c][i].id
      BY <2>1, <2>3, <3>1 DEF Visible
    <3>3. ASSUME NEW p \in Requests, pc'[p] \in Streaming, target'[p] = c
          PROVE  /\ \E k \in DOMAIN page' : page'[k].id = Answer(p).id
                 /\ pc'[p] = "opened" /\ kind'[p] # "regenerate" =>
                      \E k \in DOMAIN page' : page'[k].id = Question(p).id
      BY <2>1, <2>3, <3>1, <3>3 DEF Visible, Persists
    <3>4. QED BY <3>2, <3>3 DEF Visible, Stands, Persists, Answer, Question
  <2>4. QuestionsFirst'
    BY <2>1 DEF PatientInv, QuestionsFirst, Exists, Persists
  <2>5. QED BY <2>1, <2>3, <2>4 DEF PatientInv, Known, Exists
<1>3. QED BY <1>1, <1>2 DEF Read, ReadDone, ReadFailure, Stop, PageInv

\* The patient turns to another conversation when no stream is under way.
LEMMA PatientWhenTurned ==
  ASSUME PageInv, PatientInv, Idle, Sidebar
  PROVE  PatientInv'
<1>0. /\ TypeOK /\ Bookkeeping /\ QuestionsFirst
      /\ \A q \in Requests : reading[q] \notin Reading /\ pc[q] \notin Streaming
      /\ \A q \in Requests : kind[q] # "edit"
      /\ current \in born \cup {Absent}
  BY DEF PageInv, PatientInv, Idle, Unread
<1>1. UNCHANGED <<born, pc, kind, target, reading>>
  BY DEF Sidebar, OpenConversation, Delete, DeleteConversation, NewChat, uiVars, vars
<1>2. ASSUME NEW c \in Convs, conv'[c] # Absent PROVE conv'[c] = conv[c] /\ Exists(c)
  BY <1>0, <1>2 DEF Sidebar, OpenConversation, Delete, DeleteConversation, NewChat, vars,
                    Exists, TypeOK
<1>3. QuestionsFirst'
  BY <1>0, <1>1, <1>2 DEF QuestionsFirst, Exists
<1>4. \A q \in Requests : reading'[q] # "waiting"
  BY <1>0, <1>1 DEF Reading
<1>5. ASSUME current' \in born \cup {Absent},
             ASSUME NEW c \in Convs, c = current', conv'[c] # Absent
             PROVE  \A i \in DOMAIN conv'[c] : \E k \in DOMAIN page' : page'[k].id = conv'[c][i].id
      PROVE  PatientInv'
  <2>1. current' \in Convs \cup {Absent}
    BY <1>0, <1>5 DEF TypeOK
  <2>2. current' # Absent /\ conv'[current'] # Absent =>
          \A i \in DOMAIN conv'[current'] :
            \E k \in DOMAIN page' : page'[k].id = conv'[current'][i].id
    BY <1>5, <2>1
  <2>3. Known(current)' => Visible(current)'
    BY <1>0, <1>1, <2>2 DEF Known, Visible, Exists, Stands
  <2>4. QED BY <1>0, <1>1, <1>3, <1>4, <1>5, <2>3 DEF PatientInv
<1>6. ASSUME NEW c \in Convs, OpenConversation(c) PROVE PatientInv'
  <2>1. Exists(c) /\ current' = c /\ page' = Rendered(conv[c]) /\ conv' = conv
    BY <1>6 DEF OpenConversation, vars
  <2>2. DOMAIN page' = DOMAIN conv[c] /\ \A i \in DOMAIN conv[c] : page'[i].id = conv[c][i].id
    BY <2>1 DEF Rendered, Element
  <2>3. c \in born
    BY <1>0, <2>1 DEF Bookkeeping
  <2>4. QED BY <1>5, <2>1, <2>2, <2>3
<1>7. ASSUME current' = Absent PROVE PatientInv'
  BY <1>5, <1>7, RequestsAssumption
<1>8. ASSUME NEW c \in Convs, Delete(c), c # current PROVE PatientInv'
  <2>1. current' = current /\ page' = page
    BY <1>8 DEF Delete, uiVars
  <2>2. ASSUME NEW d \in Convs, d = current', conv'[d] # Absent
        PROVE  \A i \in DOMAIN conv'[d] : \E k \in DOMAIN page' : page'[k].id = conv'[d][i].id
    <3>1. conv'[d] = conv[d] /\ Exists(d) /\ d = current
      BY <1>2, <2>1, <2>2
    <3>2. Visible(d)
      BY <3>1, RequestsAssumption DEF PatientInv, Known
    <3>3. QED BY <2>1, <3>1, <3>2 DEF Visible, Stands
  <2>3. QED BY <1>0, <1>5, <2>1, <2>2
<1>9. QED BY <1>6, <1>7, <1>8 DEF Sidebar, Delete, NewChat

LEMMA PatientInductive ==
  ASSUME PageInv, NamesInv, PatientInv, habit = "patient", UsersNext
  PROVE  PatientInv'
<1>0. [UiNext]_allVars /\ TypeOK /\ Bookkeeping
  BY DEF UsersNext, UiNext, PageInv
<1>1. ASSUME ~streaming PROVE Unread
  BY <1>1 DEF NamesInv, StreamsCanBeStopped, Unread
<1>2. ASSUME NEW r \in Requests, Send(r) PROVE PatientInv'
  BY <1>1, <1>2, PatientWhenSent DEF Send
<1>3. ASSUME NEW r \in Requests, NEW i \in DOMAIN page,
             MayRegenerate(page[i]) /\ Regenerate(r, i)
      PROVE  PatientInv'
  BY <1>1, <1>3, PatientWhenRegenerated DEF Regenerate, MayRegenerate
<1>4. ASSUME NEW r \in Requests, Read(r) PROVE PatientInv'
  BY <1>4, PatientWhenRead
<1>5. CASE Stop
  BY <1>5, PatientWhenRead DEF Stop, PageInv
<1>6. ASSUME NEW r \in Requests, Server(r) PROVE PatientInv'
  <2>0. (Serve(r) \/ Disconnect(r)) /\ UNCHANGED <<current, streaming, abort, page, reading>>
    BY <1>6 DEF Server, uiVars
  <2>1. KeepsRequests(r)
    BY <1>0, <2>0, ServerSteps
  <2>2. QuestionsFirst'
    BY <1>0, <2>0, QuestionsWhenServed DEF PatientInv
  <2>3. ASSUME NEW c \in Convs, conv'[c] # Absent, Exists(c) => Visible(c) PROVE Visible(c)'
    BY <1>0, <2>0, <2>3, ServedInPlace, VisibleWhenServed
  <2>4. current \in Convs \cup {Absent} /\ (Known(current) => Visible(current))
    BY DEF PageInv, PatientInv
  <2>5. ASSUME NEW c \in Convs, c = current, conv'[c] # Absent PROVE Visible(c)'
    BY <2>3, <2>4, <2>5, RequestsAssumption DEF Known
  <2>6. Known(current)' => Visible(current)'
    BY <2>0, <2>4, <2>5 DEF Known, Visible, Exists
  <2>7. ASSUME NEW q \in Requests, reading'[q] = "waiting", kind'[q] = "stream",
               NEW c, c = target'[q], conv'[c] # Absent
        PROVE  Visible(c)'
    <3>1. reading[q] = "waiting" /\ kind[q] = "stream" /\ c = target[q]
      BY <2>0, <2>1, <2>7 DEF KeepsRequests
    <3>2. c \in Convs
      BY <1>0, <3>1, TargetKnown DEF NamesInv
    <3>3. QED BY <2>3, <2>7, <3>1, <3>2 DEF PatientInv
  <2>8. QED BY <2>0, <2>1, <2>2, <2>6, <2>7 DEF PatientInv, KeepsRequests, Visible, Exists
<1>7. CASE MaySwitch /\ Sidebar
  BY <1>7, PatientWhenTurned DEF MaySwitch
<1>8. ASSUME NEW r \in Requests, NEW i \in DOMAIN page, MayEdit PROVE FALSE
  BY <1>8 DEF MayEdit
<1>9. QED BY <1>2, <1>3, <1>4, <1>5, <1>6, <1>7, <1>8 DEF UsersNext

\* Who does not edit while a stream is read can stop every stream and asks for another
\* answer where the answer is; the patient sees all that the model sees: for any number
\* of requests and conversations.
THEOREM UsersServed == UsersSpec => []UsersAreServed
<1> DEFINE UsersInv ==
      /\ PageInv
      /\ habit # "hasty" => NamesInv
      /\ habit = "patient" => PatientInv
<1>1. UsersInit => UsersInv
  <2> SUFFICES ASSUME UsersInit PROVE UsersInv
    OBVIOUS
  <2>0. /\ UiInit /\ page = <<>> /\ current = Absent
        /\ \A r \in Requests : reading[r] = "none" /\ pc[r] = "idle" /\ kind[r] = "none"
        /\ \A c \in Convs : conv[c] = Absent
    BY DEF UsersInit, UiInit, Init
  <2>1. PageInv
    BY <2>0, PageInitially
  <2>2. NamesInv
    BY <2>0 DEF NamesInv, StreamsCanBeStopped, NamesAreCurrent, Reading, Told
  <2>3. PatientInv
    <3>1. QuestionsFirst
      <4>1. \A r \in Requests : pc[r] \notin Streaming
        BY <2>0 DEF Streaming
      <4>2. \A c \in Convs : ~Exists(c)
        BY <2>0 DEF Exists
      <4>3. QED BY <4>1, <4>2 DEF QuestionsFirst
    <3>2. \A r \in Requests : kind[r] # "edit" /\ reading[r] # "waiting"
      BY <2>0
    <3>3. QED BY <2>0, <3>1, <3>2 DEF PatientInv, Known
  <2>4. QED BY <2>1, <2>2, <2>3
<1>2. UsersInv /\ [UsersNext]_userVars => UsersInv'
  <2> SUFFICES ASSUME UsersInv, [UsersNext]_userVars PROVE UsersInv'
    OBVIOUS
  <2>1. CASE UsersNext
    <3>1. [UiNext]_allVars /\ habit' = habit
      BY <2>1 DEF UsersNext, UiNext
    <3>2. PageInv'
      BY <3>1, PageStep
    <3>3. QED BY <2>1, <3>1, <3>2, NamesInductive, PatientInductive
  <2>2. CASE UNCHANGED userVars
    <3>1. UNCHANGED <<conv, born, pc, kind, target, asks, decision, turns,
                      current, streaming, abort, page, reading, habit>>
      BY <2>2 DEF userVars, allVars, vars, uiVars
    <3>2. PageInv'
      BY <2>2, PageStep DEF userVars
    <3>3. ASSUME NamesInv PROVE NamesInv'
      BY <3>1, <3>3 DEF NamesInv, StreamsCanBeStopped, NamesAreCurrent, Exists, IsOf, Told,
                        Answer
    <3>4. ASSUME PatientInv PROVE PatientInv'
      BY <3>1, <3>4 DEF PatientInv, QuestionsFirst, Known, Visible, Stands, Exists, Persists
    <3>5. QED BY <3>1, <3>2, <3>3, <3>4
  <2>3. QED BY <2>1, <2>2
<1>3. UsersInv => UsersAreServed
  <2> SUFFICES ASSUME UsersInv PROVE UsersAreServed
    OBVIOUS
  <2>1. ASSUME PatientInv PROVE NothingHidden
    <3>1. ASSUME Known(current), NEW m \in Shown(current)
          PROVE  \E i \in DOMAIN page : page[i].id = m.id
      <4>1. PICK j \in DOMAIN conv[current] : conv[current][j] = m
        BY <3>1 DEF Known, Shown, History, Range
      <4>2. Visible(current)
        BY <2>1, <3>1 DEF PatientInv
      <4>3. QED BY <4>1, <4>2 DEF Visible, Stands
    <3>2. QED BY <3>1 DEF NothingHidden
  <2>2. QED BY <2>1 DEF UsersAreServed, NamesInv
<1>4. QED BY <1>1, <1>2, <1>3, PTL DEF UsersSpec
=============================================================================
