------------------------------ MODULE Answers ------------------------------
(***************************************************************************)
(* One question from the knowledge base to the saved answer: the part of   *)
(* stream_reply in backend/chat/engine.py that retrieves, calls the model  *)
(* and deals with its events (lines 143 to 218), composed with the index   *)
(* and the models.  ChatEngine has the requests and the conversation       *)
(* around it, and leaves out what an answer says and cites.                *)
(***************************************************************************)
EXTENDS ModelStream

CONSTANT Queries \* what a user may ask: the words of a question and of the earlier ones

VARIABLES
  phase,     \* "ready", "streaming", "saved", "gone" or "crashed"
  shown,     \* the events the client got
  collected, \* the texts of the answer
  cited,     \* the citations of the answer
  stop,      \* stop_reason
  saved      \* the message added to the conversation, if there is one

engineVars == <<phase, shown, collected, cited, stop, saved>>
answersVars == <<retrievalVars, provider, grounding, callVars, engineVars>>

Unsaved == [text |-> <<>>, citations |-> <<>>, stop |-> "none", grounded |-> FALSE]

AnswersInit ==
  /\ RetrievalInit /\ StreamInit
  /\ phase = "ready"
  /\ shown = <<>> /\ collected = <<>> /\ cited = <<>>
  /\ stop = "end_turn"
  /\ saved = Unsaved

\* The server starts: build_retriever.
Boot == (Chunk \/ Index) /\ UNCHANGED <<provider, grounding, callVars, engineVars>>

\* A question that passed the guardrails: its sources, and the call of the model.
Ask ==
  /\ indexed /\ phase = "ready"
  /\ \E query \in Queries : grounding' \in Retrieve(query.words, query.history)
  /\ stage' = "called"
  /\ phase' = "streaming"
  /\ shown' = IF grounding' = <<>> THEN shown
              ELSE Append(shown, [type |-> "retrieval", sources |-> grounding'])
  /\ UNCHANGED <<retrievalVars, provider, todo, event, handled, end>>
  /\ UNCHANGED <<collected, cited, stop, saved>>

\* The model goes on to its next event.
Model ==
  /\ phase = "streaming"
  /\ StreamNext
  /\ UNCHANGED <<retrievalVars, provider, grounding, engineVars>>

\* The engine deals with an event.
Handle ==
  /\ phase = "streaming" /\ ~handled
  /\ handled' = TRUE
  /\ shown' = IF event.type = "done" THEN shown ELSE Append(shown, event)
  /\ collected' = IF IsText(event) THEN Append(collected, event) ELSE collected
  /\ cited' = IF event.type = "citations" THEN event.citations ELSE cited
  /\ stop' = IF event.type = "done" THEN event.reason ELSE stop
  /\ UNCHANGED <<retrievalVars, provider, grounding, stage, todo, event, end, phase, saved>>

Fallback == Text(<< <<0, 3>> >>, 0)
Placeholder == Text(<< <<0, 4>> >>, 0)

\* "".join(collected).strip(): blank texts at the ends are lost.
Joined(texts) ==
  LET words == {n \in DOMAIN texts : texts[n].says # Blank}
  IN IF words = {} THEN <<Placeholder>> ELSE SubSeq(texts, Min(words), Max(words))

SaveAnswer(texts, reason) ==
  /\ saved' = [text |-> Joined(texts), citations |-> cited, stop |-> reason,
               grounded |-> grounding # <<>>]
  /\ phase' = "saved"

\* Mutant of Fail: the fallback is shown and not collected.
FailUncollected ==
  /\ phase = "streaming" /\ end \in LlmErrors
  /\ shown' = Append(shown, Fallback)
  /\ stop' = "error"
  /\ SaveAnswer(collected, "error")
  /\ UNCHANGED <<retrievalVars, provider, grounding, callVars, collected, cited>>

\* The model raised one of its errors; what came before it stays.
Fail ==
  /\ phase = "streaming" /\ end \in LlmErrors
  /\ shown' = Append(shown, Fallback)
  /\ collected' = Append(collected, Fallback)
  /\ stop' = "error"
  /\ SaveAnswer(collected', "error")
  /\ UNCHANGED <<retrievalVars, provider, grounding, callVars, cited>>

\* Mutant of Complete: an answer without sources is not completed.
CompleteGrounded ==
  /\ phase = "streaming" /\ end = "returned" /\ grounding # <<>>
  /\ SaveAnswer(collected, stop)
  /\ UNCHANGED <<retrievalVars, provider, grounding, callVars, shown, collected, cited, stop>>

\* The stream of the model is over.
Complete ==
  /\ phase = "streaming" /\ end = "returned"
  /\ SaveAnswer(collected, stop)
  /\ UNCHANGED <<retrievalVars, provider, grounding, callVars, shown, collected, cited, stop>>

\* An exception that is none of the model's errors ends the stream of the client.
Crash ==
  /\ phase = "streaming" /\ end \notin LlmErrors \cup {"open", "returned"}
  /\ phase' = "crashed"
  /\ UNCHANGED <<retrievalVars, provider, grounding, callVars>>
  /\ UNCHANGED <<shown, collected, cited, stop, saved>>

\* The client leaves while the engine waits for the model or the client to go on.
Leave ==
  /\ phase = "streaming"
  /\ phase' = "gone"
  /\ UNCHANGED <<retrievalVars, provider, grounding, callVars>>
  /\ UNCHANGED <<shown, collected, cited, stop, saved>>

AnswerStep == Boot \/ Model \/ Handle \/ Fail \/ Complete \/ Crash

AnswersNext == AnswerStep \/ Ask \/ Leave

\* Chunking computes, the engine only ever waits for the model, and the calls of the
\* models end or fail by their timeouts.
AnswersSpec == AnswersInit /\ [][AnswersNext]_answersVars /\ WF_answersVars(AnswerStep)

-----------------------------------------------------------------------------
(* Properties.                                                              *)

\* The texts of some events that say something, and that two of them tell the same.
Saying(events) == {n \in DOMAIN events : IsText(events[n]) /\ events[n].says # Blank}
SayTheSame(one, other) ==
  \E place \in Bijection(Saying(one), Saying(other)) : \A n, m \in Saying(one) :
    one[n] = other[place[n]] /\ (n < m => place[n] < place[m])

\* The conversation keeps what the user read, all of it and in that order, and the
\* sources the user was shown (engine.py:211); the placeholder stands only where the
\* user read nothing.  It is marked as failed exactly when the model failed, and if
\* it is not it cites every source it was given (engine.py:209).
SavedIsShown ==
  phase = "saved" =>
    /\ IF Saying(shown) = {} THEN saved.text = <<Placeholder>>
       ELSE SayTheSame(saved.text, shown)
    /\ \A n \in DOMAIN shown :
         shown[n].type = "citations" => shown[n].citations = saved.citations
    /\ saved.citations # <<>> =>
         \E n \in DOMAIN shown : shown[n].type = "citations"
    /\ (saved.stop = "error") = (end \in LlmErrors)
    /\ saved.stop # "error" => saved.citations = grounding

\* A sentence that the mock marks with a citation stands in the source that the saved
\* answer cites under that number, and is told once, though chunks share their ends;
\* no source is given twice.
MarksAreBacked ==
  /\ IsInjective(grounding)
  /\ phase = "saved" /\ provider = "mock" =>
       LET told == saved.text
       IN \A n \in DOMAIN told :
            told[n].mark # 0 =>
              /\ told[n].mark \in DOMAIN saved.citations
              /\ Within(told[n].says, chunks[saved.citations[told[n].mark]])
              /\ \A m \in 1 .. n - 1 :
                   told[m].mark # 0 => told[m].says # told[n].says

\* Where a slab begins, and the tax on what of an income lies within it.
Lower(i) == IF i = 1 THEN 0 ELSE Slabs[i - 1][1]
SlabPart(i, taxable) == Max({0, UpTo(Slabs[i][1], taxable) - Lower(i)}) * Slabs[i][2]

\* The tax told is the sum over the slabs of what lies within each of them, whatever
\* the income, and none up to the limit of the rebate.
TaxIsBySlab ==
  \A n \in DOMAIN shown :
    shown[n].type = "tool_use" =>
      LET taxable == shown[n].result.taxable
          Part(i) == SlabPart(i, taxable)
      IN /\ taxable + StandardDeduction = Max({shown[n].income, StandardDeduction})
         /\ shown[n].result.total =
              IF taxable <= RebateLimit THEN 0
              ELSE 104 * (Part(1) + Part(2) + Part(3) + Part(4) + Part(5) + Part(6))

\* Every model keeps the contract of a provider.
Contract ==
  INSTANCE LlmContract WITH
    NotYet <- NoEvent.type,
    last <- event.type,
    end <- IF end \in {"open", "returned"} THEN end ELSE "raised"

ContractSpec == Contract!ContractSpec

\* The index is built, and a question that is being answered gets to its end.
AnswersEnd == <>indexed /\ []<>(phase # "streaming")
=============================================================================
