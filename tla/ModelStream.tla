---------------------------- MODULE ModelStream ----------------------------
(***************************************************************************)
(* stream_chat of the language models: the offline mock                    *)
(* (backend/llm/mock_llm.py), Groq (groq_llm.py) and Anthropic             *)
(* (anthropic_llm.py), one of which build_llm chooses when the server      *)
(* starts.  A call is an async generator: it goes on to its next event     *)
(* when the engine has dealt with the last one.  What the services behind  *)
(* Groq and Anthropic answer is nondeterministic.                          *)
(*                                                                         *)
(* The words of an answer are left out, but for the sentences that the     *)
(* mock takes from the chunks it was given and the citation it marks each  *)
(* of them with.  Amounts are thousands of rupees, and taxes fractions of  *)
(* them that hold the percentages, so that nothing is rounded.             *)
(***************************************************************************)
EXTENDS Retrieval

CONSTANTS
  Providers,   \* the models a deployment may choose
  Questions,   \* what a question about a tax may say: the figures in it, in order
  MaxPicked,   \* the sentences that the mock picks at most (6)
  MaxFallback, \* and those it takes when the question matches none (3)
  KeyLength,   \* the characters that tell sentences apart (60)
  MinSentence, \* the characters that a sentence exceeds (30)
  MaxTexts     \* a bound on the texts of Groq and Anthropic

ASSUME BoundsAssumption ==
  /\ MaxPicked \in Nat /\ MaxFallback \in Nat /\ MinSentence \in Nat
  /\ KeyLength \in Nat \ {0} /\ MaxTexts \in Nat
ASSUME ProvidersAssumption == Providers \subseteq {"mock", "groq", "anthropic"}

\* A figure with its unit; one that is nothing but commas is none.
NotANumber == -1
Worth == [lakh |-> 100, crore |-> 10000, none |-> 1]
Figures == [number : Nat \cup {NotANumber}, unit : DOMAIN Worth]
ASSUME QuestionsAssumption ==
  /\ Questions \subseteq Seq(Figures)
  /\ \A q \in Questions : \A n \in DOMAIN q : q[n].unit # "none" => q[n].number # NotANumber

VARIABLES
  provider,  \* the model of this server
  grounding, \* the chunks the call was given
  stage,     \* how far the call is
  todo,      \* the texts the mock has composed and not yet streamed
  event,     \* the last event that was yielded
  handled,   \* whether the engine has dealt with it
  end        \* "open", "returned" or what was raised

callVars == <<stage, todo, event, handled, end>>

NoEvent == [type |-> "none"]

\* What a text says: sentences of documents are sequences of their characters, words
\* of a program or a service are those of paragraph 0, and a blank says nothing.
SomeWords == << <<0, 1>> >>
NothingOnIt == << <<0, 2>> >>
Blank == <<>>
Text(says, mark) == [type |-> "text", says |-> says, mark |-> mark]
IsText(e) == e.type = "text"

\* LLMError and its subclasses.
LlmErrors == {"LLMError", "LLMAuthError", "LLMRateLimitError", "LLMTransientError"}

-----------------------------------------------------------------------------
(* The tax calculator of the mock.                                          *)

\* A slab is its limit and its percentage; the last one has no limit.
NoLimit == -1
Slabs == << <<300, 0>>, <<700, 5>>, <<1000, 10>>, <<1200, 15>>, <<1500, 20>>, <<NoLimit, 30>> >>
StandardDeduction == 75
RebateLimit == 700

Amount(figure) == figure.number * Worth[figure.unit]
IsIncome(figure) == Amount(figure) >= 50

\* One figure of a question is looked at before another: those with a unit come first.
LookedAtBefore(question, m, n) ==
  LET Bare(i) == question[i].unit = "none"
  IN (~Bare(m) /\ Bare(n)) \/ (Bare(m) = Bare(n) /\ m < n)

\* Whether a figure that is none is met before an income.
IsMisread(question) ==
  \E n \in DOMAIN question :
    /\ question[n].number = NotANumber
    /\ \A m \in DOMAIN question : LookedAtBefore(question, m, n) => ~IsIncome(question[m])

\* The incomes a question asks the tax of: none, or the first one that is met.
CalculatorIntent(question) ==
  LET incomes == {n \in DOMAIN question : IsIncome(question[n])}
      first == {n \in incomes : \A m \in incomes : ~LookedAtBefore(question, m, n)}
  IN IF IsMisread(question) THEN {} ELSE {Amount(question[n]) : n \in first}

\* min(taxable, limit)
UpTo(limit, taxable) == IF limit = NoLimit THEN taxable ELSE Min({taxable, limit})

\* Mutant of SlabStep: prev stays at the first limit.
SlabStepKeeping(slab, sum) ==
  LET span == UpTo(slab[1], sum.taxable) - sum.prev
  IN IF span <= 0 THEN sum
     ELSE [taxable |-> sum.taxable, tax |-> sum.tax + span * slab[2],
           prev |-> Max({sum.prev, Slabs[1][1]})]

\* One turn of the loop over the slabs; once span is not positive it never is again.
SlabStep(slab, sum) ==
  LET span == UpTo(slab[1], sum.taxable) - sum.prev
  IN IF span <= 0 THEN sum
     ELSE [taxable |-> sum.taxable, tax |-> sum.tax + span * slab[2], prev |-> slab[1]]

\* The sums after each turn of the loop.
SlabSums(taxable) ==
  LET sum[n \in 0 .. Len(Slabs)] ==
        IF n = 0 THEN [taxable |-> taxable, tax |-> 0, prev |-> 0]
        ELSE SlabStep(Slabs[n], sum[n - 1])
  IN sum

\* The base tax is in hundredths and the total, with its cess of 4%, in hundredths of
\* those.
ComputeNewRegimeTax(gross) ==
  LET taxable == Max({0, gross - StandardDeduction})
      base == IF taxable <= RebateLimit THEN 0 ELSE SlabSums(taxable)[Len(Slabs)].tax
  IN [taxable |-> taxable, base |-> base, total |-> 104 * base]

-----------------------------------------------------------------------------
(* The answers of the mock.                                                 *)

\* The sentences of a chunk: what stands between line breaks and is long enough.
Sentences(chunk) ==
  LET Starts == {j \in Written(chunk.text) : j - 1 \notin Written(chunk.text)}
      Ends(j) == {l \in Written(chunk.text) : l >= j /\ l + 1 \notin Written(chunk.text)}
      first == InOrder({j \in Starts : Min(Ends(j)) - j + 1 > MinSentence})
  IN [n \in DOMAIN first |-> SubSeq(chunk.text, first[n], Min(Ends(first[n])))]

Key(sentence) == SubSeq(sentence, 1, Min({KeyLength, Len(sentence)}))

\* The sentences of the sources, each with the place of its source.
Candidates ==
  UNION {{Text(s, ci) : s \in Range(Sentences(chunks[grounding[ci]]))} : ci \in DOMAIN grounding}

\* _score_sentences puts those that share a word with the question or the earlier
\* questions into an order, and the first of each key is picked, until there are
\* enough: of all orders, any sentences with keys of their own.
Picks ==
  {picked \in UNION {[1 .. n -> Candidates] : n \in 0 .. MaxPicked} :
     IsInjective([n \in DOMAIN picked |-> Key(picked[n].says)])}

\* The sentences of one source in their order, as many as are taken from it.
FirstOf(source) ==
  LET first == Sentences(chunks[source])
  IN [n \in 1 .. Min({MaxFallback, Len(first)}) |-> Text(first[n], 1)]

\* Mutant of Told: what matched nothing is taken from the last source.
ToldFromLast(picked) ==
  IF picked # <<>> THEN picked ELSE FirstOf(grounding[Len(grounding)])

\* What is told of the sources: where nothing matched, the best of them speaks.
Told(picked) == IF picked # <<>> THEN picked ELSE FirstOf(grounding[1])

\* _compose: an introduction and the sentences, or that there is nothing on it.
Composed(picked) ==
  IF grounding = <<>> THEN <<Text(NothingOnIt, 0)>>
  ELSE <<Text(SomeWords, 0)>> \o Told(picked)

-----------------------------------------------------------------------------
(* The calls.                                                               *)

StreamInit ==
  /\ provider \in Providers
  /\ grounding = <<>>
  /\ stage = "idle"
  /\ todo = <<>>
  /\ event = NoEvent /\ handled = TRUE
  /\ end = "open"

Resumed(p, s) == provider = p /\ stage = s /\ handled /\ end = "open"

YieldEvent(e) == event' = e /\ handled' = FALSE /\ UNCHANGED end

Raise(error) == end' = error /\ UNCHANGED <<stage, todo, event, handled>>

\* _maybe_fail: a directive in the question, or the failure rate.
MockFails ==
  /\ Resumed("mock", "called")
  /\ \E error \in {"LLMTransientError", "LLMRateLimitError", "LLMAuthError"} : Raise(error)

\* A figure without a digit is no float.
MockMisreads ==
  /\ Resumed("mock", "called")
  /\ \E question \in Questions : IsMisread(question)
  /\ Raise("ValueError")

\* The words around the numbers.
RenderTaxAnswer == <<Text(SomeWords, 0)>>

\* The question is one for the calculator.
MockCalculates ==
  /\ Resumed("mock", "called")
  /\ \E question \in Questions : \E income \in CalculatorIntent(question) :
       YieldEvent([type |-> "tool_use", income |-> income, result |-> ComputeNewRegimeTax(income)])
  /\ todo' = RenderTaxAnswer
  /\ stage' = "texts"

\* It asks for no tax, or names no income.
MockComposes ==
  /\ Resumed("mock", "called")
  /\ \E question \in Questions : CalculatorIntent(question) = {} /\ ~IsMisread(question)
  /\ \E picked \in Picks : todo' = Composed(picked)
  /\ stage' = "texts"
  /\ UNCHANGED <<event, handled, end>>

MockYieldsText ==
  /\ Resumed("mock", "texts") /\ todo # <<>>
  /\ YieldEvent(Head(todo))
  /\ todo' = Tail(todo)
  /\ stage' = IF Len(todo) = 1 THEN "cite" ELSE stage

\* The status of the response of Groq; a connection that breaks is transient, then
\* and later.
GroqConnects ==
  /\ Resumed("groq", "called")
  /\ \/ stage' = "texts" /\ UNCHANGED <<todo, event, handled, end>>
     \/ \E error \in LlmErrors : Raise(error)

\* A line with a delta; a line that is not what _delta_from_line expects is passed
\* over, unless it is JSON of another shape.
GroqYieldsText ==
  /\ Resumed("groq", "texts")
  /\ Len(todo) < MaxTexts
  /\ \E says \in {SomeWords, Blank} : YieldEvent(Text(says, 0))
  /\ todo' = Append(todo, "told")
  /\ UNCHANGED stage

GroqBreaks ==
  /\ Resumed("groq", "texts")
  /\ \E error \in {"LLMTransientError", "TypeError"} : Raise(error)

\* The lines are over, with [DONE] or without.
GroqEnds ==
  /\ Resumed("groq", "texts")
  /\ stage' = "cite"
  /\ UNCHANGED <<todo, event, handled, end>>

\* The stream opens and yields its texts.  An error of the service at any point is one
\* of the model's; one of the transport, or of the SDK's other classes, goes through.
AnthropicYieldsText ==
  /\ provider = "anthropic" /\ stage \in {"called", "texts"} /\ handled /\ end = "open"
  /\ Len(todo) < MaxTexts
  /\ \E says \in {SomeWords, Blank} : YieldEvent(Text(says, 0))
  /\ todo' = Append(todo, "told")
  /\ stage' = "texts"

AnthropicFails ==
  /\ provider = "anthropic" /\ stage \in {"called", "texts"} /\ handled /\ end = "open"
  /\ \E error \in LlmErrors \cup {"HTTPError"} : Raise(error)

\* get_final_message, and the text that a refusal adds.
AnthropicEnds ==
  /\ provider = "anthropic" /\ stage \in {"called", "texts"} /\ handled /\ end = "open"
  /\ \E reason \in {"end_turn", "max_tokens", "refusal"} :
       /\ todo' = <<reason>>
       /\ IF reason = "refusal" THEN YieldEvent(Text(SomeWords, 0))
          ELSE UNCHANGED <<event, handled, end>>
  /\ stage' = "cite"

\* Groq and the mock name no other reason.
StopReason == IF provider = "anthropic" THEN todo[1] ELSE "end_turn"

\* Mutant of Cite: without sources the call is over.
CiteOrReturn ==
  /\ Resumed(provider, "cite")
  /\ IF grounding # <<>>
     THEN /\ YieldEvent([type |-> "citations", citations |-> grounding])
          /\ stage' = "finish"
     ELSE stage' = "finished" /\ UNCHANGED <<event, handled, end>>
  /\ UNCHANGED todo

\* The sources of the answer, if there are any.
Cite ==
  /\ Resumed(provider, "cite")
  /\ IF grounding # <<>>
     THEN YieldEvent([type |-> "citations", citations |-> grounding])
     ELSE UNCHANGED <<event, handled, end>>
  /\ stage' = "finish"
  /\ UNCHANGED todo

Finish ==
  /\ Resumed(provider, "finish")
  /\ YieldEvent([type |-> "done", reason |-> StopReason])
  /\ stage' = "finished"
  /\ UNCHANGED todo

Return ==
  /\ Resumed(provider, "finished")
  /\ end' = "returned"
  /\ UNCHANGED <<stage, todo, event, handled>>

StreamNext ==
  \/ MockFails \/ MockMisreads \/ MockCalculates \/ MockComposes \/ MockYieldsText
  \/ GroqConnects \/ GroqYieldsText \/ GroqBreaks \/ GroqEnds
  \/ AnthropicYieldsText \/ AnthropicFails \/ AnthropicEnds
  \/ Cite \/ Finish \/ Return
=============================================================================
