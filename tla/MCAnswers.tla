----------------------------- MODULE MCAnswers -----------------------------
(* The instance of Answers that TLC checks.                                  *)
EXTENDS Answers

\* Every text of two lines, with paragraphs from short ones to those cut twice,
\* and longer ones of the lengths at which packing and cutting differ.
Lengths == {0, 1, 2, 5, 7, 10, 13}
MCTexts ==
  UNION {[1 .. n -> 0 .. 14 \cup {18, 24}] : n \in 1 .. 2}
    \cup [1 .. 3 -> Lengths] \cup [1 .. 4 -> {0, 1, 13}] \cup [1 .. 4 -> {1, 2, 3, 7}]

\* Questions are asked of four of them only: with a paragraph in two chunks, with
\* short paragraphs that are carried on, with two sections, and with none.
AskedTexts == {<<13>>, <<2, 5, 2>>, <<5, 0, 5>>, <<0>>}
MCQueries == [words : {{1}, {2}}, history : {{}, {3}}]

\* Bare figures at the limits of the slabs, figures with units, and questions that name
\* several, none or only commas.
Bare(number) == [number |-> number, unit |-> "none"]
Lakhs(number) == [number |-> number, unit |-> "lakh"]
MCQuestions ==
  {<<Bare(number)>> : number \in {49, 50, 75, 774, 775, 776, 1075, 1276, 1576}}
    \cup {<<>>, <<Bare(60), Lakhs(24)>>, <<[number |-> 2, unit |-> "crore"]>>,
          <<Bare(NotANumber), Lakhs(1)>>, <<Bare(NotANumber), Bare(80)>>}

\* A server nobody asks, or whose client is served, goes on idle.
Idle ==
  /\ indexed
  /\ phase # "streaming"
  /\ UNCHANGED answersVars

MCNext ==
  \/ AnswerStep \/ Leave
  \/ text \in AskedTexts /\ Ask
  \/ Idle

MCSpec == AnswersInit /\ [][MCNext]_answersVars /\ WF_answersVars(AnswerStep)
=============================================================================
