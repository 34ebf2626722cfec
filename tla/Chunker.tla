------------------------------ MODULE Chunker ------------------------------
(***************************************************************************)
(* chunk_document of backend/rag/chunker.py: a document is split at its    *)
(* headings, the paragraphs of a section are packed into chunks that share *)
(* their ends, and a long paragraph is cut hard.                           *)
(*                                                                         *)
(* A text is the sequence of its lines, a paragraph being its length.  A   *)
(* character is named by its paragraph and its place there; all that strip *)
(* and lstrip can remove is the line breaks put in between.                *)
(***************************************************************************)
EXTENDS SequencesExt

CONSTANTS
  Texts,    \* the documents a corpus may hold
  MaxChars, \* settings.RAG_CHUNK_CHARS
  Overlap   \* settings.RAG_CHUNK_OVERLAP

\* A line with a heading.
Heading == 0

\* Nothing in the settings says that the overlap is smaller than a chunk; where it
\* is not, the hard cut goes on for ever.
ASSUME OverlapAssumption ==
  MaxChars \in Nat /\ Overlap \in Nat /\ Overlap < MaxChars
ASSUME TextsAssumption == Texts \subseteq Seq(Nat)

VARIABLES
  text,    \* the document
  sec, par, \* the section and the paragraph that come next
  buf,     \* the text collected for the next chunk
  cutting, \* whether the while loop of the hard cut runs
  chunks   \* the chunks made so far

chunkerVars == <<text, sec, par, buf, cutting, chunks>>

\* The paragraphs below a heading; heading 0 is the title of the document.
Body(h) ==
  {i \in DOMAIN text : i > h /\ \A j \in h + 1 .. i : text[j] # Heading}

\* Numbers from the least to the greatest.  (SetToSortSeq is by an operator of TLC
\* that has no definition a proof could use.)
InOrder(S) ==
  CHOOSE list \in [1 .. Cardinality(S) -> S] :
    \A m, n \in DOMAIN list : m < n => list[m] < list[n]

\* _sections: a heading with nothing below it is no section.
Titles == {0} \cup {h \in DOMAIN text : text[h] = Heading}
Sections == InOrder({h \in Titles : Body(h) # {}})
Paragraphs(s) == InOrder(Body(Sections[s]))

Break == <<>>
Gap == <<Break, Break>>
Paragraph(i) == [k \in 1 .. text[i] |-> <<i, k>>]
Written(part) == {j \in DOMAIN part : part[j] # Break}

\* str.strip and str.lstrip, which remove breaks; the spaces between two words that a
\* cut has put at an end are not told apart from the words.
Stripped(part) ==
  IF Written(part) = {} THEN <<>>
  ELSE SubSeq(part, Min(Written(part)), Max(Written(part)))
LeftStripped(part) ==
  IF Written(part) = {} THEN <<>> ELSE SubSeq(part, Min(Written(part)), Len(part))

\* part[-n:], for n > 0.
Ending(part, n) == SubSeq(part, Max({1, Len(part) - n + 1}), Len(part))

\* The chunk that _make makes, after those there are.
Made(part) ==
  Append(chunks, [id |-> Len(chunks), section |-> Sections[sec], text |-> Stripped(part)])

ChunkerInit ==
  /\ text \in Texts
  /\ sec = 1 /\ par = 1
  /\ buf = <<>>
  /\ cutting = FALSE
  /\ chunks = <<>>

\* The paragraph that comes next does not fit behind what has been collected.
Following == Paragraph(Paragraphs(sec)[par])
Full == buf # <<>> /\ Len(buf) + Len(Following) + 2 > MaxChars

\* What stays in the buffer: the end of the chunk that was made.
Carried ==
  IF ~Full THEN buf
  ELSE IF Overlap = 0 THEN <<>>
  ELSE LeftStripped(Ending(buf, Overlap)) \o Gap

\* A paragraph joins the buffer, behind a chunk made of it if it was full.
Pack ==
  /\ sec <= Len(Sections) /\ ~cutting
  /\ par <= Len(Paragraphs(sec))
  /\ chunks' = IF Full THEN Made(buf) ELSE chunks
  /\ buf' = (IF Carried = <<>> THEN <<>> ELSE Carried \o Gap) \o Following
  /\ par' = par + 1
  /\ cutting' = TRUE
  /\ UNCHANGED <<text, sec>>

\* len(buf) > max_chars * 1.5
TooLong == 2 * Len(buf) > 3 * MaxChars

\* Mutant of Rest: the cut parts do not overlap.
RestWithoutOverlap == SubSeq(buf, MaxChars + 1, Len(buf))

\* buf[max_chars - overlap:]
Rest == SubSeq(buf, MaxChars - Overlap + 1, Len(buf))

\* One turn of the while loop, or its end.
Cut ==
  /\ cutting
  /\ IF TooLong
     THEN chunks' = Made(SubSeq(buf, 1, MaxChars)) /\ buf' = Rest
     ELSE UNCHANGED <<chunks, buf>>
  /\ cutting' = TooLong
  /\ UNCHANGED <<text, sec, par>>

\* Mutant of EndSection: the buffer goes on into the next section.
EndSectionKeeping ==
  /\ sec <= Len(Sections) /\ ~cutting
  /\ par > Len(Paragraphs(sec))
  /\ chunks' = IF sec = Len(Sections) THEN Made(buf) ELSE chunks
  /\ sec' = sec + 1
  /\ par' = 1
  /\ UNCHANGED <<text, buf, cutting>>

\* The last chunk of a section.
EndSection ==
  /\ sec <= Len(Sections) /\ ~cutting
  /\ par > Len(Paragraphs(sec))
  /\ chunks' = IF Stripped(buf) # <<>> THEN Made(buf) ELSE chunks
  /\ sec' = sec + 1
  /\ par' = 1
  /\ buf' = <<>>
  /\ UNCHANGED <<text, cutting>>

Chunked == sec > Len(Sections)

ChunkerNext == Pack \/ Cut \/ EndSection

-----------------------------------------------------------------------------
(* Properties.                                                              *)

\* Part of the document stands in one chunk.
Within(part, chunk) ==
  \E i \in 0 .. Len(chunk.text) - Len(part) :
    SubSeq(chunk.text, i + 1, i + Len(part)) = part

\* "so retrieval never loses the sentence that happened to sit on a boundary"
\* (chunker.py:5): whatever is no longer than what two chunks share stands in one
\* chunk, wherever in the document it is.
BoundariesAreCovered ==
  Chunked =>
    \A i \in DOMAIN text : \A k \in 1 .. text[i] :
      \E n \in DOMAIN chunks :
        Within(SubSeq(Paragraph(i), k, Min({k + Overlap, text[i]})), chunks[n])

\* "a chunk should not straddle two topics" (chunker.py:3): its text stands below its
\* own heading.  It holds text that no chunk before it holds, so that nothing is
\* indexed twice, and no chunk is longer than one and a half times the size it is to
\* have.  No two chunks have the same id.
ChunksAreSound ==
  /\ IsInjective([n \in DOMAIN chunks |-> chunks[n].id])
  /\ \A n \in DOMAIN chunks :
       LET part == chunks[n].text
       IN /\ 2 * Len(part) <= 3 * MaxChars
          /\ \A j \in Written(part) : part[j][1] \in Body(chunks[n].section)
          /\ \E j \in Written(part) :
               \A m \in 1 .. n - 1 : part[j] \notin Range(chunks[m].text)
=============================================================================
