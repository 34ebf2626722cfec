--------------------------- MODULE Lists_proofs ---------------------------
(***************************************************************************)
(* Facts about lists that the other proofs rest on: the least and greatest *)
(* of a set of positions, and what the operators of Conversation return,   *)
(* for every message list.                                                 *)
(***************************************************************************)
EXTENDS Conversation, FiniteSetTheorems, SequenceTheorems, TLAPS

(* Positions.                                                               *)

\* A non-empty set of numbers below a bound has a least element.  (The least
\* number principle of the library is stated with an operator parameter; this one
\* follows from the well-foundedness of strict inclusion on finite sets.)
LEMMA LeastExists ==
  ASSUME NEW n \in Nat, NEW S \in SUBSET (0 .. n), S # {}
  PROVE  \E x \in S : \A y \in S : x <= y
<1> DEFINE T == {0 .. i : i \in S}
           R == StrictSubsetOrdering(0 .. n)
<1>1. IsFiniteSet(0 .. n)
  BY FS_Interval
<1>2. IsWellFoundedOn(R, SUBSET (0 .. n))
  BY <1>1, FS_StrictSubsetOrderingWellFounded, FS_FiniteSubsetsOfFinite
<1>3. T \subseteq SUBSET (0 .. n) /\ T # {}
  <2>1. \A i \in S : 0 .. i \subseteq 0 .. n
    OBVIOUS
  <2>2. PICK i \in S : TRUE
    OBVIOUS
  <2>3. 0 .. i \in T
    BY <2>2
  <2>4. QED BY <2>1, <2>3, Zenon
<1>4. PICK t \in T : \A u \in T : <<u, t>> \notin R
  BY <1>2, <1>3, WFMin
<1>5. PICK x \in S : t = 0 .. x
  BY <1>4
<1>6. ASSUME NEW y \in S, y < x PROVE FALSE
  <2>1. <<0 .. y, 0 .. x>> \in R
    BY <1>6 DEF StrictSubsetOrdering
  <2>2. QED BY <2>1, <1>4, <1>5
<1>7. QED BY <1>6

\* And a greatest one.
LEMMA GreatestExists ==
  ASSUME NEW n \in Nat, NEW S \in SUBSET (0 .. n), S # {}
  PROVE  \E x \in S : \A y \in S : y <= x
<1> DEFINE T == {n - i : i \in S}
<1>1. T \in SUBSET (0 .. n) /\ T # {}
  OBVIOUS
<1>2. PICK t \in T : \A u \in T : t <= u
  BY <1>1, LeastExists
<1>3. PICK x \in S : t = n - x
  BY <1>2
<1>4. ASSUME NEW y \in S PROVE y <= x
  <2>1. n - x <= n - y
    BY <1>2, <1>3
  <2>2. n \in Int /\ x \in Int /\ y \in Int
    BY <1>3
  <2> HIDE DEF T
  <2>3. QED BY <2>1, <2>2
<1>5. QED BY <1>4

\* Min of a non-empty set of positions is its one least element.
LEMMA MinProperties ==
  ASSUME NEW n \in Nat, NEW S \in SUBSET (0 .. n), S # {}
  PROVE  /\ Min(S) \in S
         /\ \A y \in S : Min(S) <= y
         /\ \A x \in S : (\A y \in S : x <= y) => Min(S) = x
<1>1. PICK x \in S : \A y \in S : x <= y
  BY LeastExists
<1>2. Min(S) \in S /\ \A y \in S : Min(S) <= y
  BY <1>1 DEF Min
<1> DEFINE m == Min(S)
<1>3. m \in Int /\ m \in S /\ \A y \in S : m <= y
  <2>1. \A y \in S : y \in Int
    OBVIOUS
  <2>2. QED BY <1>2, <2>1, Zenon
<1> HIDE DEF m
<1>4. ASSUME NEW k \in S, \A y \in S : k <= y PROVE m = k
  <2>1. k \in Int /\ m <= k /\ k <= m
    BY <1>3, <1>4
  <2>2. QED BY <1>3, <2>1
<1>5. QED BY <1>3, <1>4 DEF m

\* Max of a non-empty set of positions is a greatest element.
LEMMA MaxProperties ==
  ASSUME NEW n \in Nat, NEW S \in SUBSET (0 .. n), S # {}
  PROVE  /\ Max(S) \in S
         /\ \A y \in S : y <= Max(S)
<1>1. PICK x \in S : \A y \in S : y <= x
  BY GreatestExists
<1>2. \A y \in S : y \in Int
  OBVIOUS
<1>3. QED BY <1>1, <1>2 DEF Max

-----------------------------------------------------------------------------
(* Message lists.                                                           *)

\* PositionOf returns the first position of an id that is there.
LEMMA PositionProperties ==
  ASSUME NEW S, NEW msgs \in Seq(S), NEW id, Holds(msgs, id)
  PROVE  /\ PositionOf(msgs, id) \in 1 .. Len(msgs)
         /\ msgs[PositionOf(msgs, id)].id = id
         /\ \A j \in 1 .. PositionOf(msgs, id) - 1 : msgs[j].id # id
<1> DEFINE P == {i \in 1 .. Len(msgs) : msgs[i].id = id}
<1>1. DOMAIN msgs = 1 .. Len(msgs) /\ Len(msgs) \in Nat
  BY LenProperties
<1>2. P \in SUBSET (0 .. Len(msgs)) /\ P # {}
  BY <1>1 DEF Holds
<1>3. PositionOf(msgs, id) = Min(P)
  BY <1>2 DEF PositionOf, SelectInSeq
<1>4. Min(P) \in P /\ \A j \in P : Min(P) <= j
  BY <1>1, <1>2, MinProperties
<1>5. ASSUME NEW j \in 1 .. Min(P) - 1 PROVE msgs[j].id # id
  BY <1>1, <1>4
<1>6. QED BY <1>3, <1>4, <1>5

\* Truncated returns a cut of the list, and a list of the same type.
LEMMA TruncatedIsCut ==
  ASSUME NEW S, NEW msgs \in Seq(S), NEW id, NEW inclusive \in BOOLEAN
  PROVE  /\ Truncated(msgs, id, inclusive) \in Seq(S)
         /\ IsPrefix(Truncated(msgs, id, inclusive), msgs)
<1>1. Len(msgs) \in Nat
  BY LenProperties
<1>2. CASE ~Holds(msgs, id)
  BY <1>1, <1>2 DEF Truncated, IsPrefix
<1>3. CASE Holds(msgs, id)
  <2> DEFINE n == PositionOf(msgs, id) - (IF inclusive THEN 1 ELSE 0)
             short == SubSeq(msgs, 1, n)
  <2>1. n \in 0 .. Len(msgs)
    BY <1>1, <1>3, PositionProperties
  <2>2. Truncated(msgs, id, inclusive) = short
    BY <1>3 DEF Truncated
  <2>3. \A i \in 1 .. n : msgs[i] \in S
    BY <1>1, <2>1, ElementOfSeq
  <2>4. short \in Seq(S) /\ Len(short) = n
    BY <2>1, <2>3, SubSeqProperties
  <2> HIDE DEF n
  <2>5. SubSeq(short, 1, Len(short)) = SubSeq(msgs, 1, n)
    BY <2>4, SubSeqFull
  <2> HIDE DEF short
  <2>6. IsPrefix(short, msgs)
    BY <1>1, <2>1, <2>4, <2>5 DEF IsPrefix
  <2>7. QED BY <2>2, <2>4, <2>6
<1>4. QED BY <1>2, <1>3

\* A cut keeps the messages it keeps at their places.
LEMMA CutProperties ==
  ASSUME NEW S, NEW long \in Seq(S), NEW short \in Seq(S), IsPrefix(short, long)
  PROVE  /\ Len(short) \in 0 .. Len(long)
         /\ DOMAIN short = 1 .. Len(short)
         /\ \A i \in 1 .. Len(short) : short[i] = long[i]
<1>1. Len(long) \in Nat /\ Len(short) \in Nat /\ DOMAIN short = 1 .. Len(short)
  BY LenProperties
<1>2. Len(short) <= Len(long) /\ SubSeq(short, 1, Len(short)) = SubSeq(long, 1, Len(short))
  BY DEF IsPrefix
<1>3. SubSeq(short, 1, Len(short)) = short
  BY SubSeqFull
<1>4. \A i \in 1 .. Len(short) : long[i] \in S
  BY <1>1, <1>2, ElementOfSeq
<1>5. \A i \in 1 .. Len(short) : SubSeq(long, 1, Len(short))[i] = long[i]
  BY <1>1, <1>2, <1>4, SubSeqProperties
<1>6. QED BY <1>1, <1>2, <1>3, <1>5

\* Min picks the first user turn of a list that has one, and only that.
LEMMA FirstQuestion ==
  ASSUME NEW S, NEW msgs \in Seq(S), UserTurns(msgs) # {}
  PROVE  /\ Min(UserTurns(msgs)) \in UserTurns(msgs)
         /\ \A i \in UserTurns(msgs) :
              (\A j \in UserTurns(msgs) : i <= j) => Min(UserTurns(msgs)) = i
         /\ \A j \in UserTurns(msgs) : Min(UserTurns(msgs)) <= j
<1>1. DOMAIN msgs = 1 .. Len(msgs) /\ Len(msgs) \in Nat
  BY LenProperties
<1>2. UserTurns(msgs) \in SUBSET (0 .. Len(msgs))
  BY <1>1 DEF UserTurns
<1>3. QED BY <1>1, <1>2, MinProperties

\* A cut that keeps a user turn keeps the first one.
LEMMA CutKeepsFirstQuestion ==
  ASSUME NEW S, NEW long \in Seq(S), NEW short \in Seq(S),
         IsPrefix(short, long), UserTurns(short) # {}
  PROVE  /\ UserTurns(long) # {}
         /\ short[Min(UserTurns(short))] = long[Min(UserTurns(long))]
<1>1. /\ short \in Seq(S)
      /\ Len(short) \in 0 .. Len(long)
      /\ DOMAIN short = 1 .. Len(short)
      /\ \A i \in 1 .. Len(short) : short[i] = long[i]
  BY CutProperties
<1>2. DOMAIN long = 1 .. Len(long) /\ Len(long) \in Nat
  BY LenProperties
<1>3. UserTurns(short) \subseteq UserTurns(long)
  BY <1>1, <1>2 DEF UserTurns
<1> DEFINE e == Min(UserTurns(short))
<1>4. e \in UserTurns(short) /\ \A j \in UserTurns(short) : e <= j
  BY <1>1, FirstQuestion
<1> HIDE DEF e
<1>5. ASSUME NEW j \in UserTurns(long) PROVE e <= j
  <2>1. CASE j \in 1 .. Len(short)
    <3>1. j \in UserTurns(short)
      BY <1>1, <2>1 DEF UserTurns
    <3>2. QED BY <1>4, <3>1
  <2>2. CASE j \notin 1 .. Len(short)
    BY <1>1, <1>2, <1>4, <2>2 DEF UserTurns
  <2>3. QED BY <2>1, <2>2
<1>6. e \in UserTurns(long)
  BY <1>3, <1>4
<1>7. Min(UserTurns(long)) = e
  BY <1>5, <1>6, FirstQuestion
<1>8. short[e] = long[e]
  BY <1>1, <1>4 DEF UserTurns
<1>9. QED BY <1>6, <1>7, <1>8 DEF e

\* Adding a message moves the first user turn only when there was none.
LEMMA AppendKeepsFirstQuestion ==
  ASSUME NEW S, NEW msgs \in Seq(S), NEW m \in S,
         UserTurns(Append(msgs, m)) # {}
  PROVE  LET long == Append(msgs, m)
         IN  long[Min(UserTurns(long))] =
               IF UserTurns(msgs) = {} THEN m
               ELSE msgs[Min(UserTurns(msgs))]
<1> DEFINE long == Append(msgs, m)
<1>1. /\ long \in Seq(S)
      /\ Len(long) = Len(msgs) + 1
      /\ \A i \in 1 .. Len(msgs) : long[i] = msgs[i]
      /\ long[Len(msgs) + 1] = m
      /\ Len(msgs) \in Nat
      /\ DOMAIN msgs = 1 .. Len(msgs)
  BY AppendProperties, LenProperties
<1>2. DOMAIN long = 1 .. Len(msgs) + 1
  BY <1>1, LenProperties
<1> HIDE DEF long
<1>3. CASE UserTurns(msgs) = {}
  <2>1. \A i \in UserTurns(long) : i = Len(msgs) + 1
    BY <1>1, <1>2, <1>3 DEF UserTurns
  <2>2. Min(UserTurns(long)) = Len(msgs) + 1
    BY <1>1, <2>1, FirstQuestion DEF long
  <2>3. QED BY <1>1, <1>3, <2>2 DEF long
<1>4. CASE UserTurns(msgs) # {}
  <2> DEFINE e == Min(UserTurns(msgs))
  <2>1. e \in UserTurns(msgs) /\ \A j \in UserTurns(msgs) : e <= j
    BY <1>4, FirstQuestion
  <2> HIDE DEF e
  <2>2. e \in 1 .. Len(msgs) /\ e \in UserTurns(long)
    BY <1>1, <1>2, <2>1 DEF UserTurns
  <2>3. ASSUME NEW j \in UserTurns(long) PROVE e <= j
    <3>1. j \in UserTurns(msgs) \/ j = Len(msgs) + 1
      BY <1>1, <1>2 DEF UserTurns
    <3>2. QED BY <1>1, <2>1, <2>2, <3>1
  <2>4. Min(UserTurns(long)) = e
    BY <1>1, <2>2, <2>3, FirstQuestion
  <2>5. long[e] = msgs[e]
    BY <1>1, <2>2
  <2>6. QED BY <1>4, <2>4, <2>5 DEF e, long
<1>5. QED BY <1>3, <1>4 DEF long

\* A sequence without its i-th element.
LEMMA RemovedProperties ==
  ASSUME NEW S, NEW els \in Seq(S), NEW i \in 1 .. Len(els)
  PROVE  /\ RemoveAt(els, i) \in Seq(S)
         /\ Len(RemoveAt(els, i)) = Len(els) - 1
         /\ \A j \in 1 .. Len(els) - 1 :
              RemoveAt(els, i)[j] = IF j < i THEN els[j] ELSE els[j + 1]
<1> DEFINE n == Len(els)
           above == SubSeq(els, 1, i - 1)
           below == SubSeq(els, i + 1, n)
<1>1. n \in Nat
  BY LenProperties
<1>2. /\ above \in Seq(S) /\ Len(above) = i - 1
      /\ \A j \in 1 .. i - 1 : above[j] = els[j]
  <2>1. 1 \in 1 .. n + 1 /\ i - 1 \in 0 .. n /\ 1 <= i - 1 + 1
    BY <1>1
  <2>2. QED BY <1>1, <2>1, SubSeqProperties
<1>3. /\ below \in Seq(S) /\ Len(below) = n - i
      /\ \A j \in 1 .. n - i : below[j] = els[i + j]
  <2>1. i + 1 \in 1 .. n + 1 /\ n \in 0 .. n /\ i + 1 <= n + 1 /\ n - (i + 1) + 1 = n - i
    BY <1>1
  <2>2. \A j \in 1 .. n - i : i + 1 + j - 1 = i + j
    BY <1>1
  <2>3. /\ below \in Seq(S) /\ Len(below) = n - (i + 1) + 1
        /\ \A j \in 1 .. n - (i + 1) + 1 : below[j] = els[i + 1 + j - 1]
    <3>1. i + 1 \in 1 .. Len(els) + 1 /\ n \in 0 .. Len(els) /\ i + 1 <= n + 1
      BY <2>1
    <3> HIDE DEF n
    <3>2. QED BY <3>1, SubSeqProperties
  <2> HIDE DEF below, n
  <2>4. QED BY <2>1, <2>2, <2>3
<1>4. RemoveAt(els, i) = above \o below
  BY DEF RemoveAt
<1> HIDE DEF n, above, below
<1>5. /\ above \o below \in Seq(S) /\ Len(above \o below) = n - 1
      /\ \A j \in 1 .. n - 1 :
           (above \o below)[j] = IF j <= i - 1 THEN above[j] ELSE below[j - (i - 1)]
  <2>1. Len(above) + Len(below) = n - 1
    BY <1>1, <1>2, <1>3 DEF n
  <2>2. QED BY <1>2, <1>3, <2>1, ConcatProperties
<1>6. ASSUME NEW j \in 1 .. n - 1
      PROVE  (above \o below)[j] = IF j < i THEN els[j] ELSE els[j + 1]
  <2>1. CASE j < i
    BY <1>1, <1>2, <1>5, <1>6, <2>1
  <2>2. CASE ~(j < i)
    <3>1. j - (i - 1) \in 1 .. n - i /\ i + (j - (i - 1)) = j + 1
      BY <1>1, <1>6, <2>2 DEF n
    <3>2. below[j - (i - 1)] = els[j + 1]
      BY <1>3, <3>1
    <3>3. QED BY <1>1, <1>5, <1>6, <2>2, <3>2
  <2>3. QED BY <2>1, <2>2
<1>7. QED BY <1>4, <1>5, <1>6 DEF n
=============================================================================
