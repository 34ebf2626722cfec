--------------------------- MODULE Contracts_proofs ---------------------------
(***************************************************************************)
(* The two components that keep the contract of a specification of their   *)
(* own, and what else is true of them.  TtlCache for any keys, values,     *)
(* size and time to live: its store is bounded, and callers see the recent *)
(* values.  Answers for any documents, questions and settings: no text is  *)
(* lost or indexed twice between the chunks, the models keep the contract  *)
(* of a provider, what is saved is what was shown, what the mock marks     *)
(* stands in the source it names, and its calculator tells the tax of the  *)
(* slabs.                                                                  *)
(***************************************************************************)
EXTENDS TtlCache, Answers, Lists_proofs

(* The cache.                                                               *)

\* The keys may be infinitely many; those that are held never are.
IInv == TypeOK /\ IsFiniteSet(Held) /\ SizeBounded

\* What is stored lasts for the time to live and is an entry.
LEMMA StoredProperties ==
  ASSUME NEW v \in Values
  PROVE  /\ Stored(v) \in Entries
         /\ Stored(v).value = v
         /\ Stored(v).left = Ttl
BY TtlAssumption DEF Stored, Entries, Expired

\* Keys are added one at a time.
LEMMA HeldBounded ==
  ASSUME NEW S, IsFiniteSet(S), NEW T, T \subseteq S, Cardinality(S) <= MaxEntries
  PROVE  IsFiniteSet(T) /\ Cardinality(T) <= MaxEntries
<1>1. /\ IsFiniteSet(T) /\ Cardinality(T) <= Cardinality(S)
      /\ Cardinality(S) \in Nat /\ Cardinality(T) \in Nat
  BY FS_Subset, FS_CardinalityType
<1>2. QED BY <1>1, MaxEntriesAssumption

LEMMA Invariance ==
  /\ Init => IInv
  /\ IInv /\ [Next]_store => IInv'
<1>1. ASSUME Init PROVE IInv
  <2>1. Held = {}
    BY <1>1 DEF Init, Held
  <2>2. QED
    BY <1>1, <2>1, FS_EmptySet, MaxEntriesAssumption
       DEF Init, IInv, TypeOK, SizeBounded
<1>2. ASSUME IInv, [Next]_store PROVE IInv'
  <2> USE <1>2 DEF IInv
  <2>0. Cardinality(Held) \in Nat /\ MaxEntries \in Nat
    BY FS_CardinalityType, MaxEntriesAssumption
  <2>1. ASSUME NEW k \in Keys, Get(k) PROVE IInv'
    <3>1. TypeOK'
      BY <2>1 DEF Get, TypeOK
    <3>2. Held' \subseteq Held
      BY <2>1 DEF Get, TypeOK, Held
    <3>3. QED BY <3>1, <3>2, HeldBounded DEF SizeBounded
  <2>2. ASSUME NEW k \in Keys, NEW v \in Values, Set(k, v) PROVE IInv'
    <3>1. Stored(v) \in Entries /\ Stored(v) # Absent
      BY StoredProperties, AbsentAssumption
    <3>2. CASE ~Crowded(k) /\ store' = [store EXCEPT ![k] = Stored(v)]
      <4>1. TypeOK' /\ Held' = Held \cup {k}
        BY <3>1, <3>2 DEF TypeOK, Held
      <4>2. /\ IsFiniteSet(Held')
            /\ Cardinality(Held') = IF k \in Held THEN Cardinality(Held)
                                                  ELSE Cardinality(Held) + 1
        BY <4>1, FS_AddElement
      <4>3. QED BY <2>0, <3>2, <4>1, <4>2 DEF Crowded, SizeBounded
    <3>3. ASSUME Crowded(k), NEW old \in Evictable,
                 store' = [store EXCEPT ![old] = Absent, ![k] = Stored(v)]
          PROVE  IInv'
      <4>1. old \in Held /\ k \notin Held
        BY <3>3 DEF Evictable, Crowded
      <4>2. TypeOK' /\ Held' = (Held \ {old}) \cup {k}
        BY <3>1, <3>3, <4>1 DEF TypeOK, Held
      <4>3. IsFiniteSet(Held \ {old}) /\ Cardinality(Held \ {old}) = Cardinality(Held) - 1
        BY <4>1, FS_RemoveElement
      <4>4. /\ IsFiniteSet(Held')
            /\ Cardinality(Held') = Cardinality(Held) - 1 + 1
        BY <4>1, <4>2, <4>3, FS_AddElement
      <4>5. QED BY <2>0, <4>2, <4>4 DEF SizeBounded
    <3>4. QED BY <2>2, <3>2, <3>3 DEF Set
  <2>3. CASE Clear \/ UNCHANGED store
    <3>1. TypeOK' /\ Held' \subseteq Held
      BY <2>3 DEF Clear, TypeOK, Held
    <3>2. QED BY <3>1, HeldBounded DEF SizeBounded
  <2>4. CASE Tick
    <3>1. ASSUME NEW k \in Keys, Live(k)
          PROVE  [store[k] EXCEPT !.left = @ - 1] \in Entries
      BY <3>1, TtlAssumption DEF Live, TypeOK, Entries, Expired
    <3>2. TypeOK' /\ Held' \subseteq Held
      BY <2>4, <3>1 DEF Tick, Live, TypeOK, Held
    <3>3. QED BY <3>2, HeldBounded DEF SizeBounded
  <2>5. QED BY <1>2, <2>1, <2>2, <2>3, <2>4 DEF Next
<1>3. QED BY <1>1, <1>2

\* Every entry is a value with a time left that is at most the time to live.
THEOREM CacheTypeCorrect == Spec => []TypeOK
BY Invariance, PTL DEF Spec, IInv

\* The dictionary of in_memory.py never holds more than max_entries entries.
THEOREM CacheBounded == Spec => []SizeBounded
BY Invariance, PTL DEF Spec, IInv

-----------------------------------------------------------------------------
(* Callers see the recent values.                                           *)

\* What is seen of one key.
LEMMA SeenProperties ==
  ASSUME TypeOK
  PROVE  /\ Recent!Remembered = {k \in Keys : Live(k)}
         /\ \A k \in Keys : Live(k) =>
              /\ store[k] \in Entries /\ store[k].left \in 0 .. Ttl
              /\ Seen[k] = store[k].value /\ Age[k] = Ttl - store[k].left
         /\ \A k \in Keys : ~Live(k) => Seen[k] = Absent /\ Age[k] = 0
<1>1. \A k \in Keys : Live(k) => store[k] \in Entries /\ store[k].left \in 0 .. Ttl
  BY TtlAssumption DEF TypeOK, Live, Entries, Expired
<1>2. \A k \in Keys : Live(k) => store[k].value # Absent
  BY <1>1, AbsentAssumption DEF Entries
<1>3. QED
  BY <1>1, <1>2, AbsentAssumption DEF Seen, Age, Recent!Remembered

\* A set is a put: of a new value, with another forgotten only if all that is held
\* can still be seen.
LEMMA SetIsPut ==
  ASSUME IInv, IInv', NEW k \in Keys, NEW v \in Values, Set(k, v)
  PROVE  Recent!Put(k)
<1> USE DEF IInv
<1>0. Stored(v) \in Entries /\ Stored(v) # Absent /\ Stored(v).value = v /\ Stored(v).left = Ttl
  BY StoredProperties, AbsentAssumption
<1>1. store'[k] = Stored(v)
  BY DEF Set, TypeOK
<1>2. Live(k)' /\ Seen'[k] = v /\ Age'[k] = 0
  BY <1>0, <1>1, TtlAssumption DEF Live, Seen, Age, Expired
<1>3. ASSUME NEW j \in Keys, store'[j] = store[j]
      PROVE  Seen'[j] = Seen[j] /\ Age'[j] = Age[j]
  BY <1>3 DEF Seen, Age, Live
<1>4. ASSUME NEW gone, gone \subseteq Keys \ {k},
             \A j \in Keys \ (gone \cup {k}) : Seen'[j] = Seen[j] /\ Age'[j] = Age[j],
             \A j \in gone : Seen'[j] = Absent /\ Age'[j] = 0
      PROVE  Recent!PutAll(k, v, gone)
  <2>1. /\ Seen' = [j \in Keys |-> Seen'[j]]
        /\ Age' = [j \in Keys |-> Age'[j]]
    BY DEF Seen, Age
  <2>2. QED BY <1>2, <1>4, <2>1 DEF Recent!PutAll
<1>5. CASE ~Crowded(k) /\ store' = [store EXCEPT ![k] = Stored(v)]
  <2>1. \A j \in Keys \ {k} : store'[j] = store[j]
    BY <1>5 DEF TypeOK
  <2>2. Recent!PutAll(k, v, {})
    BY <1>3, <1>4, <2>1
  <2>3. QED BY <2>2 DEF Recent!Put
<1>6. ASSUME Crowded(k), NEW old \in Evictable,
             store' = [store EXCEPT ![old] = Absent, ![k] = Stored(v)]
      PROVE  Recent!Put(k)
  <2>1. old \in Keys \ {k} /\ old \in Held
    BY <1>6 DEF Evictable, Crowded, Held
  <2>2. store'[old] = Absent /\ \A j \in Keys \ {k, old} : store'[j] = store[j]
    BY <1>6, <2>1 DEF TypeOK
  <2>3. Seen'[old] = Absent /\ Age'[old] = 0
    BY <2>1, <2>2 DEF Seen, Age, Live
  <2>4. CASE Live(old)
    <3>1. \A j \in Held : Live(j) /\ store[old].left <= store[j].left
      <4>1. \A j \in Held : store[j].left \in Int /\ store[j] # Absent
        BY TtlAssumption DEF Held, TypeOK, Entries, Expired
      <4>2. QED BY <1>6, <2>1, <2>4, <4>1 DEF Evictable, Live, Expired
    <3>2. Recent!Remembered = Held
      BY <3>1, SeenProperties DEF Held, Live
    <3>3. \A j \in Held : Age[j] <= Age[old]
      BY <2>1, <2>4, <3>1, SeenProperties, TtlAssumption DEF Held
    <3>4. Recent!PutAll(k, v, {old})
      BY <1>3, <1>4, <2>1, <2>2, <2>3
    <3>5. QED BY <1>6, <2>1, <3>2, <3>3, <3>4
              DEF Recent!Put, Crowded, Recent!Cardinality, Cardinality
  <2>5. CASE ~Live(old)
    <3>1. Seen[old] = Absent /\ Age[old] = 0
      BY <2>1, <2>5, SeenProperties
    <3>2. Recent!PutAll(k, v, {})
      BY <1>3, <1>4, <2>1, <2>2, <2>3, <3>1
    <3>3. QED BY <3>2 DEF Recent!Put
  <2>6. QED BY <2>4, <2>5
<1>7. QED BY <1>5, <1>6 DEF Set

LEMMA StepRefines ==
  IInv /\ IInv' /\ [Next]_store => [Recent!RecentNext]_(Recent!recentVars)
<1> SUFFICES ASSUME IInv, IInv', [Next]_store
             PROVE  [Recent!RecentNext]_(Recent!recentVars)
  OBVIOUS
<1> USE DEF IInv
<1>0. (Seen' = Seen /\ Age' = Age) => UNCHANGED Recent!recentVars
  BY DEF Recent!recentVars
<1>1. ASSUME NEW k \in Keys, Get(k) PROVE Seen' = Seen /\ Age' = Age
  <2>1. \A j \in Keys : (Live(j)' <=> Live(j)) /\ (Live(j) => store'[j] = store[j])
    BY <1>1 DEF Get, TypeOK, Live
  <2>2. QED BY <2>1 DEF Seen, Age
<1>2. CASE Clear
  <2>1. \A j \in Keys : ~Live(j)'
    BY <1>2 DEF Clear, Live
  <2>2. Recent!ForgetAll
    BY <2>1 DEF Recent!ForgetAll, Seen, Age
  <2>3. QED BY <2>2 DEF Recent!RecentNext
<1>3. CASE Tick
  <2>1. \A j \in Keys : ~Live(j) => ~Live(j)'
    BY <1>3 DEF Tick, Live
  <2>2. ASSUME NEW j \in Keys, Live(j)
        PROVE  /\ store'[j] # Absent /\ store'[j].value = store[j].value
               /\ store'[j].left = store[j].left - 1
    <3>1. store'[j] = [store[j] EXCEPT !.left = @ - 1]
      BY <1>3, <2>2 DEF Tick
    <3>2. store[j] \in Entries
      BY <2>2, SeenProperties
    <3>3. [store[j] EXCEPT !.left = @ - 1] \in Entries
      BY <2>2, <3>2, TtlAssumption DEF Live, Entries, Expired
    <3>4. QED BY <3>1, <3>2, <3>3, AbsentAssumption DEF Entries
  <2>3. \A j \in Keys : j \in Recent!Grown <=> Live(j) /\ store[j].left > 0
    BY SeenProperties, TtlAssumption DEF Recent!Grown
  <2>4. \A j \in Keys : j \in Recent!Grown <=> Live(j)'
    BY <2>1, <2>2, <2>3, SeenProperties DEF Live, Expired
  <2>5. \A j \in Recent!Grown : Seen'[j] = Seen[j] /\ Age'[j] = Age[j] + 1
    <3>1. Recent!Grown \subseteq Keys
      BY DEF Recent!Grown, Recent!Remembered
    <3>2. QED
      BY <2>2, <2>3, <2>4, <3>1, SeenProperties, TtlAssumption DEF Seen, Age
  <2>6. \A j \in Keys \ Recent!Grown : Seen'[j] = Absent /\ Age'[j] = 0
    BY <2>4 DEF Seen, Age
  <2>7. Recent!Pass
    <3>1. /\ Seen' = [j \in Keys |-> Seen'[j]]
          /\ Age' = [j \in Keys |-> Age'[j]]
      BY DEF Seen, Age
    <3>2. QED BY <2>5, <2>6, <3>1 DEF Recent!Pass
  <2>8. QED BY <2>7 DEF Recent!RecentNext
<1>4. CASE UNCHANGED store
  BY <1>0, <1>4 DEF Seen, Age, Live
<1>5. QED
  BY <1>0, <1>1, <1>2, <1>3, <1>4, SetIsPut DEF Next, Recent!RecentNext

\* The cache implements the abstract one: a hit is the last value set within the
\* time to live, and eviction takes the oldest value only if no expired one is held.
THEOREM CacheKeepsRecentValues == Spec => RecentSpec
<1>1. Init => Recent!RecentInit
  BY DEF Init, Recent!RecentInit, Seen, Age, Live
<1>2. QED
  BY <1>1, Invariance, StepRefines, PTL DEF Spec, RecentSpec, Recent!RecentSpec
-----------------------------------------------------------------------------
(* Lists of texts and of events.                                            *)

\* A sequence of whatever is in it.
IsList(s) == s \in Seq(Range(s))
IsTexts(s) == IsList(s) /\ \A n \in DOMAIN s : IsText(s[n])

LEMMA ListOfElements == ASSUME NEW S, NEW s \in Seq(S) PROVE IsList(s)
BY SeqOfRange DEF IsList

LEMMA ListProperties ==
  ASSUME NEW s, IsList(s)
  PROVE  Len(s) \in Nat /\ DOMAIN s = 1 .. Len(s)
BY LenProperties DEF IsList

LEMMA ListGrows ==
  ASSUME NEW s, IsList(s), NEW e
  PROVE  /\ IsList(Append(s, e)) /\ Len(Append(s, e)) = Len(s) + 1
         /\ Append(s, e)[Len(s) + 1] = e
         /\ \A n \in 1 .. Len(s) : Append(s, e)[n] = s[n]
<1> DEFINE S == Range(s) \cup {e}
<1>1. s \in Seq(S)
  <2>1. Range(s) \subseteq S
    OBVIOUS
  <2>2. Seq(Range(s)) \subseteq Seq(S)
    BY <2>1, SeqMonotonic
  <2>3. QED BY <2>2 DEF IsList
<1>2. e \in S
  OBVIOUS
<1> HIDE DEF S
<1>3. /\ Append(s, e) \in Seq(S) /\ Len(Append(s, e)) = Len(s) + 1
      /\ Append(s, e)[Len(s) + 1] = e
      /\ \A n \in 1 .. Len(s) : Append(s, e)[n] = s[n]
  BY <1>1, <1>2, AppendProperties
<1>4. IsList(Append(s, e))
  BY <1>3, ListOfElements
<1>5. QED BY <1>3, <1>4

LEMMA ListShrinks ==
  ASSUME NEW s, IsTexts(s), s # <<>>
  PROVE  IsText(Head(s)) /\ IsTexts(Tail(s))
<1>1. /\ Head(s) \in Range(s) /\ Tail(s) \in Seq(Range(s)) /\ Len(Tail(s)) = Len(s) - 1
      /\ \A i \in 1 .. Len(Tail(s)) : Tail(s)[i] = s[i + 1]
  BY HeadTailProperties DEF IsTexts, IsList
<1>2. Len(s) \in Nat /\ DOMAIN s = 1 .. Len(s) /\ DOMAIN Tail(s) = 1 .. Len(Tail(s))
  BY <1>1, LenProperties DEF IsTexts, IsList
<1>3. IsText(Head(s))
  BY <1>1 DEF IsTexts, Range
<1>4. \A i \in DOMAIN Tail(s) : IsText(Tail(s)[i])
  BY <1>1, <1>2 DEF IsTexts
<1>5. QED BY <1>1, <1>3, <1>4, ListOfElements DEF IsTexts

(* Lists of positions.                                                      *)

Ascends(list) == \A m, n \in DOMAIN list : m < n => list[m] < list[n]

\* Every set of positions can be put into its order.
LEMMA OrderExists ==
  ASSUME NEW n \in Nat, NEW S \in SUBSET (0 .. n)
  PROVE  \E list \in [1 .. Cardinality(S) -> S] : Ascends(list) /\ Range(list) = S
<1> DEFINE Ordered(T) == \E list \in [1 .. Cardinality(T) -> T] : Ascends(list) /\ Range(list) = T
           Bad == {T \in SUBSET (0 .. n) : ~Ordered(T)}
           R == StrictSubsetOrdering(0 .. n)
<1>1. SUFFICES ASSUME Bad # {} PROVE FALSE
  OBVIOUS
<1>2. IsFiniteSet(0 .. n) /\ IsWellFoundedOn(R, SUBSET (0 .. n))
  <2>1. IsFiniteSet(0 .. n)
    BY FS_Interval
  <2>2. QED BY <2>1, FS_StrictSubsetOrderingWellFounded, FS_FiniteSubsetsOfFinite
<1>3. PICK T \in Bad : \A U \in Bad : <<U, T>> \notin R
  BY <1>1, <1>2, WFMin
<1>4. T \in SUBSET (0 .. n) /\ ~Ordered(T)
  OBVIOUS
<1>5. CASE T = {}
  <2> DEFINE list == [i \in 1 .. 0 |-> i]
  <2>1. Cardinality(T) = 0
    BY <1>5, FS_EmptySet
  <2>2. list \in [1 .. 0 -> T] /\ Ascends(list) /\ Range(list) = T
    BY <1>5 DEF Ascends, Range
  <2>3. QED BY <1>4, <2>1, <2>2
<1>6. CASE T # {}
  <2> DEFINE top == Max(T)
             U == T \ {top}
  <2>1. top \in T /\ \A y \in T : y <= top
    BY <1>4, <1>6, MaxProperties
  <2>2. <<U, T>> \in R
    BY <1>4, <2>1 DEF StrictSubsetOrdering
  <2>3. Ordered(U)
    BY <1>3, <1>4, <2>2
  <2>4. PICK list \in [1 .. Cardinality(U) -> U] : Ascends(list) /\ Range(list) = U
    BY <2>3
  <2>5. IsFiniteSet(T) /\ Cardinality(T) = Cardinality(U) + 1 /\ Cardinality(U) \in Nat
    <3>1. IsFiniteSet(T)
      BY <1>2, <1>4, FS_Subset
    <3>2. IsFiniteSet(U) /\ Cardinality(U) = Cardinality(T) - 1
      BY <2>1, <3>1, FS_RemoveElement
    <3>3. Cardinality(T) \in Nat /\ Cardinality(U) \in Nat
      BY <3>1, <3>2, FS_CardinalityType
    <3>4. QED BY <3>1, <3>2, <3>3
  <2> HIDE DEF U, top
  <2> DEFINE k == Cardinality(U)
             longer == [i \in 1 .. k + 1 |-> IF i = k + 1 THEN top ELSE list[i]]
  <2>6. U = T \ {top} /\ \A y \in U : y \in 0 .. n /\ y < top
    BY <1>4, <2>1 DEF U
  <2>7. \A i \in 1 .. k : i \in 1 .. k + 1 /\ i # k + 1 /\ list[i] \in U
    BY <2>4, <2>5
  <2>8. \A i \in 1 .. k : longer[i] = list[i] /\ list[i] \in U
    BY <2>7
  <2>9. longer \in [1 .. k + 1 -> T] /\ longer[k + 1] = top
    <3>1. \A i \in 1 .. k + 1 : i = k + 1 \/ i \in 1 .. k
      BY <2>5
    <3>2. k + 1 \in 1 .. k + 1
      BY <2>5
    <3>3. QED BY <2>1, <2>6, <2>7, <3>1, <3>2
  <2>10. Ascends(longer)
    <3>1. SUFFICES ASSUME NEW a \in 1 .. k + 1, NEW b \in 1 .. k + 1, a < b
                   PROVE  longer[a] < longer[b]
      BY <2>9 DEF Ascends
    <3>2. a \in 1 .. k
      BY <2>5, <3>1
    <3>3. CASE b = k + 1
      BY <2>6, <2>9, <2>8, <3>2, <3>3
    <3>4. CASE b # k + 1
      <4>1. b \in 1 .. k
        BY <2>5, <3>4
      <4>2. list[a] < list[b]
        BY <2>4, <3>1, <3>2, <4>1 DEF Ascends
      <4>3. QED BY <2>8, <3>2, <4>1, <4>2
    <3>5. QED BY <3>3, <3>4
  <2>11. Range(longer) = T
    <3>1. \A y \in T : y = top \/ \E i \in 1 .. k : y = list[i]
      BY <2>4, <2>6 DEF Range
    <3>2. \A y \in T : \E i \in 1 .. k + 1 : y = longer[i]
      BY <2>5, <2>9, <2>8, <3>1
    <3>3. QED BY <2>9, <3>2 DEF Range
  <2>12. QED BY <1>4, <2>5, <2>9, <2>10, <2>11
<1>7. QED BY <1>5, <1>6

\* InOrder names the elements of a set of positions one after the other.
LEMMA InOrderProperties ==
  ASSUME NEW n \in Nat, NEW S \in SUBSET (0 .. n)
  PROVE  /\ Cardinality(S) \in Nat
         /\ InOrder(S) \in [1 .. Cardinality(S) -> S]
         /\ Ascends(InOrder(S))
         /\ Range(InOrder(S)) = S
<1>1. IsFiniteSet(S)
  <2>1. IsFiniteSet(0 .. n)
    BY FS_Interval
  <2>2. QED BY <2>1, FS_Subset
<1>2. Cardinality(S) \in Nat
  BY <1>1, FS_CardinalityType
<1> DEFINE k == Cardinality(S)
           list == InOrder(S)
<1>3. list \in [1 .. k -> S] /\ Ascends(list)
  <2>1. \E f \in [1 .. k -> S] : Ascends(f)
    BY OrderExists
  <2>2. QED BY <2>1 DEF InOrder, Ascends
<1> HIDE DEF list
<1>4. IsInjective(list)
  <2>1. SUFFICES ASSUME NEW a \in 1 .. k, NEW b \in 1 .. k, list[a] = list[b], a # b PROVE FALSE
    BY <1>3 DEF IsInjective
  <2>2. list[a] \in 0 .. n /\ list[b] \in 0 .. n
    BY <1>3
  <2>3. a < b \/ b < a
    BY <2>1
  <2>4. list[a] < list[b] \/ list[b] < list[a]
    BY <1>3, <2>3 DEF Ascends
  <2>5. QED BY <2>1, <2>2, <2>4
<1>5. list \in Injection(1 .. k, S)
  BY <1>3, <1>4 DEF Injection
<1>6. Cardinality(1 .. k) = k
  BY <1>2, FS_Interval
<1>7. list \in Surjection(1 .. k, S)
  BY <1>1, <1>5, <1>6, FS_Injection
<1>8. Range(list) = S
  BY <1>3, <1>7 DEF Surjection, Range
<1>9. QED BY <1>2, <1>3, <1>8 DEF list

LEMMA TheTwo ==
  ASSUME NEW a \in Int, NEW b \in Int
  PROVE  /\ Max({a, b}) = IF a >= b THEN a ELSE b
         /\ Min({a, b}) = IF a <= b THEN a ELSE b
<1>1. \E x \in {a, b} : \A y \in {a, b} : x >= y
  OBVIOUS
<1>2. Max({a, b}) \in {a, b} /\ \A y \in {a, b} : Max({a, b}) >= y
  BY <1>1 DEF Max
<1>3. \E x \in {a, b} : \A y \in {a, b} : x <= y
  OBVIOUS
<1>4. Min({a, b}) \in {a, b} /\ \A y \in {a, b} : Min({a, b}) <= y
  BY <1>3 DEF Min
<1>5. QED BY <1>2, <1>4
-----------------------------------------------------------------------------
(* The chunker.                                                             *)

Chars == {Break} \cup (Nat \X Nat)
Chunks == [id : Nat, section : Nat, text : Seq(Chars)]

ChunkerType ==
  /\ text \in Seq(Nat)
  /\ sec \in Nat \ {0} /\ par \in Nat \ {0}
  /\ buf \in Seq(Chars)
  /\ cutting \in BOOLEAN
  /\ chunks \in Seq(Chunks)
  /\ cutting => sec <= Len(Sections)

\* The sections and the paragraphs of a document in their order.
LEMMA SectionsProperties ==
  ASSUME text \in Seq(Nat)
  PROVE  /\ Len(Sections) \in Nat /\ DOMAIN Sections = 1 .. Len(Sections)
         /\ Ascends(Sections)
         /\ Range(Sections) = {h \in Titles : Body(h) # {}}
         /\ \A s \in 1 .. Len(Sections) : Sections[s] \in 0 .. Len(text) /\ Body(Sections[s]) # {}
<1> DEFINE S == {h \in Titles : Body(h) # {}}
           list == InOrder(S)
           k == Cardinality(S)
<1>1. Len(text) \in Nat /\ DOMAIN text = 1 .. Len(text)
  BY LenProperties
<1>2. S \in SUBSET (0 .. Len(text))
  BY <1>1 DEF Titles
<1>3. k \in Nat /\ list \in [1 .. k -> S] /\ Ascends(list) /\ Range(list) = S
  BY <1>1, <1>2, InOrderProperties
<1>4. Sections = list
  BY DEF Sections
<1>5. \A h \in S : h \in 0 .. Len(text) /\ Body(h) # {}
  BY <1>2
<1> HIDE DEF S, list, k
<1>6. list \in Seq(S) /\ DOMAIN list = 1 .. k
  BY <1>3, SeqDef
<1>7. Len(list) = k
  BY <1>3, <1>6, LenProperties
<1>8. \A s \in 1 .. k : list[s] \in S
  BY <1>3
<1>9. QED BY <1>3, <1>4, <1>5, <1>6, <1>7, <1>8 DEF S

LEMMA ParagraphsProperties ==
  ASSUME text \in Seq(Nat), NEW s
  PROVE  /\ Len(Paragraphs(s)) \in Nat /\ DOMAIN Paragraphs(s) = 1 .. Len(Paragraphs(s))
         /\ Ascends(Paragraphs(s))
         /\ Range(Paragraphs(s)) = Body(Sections[s])
         /\ \A p \in 1 .. Len(Paragraphs(s)) :
              Paragraphs(s)[p] \in Body(Sections[s]) /\ Paragraphs(s)[p] \in 1 .. Len(text)
<1> DEFINE S == Body(Sections[s])
           list == InOrder(S)
           k == Cardinality(S)
<1>1. Len(text) \in Nat /\ DOMAIN text = 1 .. Len(text)
  BY LenProperties
<1>2. S \in SUBSET (0 .. Len(text)) /\ S \subseteq 1 .. Len(text)
  BY <1>1 DEF Body
<1>3. k \in Nat /\ list \in [1 .. k -> S] /\ Ascends(list) /\ Range(list) = S
  BY <1>1, <1>2, InOrderProperties
<1>4. Paragraphs(s) = list
  BY DEF Paragraphs
<1> HIDE DEF S, list, k
<1>6. list \in Seq(S) /\ DOMAIN list = 1 .. k
  BY <1>3, SeqDef
<1>7. Len(list) = k
  BY <1>3, <1>6, LenProperties
<1>8. \A p \in 1 .. k : list[p] \in S
  BY <1>3
<1>9. QED BY <1>2, <1>3, <1>4, <1>6, <1>7, <1>8 DEF S

\* What is written in a text, and its ends.
LEMMA WrittenProperties ==
  ASSUME NEW part \in Seq(Chars)
  PROVE  /\ Len(part) \in Nat /\ DOMAIN part = 1 .. Len(part)
         /\ Written(part) \in SUBSET (0 .. Len(part))
         /\ \A j \in Written(part) : j \in 1 .. Len(part) /\ part[j] \in Nat \X Nat
         /\ Written(part) # {} =>
              /\ Min(Written(part)) \in Written(part) /\ Max(Written(part)) \in Written(part)
              /\ \A j \in Written(part) : Min(Written(part)) <= j /\ j <= Max(Written(part))
<1>1. Len(part) \in Nat /\ DOMAIN part = 1 .. Len(part) /\ \A j \in 1 .. Len(part) : part[j] \in Chars
  BY LenProperties, ElementOfSeq
<1>2. Written(part) \in SUBSET (0 .. Len(part))
  BY <1>1 DEF Written
<1>3. \A j \in Written(part) : j \in 1 .. Len(part) /\ part[j] \in Nat \X Nat
  BY <1>1 DEF Written, Chars
<1>4. QED BY <1>1, <1>2, <1>3, MinProperties, MaxProperties

LEMMA CutsOfTexts ==
  ASSUME NEW part \in Seq(Chars), NEW a \in Nat \ {0}, NEW b \in 0 .. Len(part)
  PROVE  /\ SubSeq(part, a, b) \in Seq(Chars)
         /\ Len(SubSeq(part, a, b)) = IF a <= b THEN b - a + 1 ELSE 0
         /\ \A j \in 1 .. Len(SubSeq(part, a, b)) : SubSeq(part, a, b)[j] = part[a + j - 1]
<1>1. Len(part) \in Nat /\ DOMAIN part = 1 .. Len(part) /\ \A j \in 1 .. Len(part) : part[j] \in Chars
  BY LenProperties, ElementOfSeq
<1>2. \A i \in a .. b : part[i] \in Chars
  BY <1>1
<1>3. a \in Int /\ b \in Int
  BY <1>1
<1>4. QED BY <1>2, <1>3, SubSeqProperties

LEMMA StrippedIsText ==
  ASSUME NEW part \in Seq(Chars)
  PROVE  Stripped(part) \in Seq(Chars) /\ LeftStripped(part) \in Seq(Chars)
<1>1. <<>> \in Seq(Chars)
  BY EmptySeq
<1>2. CASE Written(part) = {}
  BY <1>1, <1>2 DEF Stripped, LeftStripped
<1>3. CASE Written(part) # {}
  <2>1. /\ Min(Written(part)) \in 1 .. Len(part) /\ Max(Written(part)) \in 1 .. Len(part)
        /\ Len(part) \in Nat
    BY <1>3, WrittenProperties
  <2>2. QED BY <1>3, <2>1, CutsOfTexts DEF Stripped, LeftStripped
<1>4. QED BY <1>2, <1>3

LEMMA FollowingIsText ==
  ASSUME ChunkerType, sec <= Len(Sections), par <= Len(Paragraphs(sec))
  PROVE  Following \in Seq(Chars)
<1>1. Paragraphs(sec)[par] \in 1 .. Len(text)
  BY ParagraphsProperties DEF ChunkerType
<1> DEFINE i == Paragraphs(sec)[par]
<1>2. text[i] \in Nat /\ i \in Nat
  BY <1>1, ElementOfSeq DEF ChunkerType
<1> HIDE DEF i
<1>3. Paragraph(i) \in Seq(Chars)
  <2>1. Paragraph(i) \in [1 .. text[i] -> Chars]
    BY <1>2 DEF Paragraph, Chars
  <2>2. QED BY <1>2, <2>1, SeqDef
<1>4. QED BY <1>3 DEF Following, i

LEMMA CarriedIsText ==
  ASSUME ChunkerType PROVE Carried \in Seq(Chars)
<1>1. <<>> \in Seq(Chars) /\ Gap \in Seq(Chars)
  BY EmptySeq DEF Gap, Chars
<1>2. Len(buf) \in Nat /\ buf \in Seq(Chars) /\ Overlap \in Nat
  BY LenProperties, OverlapAssumption DEF ChunkerType
<1>3. Ending(buf, Overlap) \in Seq(Chars)
  <2> DEFINE a == Max({1, Len(buf) - Overlap + 1})
  <2>1. a \in Nat \ {0}
    BY <1>2, TheTwo
  <2>2. Len(buf) \in 0 .. Len(buf)
    BY <1>2
  <2> HIDE DEF a
  <2>3. SubSeq(buf, a, Len(buf)) \in Seq(Chars)
    BY <1>2, <2>1, <2>2, CutsOfTexts
  <2>4. QED BY <2>3 DEF Ending, a
<1>4. LeftStripped(Ending(buf, Overlap)) \o Gap \in Seq(Chars)
  BY <1>1, <1>3, StrippedIsText, ConcatProperties
<1>5. QED BY <1>1, <1>2, <1>4 DEF Carried

LEMMA MadeIsChunks ==
  ASSUME ChunkerType, NEW part \in Seq(Chars), sec <= Len(Sections)
  PROVE  /\ Made(part) \in Seq(Chunks)
         /\ Len(Made(part)) = Len(chunks) + 1
         /\ Made(part)[Len(chunks) + 1] =
              [id |-> Len(chunks), section |-> Sections[sec], text |-> Stripped(part)]
         /\ \A n \in 1 .. Len(chunks) : Made(part)[n] = chunks[n]
<1> DEFINE c == [id |-> Len(chunks), section |-> Sections[sec], text |-> Stripped(part)]
<1>1. Len(chunks) \in Nat
  BY LenProperties DEF ChunkerType
<1>2. Sections[sec] \in Nat
  <2>1. sec \in 1 .. Len(Sections) /\ Len(text) \in Nat
    BY SectionsProperties, LenProperties DEF ChunkerType
  <2>2. QED BY <2>1, SectionsProperties DEF ChunkerType
<1>3. c \in Chunks
  BY <1>1, <1>2, StrippedIsText DEF Chunks
<1>4. QED BY <1>3, AppendProperties DEF ChunkerType, Made

LEMMA ChunkerTypeInitially ==
  ASSUME ChunkerInit PROVE ChunkerType
<1>1. <<>> \in Seq(Chars) /\ <<>> \in Seq(Chunks)
  BY EmptySeq
<1>2. text \in Seq(Nat)
  BY TextsAssumption DEF ChunkerInit
<1>3. buf \in Seq(Chars) /\ chunks \in Seq(Chunks)
  BY <1>1 DEF ChunkerInit
<1>4. sec = 1 /\ par = 1 /\ cutting \in BOOLEAN /\ (cutting => sec <= Len(Sections))
  BY DEF ChunkerInit
<1>5. QED BY <1>2, <1>3, <1>4 DEF ChunkerType

LEMMA ChunkerTypeInductive ==
  ASSUME ChunkerType, ChunkerNext PROVE ChunkerType'
<1>1. text' = text /\ Sections' = Sections
  <2>1. text' = text
    BY DEF ChunkerNext, Pack, Cut, EndSection
  <2>2. QED BY <2>1 DEF Sections, InOrder, Titles, Body
<1>2. sec \in Nat /\ Len(Sections) \in Nat /\ Len(buf) \in Nat
  BY SectionsProperties, LenProperties DEF ChunkerType
<1>3. CASE Pack
  <2>1. Following \in Seq(Chars) /\ Carried \in Seq(Chars) /\ Gap \in Seq(Chars) /\ <<>> \in Seq(Chars)
    BY <1>3, FollowingIsText, CarriedIsText, EmptySeq DEF Pack, Gap, Chars
  <2>2. buf' \in Seq(Chars)
    BY <1>3, <2>1, ConcatProperties DEF Pack
  <2>3. chunks' \in Seq(Chunks)
    BY <1>3, MadeIsChunks DEF Pack, ChunkerType
  <2>4. QED BY <1>1, <1>3, <2>2, <2>3 DEF Pack, ChunkerType
<1>4. CASE Cut
  <2>1. MaxChars \in Nat /\ MaxChars - Overlap + 1 \in Nat \ {0}
    BY OverlapAssumption
  <2>2. SubSeq(buf, MaxChars - Overlap + 1, Len(buf)) \in Seq(Chars)
    BY <1>2, <2>1, CutsOfTexts DEF ChunkerType
  <2>3. CASE TooLong
    <3>1. MaxChars \in 0 .. Len(buf)
      BY <1>2, <2>1, <2>3 DEF TooLong
    <3>2. SubSeq(buf, 1, MaxChars) \in Seq(Chars)
      BY <3>1, CutsOfTexts DEF ChunkerType
    <3>3. chunks' \in Seq(Chunks) /\ buf' \in Seq(Chars)
      BY <1>4, <2>2, <2>3, <3>2, MadeIsChunks DEF Cut, Rest, ChunkerType
    <3>4. QED BY <1>1, <1>4, <2>3, <3>3 DEF Cut, ChunkerType
  <2>4. CASE ~TooLong
    <3>1. cutting' = FALSE /\ buf' = buf /\ chunks' = chunks /\ sec' = sec /\ par' = par
      BY <1>4, <2>4 DEF Cut
    <3>2. QED BY <1>1, <3>1 DEF ChunkerType
  <2>5. QED BY <2>3, <2>4
<1>5. CASE EndSection
  <2>1. chunks' \in Seq(Chunks) /\ <<>> \in Seq(Chars)
    BY <1>5, MadeIsChunks, EmptySeq DEF EndSection, ChunkerType
  <2>2. QED BY <1>1, <1>2, <1>5, <2>1 DEF EndSection, ChunkerType
<1>6. QED BY <1>3, <1>4, <1>5 DEF ChunkerNext
-----------------------------------------------------------------------------
(* What is written in the chunks.                                           *)

Content(part) == {part[j] : j \in Written(part)}

\* No character is written twice.
Distinct(part) == \A a, b \in Written(part) : part[a] = part[b] => a = b

LEMMA CutContent ==
  ASSUME NEW part \in Seq(Chars), NEW a \in Nat \ {0}, NEW b \in 0 .. Len(part)
  PROVE  /\ Content(SubSeq(part, a, b)) \subseteq Content(part)
         /\ Distinct(part) => Distinct(SubSeq(part, a, b))
         /\ \A j \in Written(part) : a <= j /\ j <= b => part[j] \in Content(SubSeq(part, a, b))
<1> DEFINE cut == SubSeq(part, a, b)
           l == Len(cut)
<1>1. Len(part) \in Nat /\ DOMAIN part = 1 .. Len(part)
  BY LenProperties
<1>2. /\ cut \in Seq(Chars) /\ l = IF a <= b THEN b - a + 1 ELSE 0
      /\ \A j \in 1 .. l : cut[j] = part[a + j - 1]
  BY CutsOfTexts
<1>3. DOMAIN cut = 1 .. l
  BY <1>2, LenProperties
<1> HIDE DEF cut, l
<1>4. \A j \in Written(cut) : j \in 1 .. l /\ a + j - 1 \in Written(part) /\ cut[j] = part[a + j - 1]
  BY <1>1, <1>2, <1>3 DEF Written
<1>5. Content(cut) \subseteq Content(part)
  BY <1>4 DEF Content
<1>6. ASSUME Distinct(part) PROVE Distinct(cut)
  <2>1. SUFFICES ASSUME NEW m \in Written(cut), NEW n \in Written(cut), cut[m] = cut[n] PROVE m = n
    BY DEF Distinct
  <2>2. a + m - 1 = a + n - 1
    BY <1>4, <1>6, <2>1 DEF Distinct
  <2>3. m \in Int /\ n \in Int
    BY <1>4
  <2>4. QED BY <2>2, <2>3
<1>7. ASSUME NEW j \in Written(part), a <= j, j <= b PROVE part[j] \in Content(cut)
  <2>1. j \in 1 .. Len(part) /\ part[j] # Break
    BY <1>1, <1>7 DEF Written
  <2>2. j - a + 1 \in 1 .. l /\ a + (j - a + 1) - 1 = j
    BY <1>1, <1>2, <1>7, <2>1
  <2>3. cut[j - a + 1] = part[j]
    BY <1>2, <2>2
  <2>4. j - a + 1 \in Written(cut)
    BY <1>3, <2>1, <2>2, <2>3 DEF Written
  <2>5. QED BY <2>3, <2>4 DEF Content
<1>8. QED BY <1>5, <1>6, <1>7 DEF cut

LEMMA StrippedContent ==
  ASSUME NEW part \in Seq(Chars)
  PROVE  /\ Content(Stripped(part)) = Content(part) /\ Content(LeftStripped(part)) = Content(part)
         /\ Distinct(part) => Distinct(Stripped(part)) /\ Distinct(LeftStripped(part))
         /\ Len(Stripped(part)) <= Len(part) /\ Len(LeftStripped(part)) <= Len(part)
<1>1. Len(part) \in Nat
  BY LenProperties
<1>2. CASE Written(part) = {}
  <2>1. Stripped(part) = <<>> /\ LeftStripped(part) = <<>>
    BY <1>2 DEF Stripped, LeftStripped
  <2>2. Written(<<>>) = {} /\ Len(<<>>) = 0
    BY DEF Written
  <2>3. QED BY <1>1, <1>2, <2>1, <2>2 DEF Content, Distinct
<1>3. CASE Written(part) # {}
  <2> DEFINE a == Min(Written(part))
             b == Max(Written(part))
  <2>1. a \in 1 .. Len(part) /\ b \in 1 .. Len(part) /\ \A j \in Written(part) : a <= j /\ j <= b
    BY <1>3, WrittenProperties
  <2>2. Stripped(part) = SubSeq(part, a, b) /\ LeftStripped(part) = SubSeq(part, a, Len(part))
    BY <1>3 DEF Stripped, LeftStripped
  <2>3. \A j \in Written(part) : j <= Len(part)
    BY WrittenProperties
  <2> HIDE DEF a, b
  <2>4. ASSUME NEW c \in {b, Len(part)}
        PROVE  /\ Content(SubSeq(part, a, c)) = Content(part)
               /\ Distinct(part) => Distinct(SubSeq(part, a, c))
               /\ Len(SubSeq(part, a, c)) <= Len(part)
    <3>1. a \in Nat \ {0} /\ c \in 0 .. Len(part) /\ \A j \in Written(part) : a <= j /\ j <= c
      BY <1>1, <2>1, <2>3
    <3>2. Content(part) \subseteq Content(SubSeq(part, a, c))
      <4>1. \A j \in Written(part) : part[j] \in Content(SubSeq(part, a, c))
        BY <3>1, CutContent
      <4>2. QED BY <4>1 DEF Content
    <3>3. Len(SubSeq(part, a, c)) = IF a <= c THEN c - a + 1 ELSE 0
      BY <3>1, CutsOfTexts
    <3>4. QED BY <1>1, <3>1, <3>2, <3>3, CutContent
  <2>5. QED BY <2>2, <2>4
<1>4. QED BY <1>2, <1>3

LEMMA JoinedContent ==
  ASSUME NEW one \in Seq(Chars), NEW other \in Seq(Chars)
  PROVE  /\ Content(one \o other) = Content(one) \cup Content(other)
         /\ Distinct(one) /\ Distinct(other) /\ Content(one) \cap Content(other) = {} =>
              Distinct(one \o other)
<1> DEFINE k == Len(one)
           l == Len(other)
           both == one \o other
<1>1. k \in Nat /\ l \in Nat /\ DOMAIN one = 1 .. k /\ DOMAIN other = 1 .. l
  BY LenProperties
<1>2. both \in Seq(Chars) /\ Len(both) = k + l
  BY ConcatProperties
<1>3. \A j \in 1 .. k + l : both[j] = IF j <= k THEN one[j] ELSE other[j - k]
  BY ConcatProperties
<1>4. DOMAIN both = 1 .. k + l
  BY <1>2, LenProperties
<1> HIDE DEF k, l, both
<1>5. \A j \in Written(one) : j \in Written(both) /\ both[j] = one[j]
  BY <1>1, <1>3, <1>4 DEF Written
<1>6. ASSUME NEW j \in Written(other) PROVE j + k \in Written(both) /\ both[j + k] = other[j]
  <2>1. j \in 1 .. l /\ other[j] # Break
    BY <1>1 DEF Written
  <2>2. j + k \in 1 .. k + l /\ ~(j + k <= k) /\ j + k - k = j
    BY <1>1, <2>1
  <2>3. both[j + k] = other[j]
    <3> DEFINE i == j + k
    <3>1. both[i] = other[i - k]
      <4>1. i \in 1 .. k + l /\ ~(i <= k)
        BY <2>2
      <4> HIDE DEF i
      <4>2. QED BY <1>3, <4>1
    <3>2. i - k = j
      BY <1>1, <2>1
    <3>3. QED BY <3>1, <3>2
  <2>4. QED BY <1>4, <2>1, <2>2, <2>3 DEF Written
<1>7. \A j \in Written(both) :
        \/ j \in Written(one) /\ both[j] = one[j]
        \/ j - k \in Written(other) /\ both[j] = other[j - k]
  <2>1. SUFFICES ASSUME NEW j \in Written(both)
                 PROVE  \/ j \in Written(one) /\ both[j] = one[j]
                        \/ j - k \in Written(other) /\ both[j] = other[j - k]
    OBVIOUS
  <2>2. j \in 1 .. k + l /\ both[j] # Break
    BY <1>4 DEF Written
  <2>3. CASE j <= k
    BY <1>1, <1>3, <2>2, <2>3 DEF Written
  <2>4. CASE ~(j <= k)
    <3>1. j - k \in 1 .. l
      BY <1>1, <2>2, <2>4
    <3>2. QED BY <1>1, <1>3, <2>2, <2>4, <3>1 DEF Written
  <2>5. QED BY <2>3, <2>4
<1>8. Content(both) = Content(one) \cup Content(other)
  BY <1>5, <1>6, <1>7 DEF Content
<1>9. ASSUME Distinct(one), Distinct(other), Content(one) \cap Content(other) = {}
      PROVE  Distinct(both)
  <2>1. SUFFICES ASSUME NEW m \in Written(both), NEW n \in Written(both), both[m] = both[n] PROVE m = n
    BY DEF Distinct
  <2>2. m \in Int /\ n \in Int
    BY <1>4 DEF Written
  <2>3. CASE m \in Written(one) /\ n \in Written(one)
    BY <1>5, <1>9, <2>1, <2>3 DEF Distinct
  <2>4. CASE m - k \in Written(other) /\ both[m] = other[m - k] /\ n - k \in Written(other) /\ both[n] = other[n - k]
    <3>1. m - k = n - k
      BY <1>9, <2>1, <2>4 DEF Distinct
    <3>2. QED BY <1>1, <2>2, <3>1
  <2>5. ASSUME NEW i \in Written(one), NEW j \in Written(other) PROVE one[i] # other[j]
    BY <1>9 DEF Content
  <2>6. QED BY <1>7, <2>1, <2>3, <2>4, <2>5
<1>10. QED BY <1>8, <1>9 DEF both

LEMMA GapContent == Gap \in Seq(Chars) /\ Content(Gap) = {} /\ Distinct(Gap) /\ Len(Gap) = 2
<1>1. Gap \in Seq(Chars) /\ Len(Gap) = 2 /\ DOMAIN Gap = 1 .. 2 /\ \A j \in 1 .. 2 : Gap[j] = Break
  BY DEF Gap, Chars
<1>2. Written(Gap) = {}
  BY <1>1 DEF Written
<1>3. QED BY <1>1, <1>2 DEF Content, Distinct

LEMMA EmptyContent == <<>> \in Seq(Chars) /\ Content(<<>>) = {} /\ Distinct(<<>>) /\ Len(<<>>) = 0
<1>1. Written(<<>>) = {} /\ <<>> \in Seq(Chars) /\ Len(<<>>) = 0
  BY EmptySeq DEF Written
<1>2. QED BY <1>1 DEF Content, Distinct

LEMMA ParagraphContent ==
  ASSUME NEW i, text[i] \in Nat, i \in Nat
  PROVE  /\ Paragraph(i) \in Seq(Chars) /\ Len(Paragraph(i)) = text[i]
         /\ Written(Paragraph(i)) = 1 .. text[i]
         /\ \A k \in 1 .. text[i] : Paragraph(i)[k] = <<i, k>>
         /\ Content(Paragraph(i)) \subseteq {i} \X Nat
         /\ Distinct(Paragraph(i))
<1>1. Paragraph(i) \in [1 .. text[i] -> Chars] /\ \A k \in 1 .. text[i] : Paragraph(i)[k] = <<i, k>>
  BY DEF Paragraph, Chars
<1>2. Paragraph(i) \in Seq(Chars) /\ DOMAIN Paragraph(i) = 1 .. text[i]
  BY <1>1, SeqDef
<1>3. Len(Paragraph(i)) = text[i]
  BY <1>2, LenProperties
<1>4. \A k \in 1 .. text[i] : Paragraph(i)[k] # Break
  BY <1>1 DEF Break
<1>5. Written(Paragraph(i)) = 1 .. text[i]
  BY <1>2, <1>4 DEF Written
<1>6. Content(Paragraph(i)) \subseteq {i} \X Nat
  <2>1. \A k \in 1 .. text[i] : <<i, k>> \in {i} \X Nat
    OBVIOUS
  <2>2. \A k \in Written(Paragraph(i)) : Paragraph(i)[k] \in {i} \X Nat
    BY <1>1, <1>5, <2>1
  <2>3. QED BY <2>2 DEF Content
<1>7. Distinct(Paragraph(i))
  BY <1>1, <1>5 DEF Distinct
<1>8. QED BY <1>1, <1>2, <1>3, <1>5, <1>6, <1>7

\* The paragraphs of this section that have been packed.
Packed == {Paragraphs(sec)[p] : p \in 1 .. par - 1}

\* Where the chunker is, what it has written stands in front of it, once.
DistinctInv ==
  /\ sec <= Len(Sections) => par <= Len(Paragraphs(sec)) + 1
  /\ sec > Len(Sections) => buf = <<>>
  /\ Distinct(buf)
  /\ \A c \in Content(buf) : c[1] \in Packed
  /\ \A n \in DOMAIN chunks :
       /\ Distinct(chunks[n].text)
       /\ chunks[n].id = n - 1
       /\ \A c \in Content(chunks[n].text) :
            /\ c[1] \in Body(chunks[n].section)
            /\ sec <= Len(Sections) => c[1] \in Packed \cup 0 .. Sections[sec]

LEMMA PackedProperties ==
  ASSUME ChunkerType, DistinctInv, sec <= Len(Sections)
  PROVE  /\ sec \in 1 .. Len(Sections) /\ Len(Paragraphs(sec)) \in Nat
         /\ Sections[sec] \in 0 .. Len(text) /\ Len(text) \in Nat
         /\ Packed \subseteq Body(Sections[sec])
         /\ \A i \in Body(Sections[sec]) : i \in Nat /\ i > Sections[sec] /\ i \in 1 .. Len(text)
         /\ par > Len(Paragraphs(sec)) => Packed = Body(Sections[sec])
<1>1. /\ sec \in 1 .. Len(Sections) /\ Sections[sec] \in 0 .. Len(text)
      /\ Len(text) \in Nat /\ DOMAIN text = 1 .. Len(text)
  BY SectionsProperties, LenProperties DEF ChunkerType
<1> DEFINE P == Paragraphs(sec)
<1>2. /\ Len(P) \in Nat /\ DOMAIN P = 1 .. Len(P) /\ Range(P) = Body(Sections[sec])
      /\ \A p \in 1 .. Len(P) : P[p] \in Body(Sections[sec])
  BY ParagraphsProperties DEF ChunkerType
<1>3. par \in Nat \ {0} /\ par <= Len(P) + 1
  BY DEF DistinctInv, ChunkerType
<1>4. Packed = {P[p] : p \in 1 .. par - 1}
  BY DEF Packed
<1> HIDE DEF P
<1>5. \A p \in 1 .. par - 1 : p \in 1 .. Len(P)
  BY <1>2, <1>3
<1>6. Packed \subseteq Body(Sections[sec])
  BY <1>2, <1>4, <1>5
<1>7. \A i \in Body(Sections[sec]) : i \in Nat /\ i > Sections[sec] /\ i \in 1 .. Len(text)
  BY <1>1 DEF Body
<1>8. ASSUME par > Len(P) PROVE Packed = Body(Sections[sec])
  <2>1. \A p \in 1 .. Len(P) : p \in 1 .. par - 1
    BY <1>2, <1>3, <1>8
  <2>2. Range(P) \subseteq Packed
    BY <1>2, <1>4, <2>1 DEF Range
  <2>3. QED BY <1>2, <1>6, <2>2
<1>9. QED BY <1>1, <1>2, <1>6, <1>7, <1>8 DEF P

\* The paragraph that comes next is none of those that have been packed.
LEMMA NextParagraph ==
  ASSUME ChunkerType, DistinctInv, sec <= Len(Sections), par <= Len(Paragraphs(sec))
  PROVE  LET i == Paragraphs(sec)[par]
         IN /\ i \in Body(Sections[sec]) /\ i \in 1 .. Len(text) /\ text[i] \in Nat \ {0}
            /\ i \notin Packed \cup 0 .. Sections[sec]
            /\ Following = Paragraph(i)
<1> DEFINE P == Paragraphs(sec)
           i == P[par]
<1>1. /\ Len(P) \in Nat /\ DOMAIN P = 1 .. Len(P) /\ Ascends(P)
      /\ \A p \in 1 .. Len(P) : P[p] \in Body(Sections[sec]) /\ P[p] \in 1 .. Len(text)
  BY ParagraphsProperties DEF ChunkerType
<1>2. par \in 1 .. Len(P) /\ par \in Nat
  BY <1>1 DEF ChunkerType
<1>3. i \in Body(Sections[sec]) /\ i \in 1 .. Len(text)
  BY <1>1, <1>2
<1>4. text[i] \in Nat \ {0}
  <2>1. text[i] \in Nat
    BY <1>3, ElementOfSeq DEF ChunkerType
  <2>2. i > Sections[sec] /\ Sections[sec] \in Nat /\ i \in Nat
    BY <1>3, PackedProperties
  <2>3. i \in Sections[sec] + 1 .. i
    BY <2>2
  <2>4. text[i] # Heading
    BY <1>3, <2>3 DEF Body
  <2>5. QED BY <2>1, <2>4 DEF Heading
<1>5. i \notin 0 .. Sections[sec]
  BY <1>3, PackedProperties
<1>6. i \notin Packed
  <2>1. SUFFICES ASSUME NEW p \in 1 .. par - 1, i = P[p] PROVE FALSE
    BY DEF Packed
  <2>2. p \in DOMAIN P /\ par \in DOMAIN P /\ p < par
    BY <1>1, <1>2
  <2>3. P[p] < P[par]
    BY <1>1, <2>2 DEF Ascends
  <2>4. P[p] \in Nat
    BY <1>1, <2>2
  <2>5. QED BY <2>1, <2>3, <2>4
<1>7. QED BY <1>3, <1>4, <1>5, <1>6 DEF Following

\* What stands in one section stands before the next.
LEMMA SectionsInOrder ==
  ASSUME ChunkerType, sec + 1 <= Len(Sections), NEW i \in Body(Sections[sec]) \cup 0 .. Sections[sec]
  PROVE  i \in 0 .. Sections[sec + 1]
<1>1. /\ sec \in 1 .. Len(Sections) /\ sec + 1 \in 1 .. Len(Sections)
      /\ Len(text) \in Nat /\ DOMAIN text = 1 .. Len(text)
  BY SectionsProperties, LenProperties DEF ChunkerType
<1> DEFINE h == Sections[sec]
           g == Sections[sec + 1]
<1>2. h \in Nat /\ g \in 0 .. Len(text) /\ h < g /\ g \in Titles
  <2>1. /\ \A s \in 1 .. Len(Sections) : Sections[s] \in 0 .. Len(text)
        /\ DOMAIN Sections = 1 .. Len(Sections) /\ Ascends(Sections)
        /\ Range(Sections) = {t \in Titles : Body(t) # {}}
    BY SectionsProperties DEF ChunkerType
  <2>2. sec < sec + 1
    BY <1>1
  <2>3. QED BY <1>1, <2>1, <2>2 DEF Ascends, Range
<1>3. text[g] = Heading
  BY <1>1, <1>2 DEF Titles
<1>4. CASE i \in Body(h)
  <2>1. i \in 1 .. Len(text) /\ \A j \in h + 1 .. i : text[j] # Heading
    BY <1>1, <1>4 DEF Body
  <2> HIDE DEF h, g
  <2>2. g \notin h + 1 .. i
    BY <1>3, <2>1
  <2>3. QED BY <1>2, <2>1, <2>2 DEF g
<1>5. CASE i \in 0 .. h
  <2> HIDE DEF h, g
  <2>1. i \in 0 .. g
    BY <1>2, <1>5
  <2>2. QED BY <2>1 DEF g
<1>6. QED BY <1>4, <1>5

LEMMA CarriedContent ==
  ASSUME ChunkerType, Distinct(buf)
  PROVE  /\ Carried \in Seq(Chars) /\ Content(Carried) \subseteq Content(buf) /\ Distinct(Carried)
         /\ Full => Len(Carried) <= Overlap + 2
<1>1. Len(buf) \in Nat /\ buf \in Seq(Chars) /\ Overlap \in Nat
  BY LenProperties, OverlapAssumption DEF ChunkerType
<1> DEFINE a == Max({1, Len(buf) - Overlap + 1})
           cut == SubSeq(buf, a, Len(buf))
<1>2. a \in Nat \ {0} /\ Len(buf) \in 0 .. Len(buf) /\ a >= Len(buf) - Overlap + 1
  BY <1>1, TheTwo
<1>3. Ending(buf, Overlap) = cut
  BY DEF Ending
<1> HIDE DEF a
<1>4. /\ cut \in Seq(Chars) /\ Content(cut) \subseteq Content(buf) /\ Distinct(cut)
      /\ Len(cut) = IF a <= Len(buf) THEN Len(buf) - a + 1 ELSE 0
  BY <1>1, <1>2, CutContent, CutsOfTexts
<1>5. Len(cut) <= Overlap /\ Len(cut) \in Nat
  BY <1>1, <1>2, <1>4
<1> HIDE DEF cut
<1> DEFINE left == LeftStripped(cut)
<1>6. left \in Seq(Chars) /\ Content(left) = Content(cut) /\ Distinct(left) /\ Len(left) <= Len(cut) /\ Len(left) \in Nat
  BY <1>4, StrippedIsText, StrippedContent, LenProperties
<1> HIDE DEF left
<1>7. /\ left \o Gap \in Seq(Chars) /\ Content(left \o Gap) = Content(left)
      /\ Distinct(left \o Gap) /\ Len(left \o Gap) = Len(left) + 2
  <2>1. left \o Gap \in Seq(Chars) /\ Len(left \o Gap) = Len(left) + Len(Gap)
    BY <1>6, GapContent, ConcatProperties
  <2>2. Content(left) \cap Content(Gap) = {} /\ Content(left) \cup Content(Gap) = Content(left)
    BY GapContent
  <2>3. Content(left \o Gap) = Content(left) /\ Distinct(left \o Gap)
    BY <1>6, <2>2, GapContent, JoinedContent
  <2>4. QED BY <2>1, <2>3, GapContent
<1>8. Carried = (IF ~Full THEN buf ELSE IF Overlap = 0 THEN <<>> ELSE left \o Gap)
  BY <1>3 DEF Carried, left
<1>9. CASE ~Full
  BY <1>1, <1>8, <1>9
<1>10. CASE Full /\ Overlap = 0
  BY <1>1, <1>8, <1>10, EmptyContent
<1>11. CASE Full /\ Overlap # 0
  <2>1. Len(left) + 2 <= Overlap + 2
    BY <1>1, <1>5, <1>6
  <2>2. QED BY <1>4, <1>6, <1>7, <1>8, <1>11, <2>1
<1>12. QED BY <1>9, <1>10, <1>11

\* What Pack puts in front of the paragraph that comes next.
Ahead == IF Carried = <<>> THEN <<>> ELSE Carried \o Gap

LEMMA AheadContent ==
  ASSUME ChunkerType, Distinct(buf)
  PROVE  /\ Ahead \in Seq(Chars) /\ Content(Ahead) \subseteq Content(buf) /\ Distinct(Ahead)
         /\ Full => Len(Ahead) <= Overlap + 4
<1>1. /\ Carried \in Seq(Chars) /\ Content(Carried) \subseteq Content(buf) /\ Distinct(Carried)
      /\ Full => Len(Carried) <= Overlap + 2
  BY CarriedContent
<1>2. Overlap \in Nat /\ Len(Carried) \in Nat
  BY <1>1, OverlapAssumption, LenProperties
<1>3. /\ Carried \o Gap \in Seq(Chars) /\ Len(Carried \o Gap) = Len(Carried) + 2
      /\ Content(Carried \o Gap) = Content(Carried) /\ Distinct(Carried \o Gap)
  <2>1. Carried \o Gap \in Seq(Chars) /\ Len(Carried \o Gap) = Len(Carried) + Len(Gap)
    BY <1>1, GapContent, ConcatProperties
  <2>2. Content(Carried) \cap Content(Gap) = {} /\ Content(Carried) \cup Content(Gap) = Content(Carried)
    BY GapContent
  <2>3. Content(Carried \o Gap) = Content(Carried) /\ Distinct(Carried \o Gap)
    BY <1>1, <2>2, GapContent, JoinedContent
  <2>4. QED BY <2>1, <2>3, GapContent
<1>4. CASE Carried = <<>>
  BY <1>2, <1>4, EmptyContent DEF Ahead
<1>5. CASE Carried # <<>>
  BY <1>1, <1>2, <1>3, <1>5 DEF Ahead
<1>6. QED BY <1>4, <1>5

\* A chunk that is made joins those there are.
LEMMA MadeProperties ==
  ASSUME ChunkerType, NEW part \in Seq(Chars), sec <= Len(Sections), chunks' = Made(part)
  PROVE  /\ Len(chunks) \in Nat /\ DOMAIN chunks = 1 .. Len(chunks)
         /\ DOMAIN chunks' = 1 .. Len(chunks) + 1
         /\ \A n \in DOMAIN chunks : chunks'[n] = chunks[n]
         /\ chunks'[Len(chunks) + 1] =
              [id |-> Len(chunks), section |-> Sections[sec], text |-> Stripped(part)]
<1>1. Len(chunks) \in Nat /\ DOMAIN chunks = 1 .. Len(chunks)
  BY LenProperties DEF ChunkerType
<1>2. /\ Made(part) \in Seq(Chunks) /\ Len(Made(part)) = Len(chunks) + 1
      /\ Made(part)[Len(chunks) + 1] =
           [id |-> Len(chunks), section |-> Sections[sec], text |-> Stripped(part)]
      /\ \A n \in 1 .. Len(chunks) : Made(part)[n] = chunks[n]
  BY MadeIsChunks
<1>3. DOMAIN Made(part) = 1 .. Len(chunks) + 1
  BY <1>2, LenProperties
<1>4. QED BY <1>1, <1>2, <1>3

\* What DistinctInv says of the chunks, when the chunker is at a section and has packed
\* some paragraphs of it.
SoundChunks(list, at, packed) ==
  \A n \in DOMAIN list :
    /\ Distinct(list[n].text)
    /\ list[n].id = n - 1
    /\ \A c \in Content(list[n].text) :
         /\ c[1] \in Body(list[n].section)
         /\ at <= Len(Sections) => c[1] \in packed \cup 0 .. Sections[at]

LEMMA MadeIsDistinct ==
  ASSUME ChunkerType, DistinctInv, sec <= Len(Sections), NEW part \in Seq(Chars),
         Content(part) \subseteq Content(buf), Distinct(part), chunks' = Made(part)
  PROVE  SoundChunks(chunks', sec, Packed)
<1>1. /\ Len(chunks) \in Nat /\ DOMAIN chunks = 1 .. Len(chunks)
      /\ DOMAIN chunks' = 1 .. Len(chunks) + 1
      /\ \A n \in DOMAIN chunks : chunks'[n] = chunks[n]
      /\ chunks'[Len(chunks) + 1] =
              [id |-> Len(chunks), section |-> Sections[sec], text |-> Stripped(part)]
  BY MadeProperties
<1> DEFINE k == Len(chunks) + 1
           c == chunks'[k]
<1>2. c.id = k - 1 /\ c.section = Sections[sec] /\ c.text = Stripped(part)
  BY <1>1
<1>3. Distinct(c.text) /\ Content(c.text) \subseteq Content(buf)
  BY <1>2, StrippedContent
<1>4. \A x \in Content(c.text) : x[1] \in Packed /\ x[1] \in Body(c.section)
  BY <1>2, <1>3, PackedProperties DEF DistinctInv
<1> HIDE DEF c
<1>5. \A n \in DOMAIN chunks' : n \in DOMAIN chunks \/ n = k
  BY <1>1
<1> HIDE DEF k
<1>6. QED BY <1>1, <1>2, <1>3, <1>4, <1>5 DEF SoundChunks, DistinctInv, c

LEMMA DistinctInvInitially ==
  ASSUME ChunkerInit PROVE DistinctInv
<1>1. ChunkerType
  BY ChunkerTypeInitially
<1>2. sec = 1 /\ par = 1 /\ buf = <<>> /\ chunks = <<>>
  BY DEF ChunkerInit
<1>3. Len(Paragraphs(sec)) \in Nat
  BY <1>1, ParagraphsProperties DEF ChunkerType
<1>4. QED BY <1>2, <1>3, EmptyContent DEF DistinctInv

LEMMA DistinctInvInductive ==
  ASSUME ChunkerType, DistinctInv, ChunkerNext PROVE DistinctInv'
<1>1. text' = text
  BY DEF ChunkerNext, Pack, Cut, EndSection
<1>2. Sections' = Sections /\ \A h : Body(h)' = Body(h)
  BY <1>1 DEF Sections, InOrder, Titles, Body
<1>3. sec' = sec => \A s : Paragraphs(s)' = Paragraphs(s)
  BY <1>2 DEF Paragraphs, InOrder
<1>4. sec \in Nat \ {0} /\ par \in Nat \ {0} /\ Len(Sections) \in Nat /\ buf \in Seq(Chars)
  BY SectionsProperties DEF ChunkerType
<1>5. ASSUME SoundChunks(chunks', sec', Packed')
      PROVE  \A n \in DOMAIN chunks' :
               /\ Distinct(chunks'[n].text)
               /\ chunks'[n].id = n - 1
               /\ \A c \in Content(chunks'[n].text) :
                    /\ c[1] \in Body(chunks'[n].section)
                    /\ sec' <= Len(Sections') => c[1] \in Packed' \cup 0 .. Sections'[sec']
  BY <1>2, <1>5 DEF SoundChunks
<1>6. SoundChunks(chunks, sec, Packed)
  BY DEF DistinctInv, SoundChunks
<1>7. SUFFICES /\ sec' <= Len(Sections) => par' <= Len(Paragraphs(sec)') + 1
               /\ sec' > Len(Sections) => buf' = <<>>
               /\ Distinct(buf)' /\ \A c \in Content(buf)' : c[1] \in Packed'
               /\ SoundChunks(chunks', sec', Packed')
  BY <1>1, <1>2 DEF DistinctInv, SoundChunks, Body
<1>8. CASE Pack
  <2> DEFINE i == Paragraphs(sec)[par]
  <2>1. /\ sec <= Len(Sections) /\ par <= Len(Paragraphs(sec)) /\ sec' = sec /\ par' = par + 1
        /\ buf' = Ahead \o Following /\ chunks' = IF Full THEN Made(buf) ELSE chunks
    BY <1>8 DEF Pack, Ahead
  <2>2. /\ i \in Body(Sections[sec]) /\ text[i] \in Nat /\ i \in Nat
        /\ i \notin Packed \cup 0 .. Sections[sec] /\ Following = Paragraph(i)
    BY <2>1, NextParagraph
  <2>3. Len(Paragraphs(sec)) \in Nat /\ Paragraphs(sec)' = Paragraphs(sec)
    BY <1>3, <2>1, ParagraphsProperties DEF ChunkerType
  <2>4. Packed' = Packed \cup {i}
    <3>1. par' - 1 = par /\ \A p \in 1 .. par : p = par \/ p \in 1 .. par - 1
      BY <1>4, <2>1
    <3>2. par \in 1 .. par /\ \A p \in 1 .. par - 1 : p \in 1 .. par
      BY <1>4
    <3>3. Packed' = {Paragraphs(sec)[p] : p \in 1 .. par}
      BY <2>3, <3>1 DEF Packed
    <3>4. QED BY <3>1, <3>2, <3>3 DEF Packed
  <2> HIDE DEF i
  <2>5. /\ Ahead \in Seq(Chars) /\ Content(Ahead) \subseteq Content(buf) /\ Distinct(Ahead)
    BY AheadContent DEF DistinctInv
  <2>6. /\ Following \in Seq(Chars) /\ Content(Following) \subseteq {i} \X Nat /\ Distinct(Following)
    BY <2>2, ParagraphContent
  <2>7. Content(Ahead) \cap Content(Following) = {}
    BY <2>2, <2>5, <2>6 DEF DistinctInv
  <2>8. Distinct(buf') /\ Content(buf') = Content(Ahead) \cup Content(Following)
    BY <2>1, <2>5, <2>6, <2>7, JoinedContent
  <2>9. \A c \in Content(buf') : c[1] \in Packed'
    BY <2>4, <2>5, <2>6, <2>8 DEF DistinctInv
  <2>10. SoundChunks(chunks', sec, Packed)
    BY <1>4, <1>6, <2>1, MadeIsDistinct DEF DistinctInv
  <2>11. SoundChunks(chunks', sec', Packed')
    BY <2>1, <2>4, <2>10 DEF SoundChunks
  <2>12. Distinct(buf)' /\ Content(buf)' = Content(buf')
    BY <2>8 DEF Distinct, Content, Written
  <2>13. par' <= Len(Paragraphs(sec)) + 1 /\ ~(sec' > Len(Sections))
    BY <1>4, <2>1, <2>3
  <2>14. QED BY <2>3, <2>9, <2>11, <2>12, <2>13
<1>9. CASE Cut
  <2>1. cutting /\ UNCHANGED <<sec, par>> /\ sec <= Len(Sections)
    BY <1>9 DEF Cut, ChunkerType
  <2>2. Packed' = Packed /\ Paragraphs(sec)' = Paragraphs(sec)
    BY <1>3, <2>1 DEF Packed
  <2>3. Content(buf') \subseteq Content(buf) /\ Distinct(buf') /\ SoundChunks(chunks', sec, Packed)
    <3>1. CASE ~TooLong
      BY <1>6, <1>9, <3>1 DEF Cut, DistinctInv
    <3>2. CASE TooLong
      <4>1. /\ Len(buf) \in Nat /\ MaxChars \in 0 .. Len(buf) /\ Len(buf) \in 0 .. Len(buf)
            /\ MaxChars - Overlap + 1 \in Nat \ {0} /\ 1 \in Nat \ {0}
        BY <1>4, <3>2, LenProperties, OverlapAssumption DEF TooLong
      <4>2. /\ Content(Rest) \subseteq Content(buf) /\ Distinct(Rest)
        BY <1>4, <4>1, CutContent DEF Rest, DistinctInv
      <4>3. /\ SubSeq(buf, 1, MaxChars) \in Seq(Chars)
            /\ Content(SubSeq(buf, 1, MaxChars)) \subseteq Content(buf)
            /\ Distinct(SubSeq(buf, 1, MaxChars))
        BY <1>4, <4>1, CutContent, CutsOfTexts DEF DistinctInv
      <4>4. chunks' = Made(SubSeq(buf, 1, MaxChars)) /\ buf' = Rest
        BY <1>9, <3>2 DEF Cut
      <4>5. SoundChunks(chunks', sec, Packed)
        BY <2>1, <4>3, <4>4, MadeIsDistinct
      <4>6. QED BY <4>2, <4>4, <4>5
    <3>3. QED BY <3>1, <3>2
  <2>4. Distinct(buf)' /\ Content(buf)' = Content(buf')
    BY <2>3 DEF Distinct, Content, Written
  <2>5. par' <= Len(Paragraphs(sec)) + 1 /\ ~(sec' > Len(Sections))
    BY <1>4, <2>1 DEF DistinctInv
  <2>6. \A c \in Content(buf') : c[1] \in Packed'
    BY <2>2, <2>3 DEF DistinctInv
  <2>7. QED BY <2>1, <2>2, <2>3, <2>4, <2>5, <2>6
<1>10. CASE EndSection
  <2>1. /\ sec <= Len(Sections) /\ sec' = sec + 1 /\ par' = 1 /\ buf' = <<>>
        /\ chunks' = IF Stripped(buf) # <<>> THEN Made(buf) ELSE chunks
    BY <1>10 DEF EndSection
  <2>2. SoundChunks(chunks', sec, Packed)
    BY <1>4, <1>6, <2>1, MadeIsDistinct DEF DistinctInv
  <2>3. SoundChunks(chunks', sec', Packed')
    <3>1. CASE ~(sec + 1 <= Len(Sections))
      BY <2>1, <2>2, <3>1 DEF SoundChunks
    <3>2. CASE sec + 1 <= Len(Sections)
      <4>1. \A i \in Packed \cup 0 .. Sections[sec] : i \in 0 .. Sections[sec']
        BY <2>1, <3>2, PackedProperties, SectionsInOrder
      <4>2. QED BY <2>1, <2>2, <4>1 DEF SoundChunks
    <3>3. QED BY <3>1, <3>2
  <2>4. Distinct(buf)' /\ Content(buf)' = {}
    BY <2>1, EmptyContent DEF Distinct, Content, Written
  <2>5. Len(Paragraphs(sec)') \in Nat
    <3>1. text' \in Seq(Nat)
      BY <1>1 DEF ChunkerType
    <3>2. Len(Paragraphs(sec')) \in Nat
      BY ParagraphsProperties DEF ChunkerType
    <3>3. Paragraphs(sec)' = Paragraphs(sec')
      BY <1>1, <1>2 DEF Paragraphs, InOrder, Body
    <3>4. QED BY <3>2, <3>3
  <2>6. par' <= Len(Paragraphs(sec)') + 1
    BY <2>1, <2>5
  <2>7. QED BY <2>1, <2>3, <2>4, <2>6
<1>11. QED BY <1>8, <1>9, <1>10 DEF ChunkerNext
\* The chunks that there are stay.
LEMMA ChunksStay ==
  ASSUME ChunkerType, ChunkerNext
  PROVE  /\ DOMAIN chunks = 1 .. Len(chunks) /\ DOMAIN chunks \subseteq DOMAIN chunks'
         /\ \A n \in DOMAIN chunks : chunks'[n] = chunks[n]
<1>1. chunks \in Seq(Chunks) /\ Len(chunks) \in Nat /\ DOMAIN chunks = 1 .. Len(chunks)
  BY LenProperties DEF ChunkerType
<1>2. CASE UNCHANGED chunks
  BY <1>1, <1>2
<1>3. ASSUME NEW part \in Seq(Chars), chunks' = Made(part), sec <= Len(Sections)
      PROVE  DOMAIN chunks \subseteq DOMAIN chunks' /\ \A n \in DOMAIN chunks : chunks'[n] = chunks[n]
  <2>1. Made(part) \in Seq(Chunks) /\ Len(Made(part)) = Len(chunks) + 1
        /\ \A n \in 1 .. Len(chunks) : Made(part)[n] = chunks[n]
    BY <1>3, MadeIsChunks
  <2>2. DOMAIN chunks' = 1 .. Len(chunks) + 1
    BY <1>3, <2>1, LenProperties
  <2>3. QED BY <1>1, <1>3, <2>1, <2>2
<1>4. UNCHANGED chunks \/ \E part \in Seq(Chars) : chunks' = Made(part) /\ sec <= Len(Sections)
  <2>1. buf \in Seq(Chars)
    BY DEF ChunkerType
  <2>2. ASSUME TooLong PROVE SubSeq(buf, 1, MaxChars) \in Seq(Chars)
    <3>1. Len(buf) \in Nat /\ MaxChars \in Nat
      BY <2>1, LenProperties, OverlapAssumption
    <3>2. MaxChars \in 0 .. Len(buf)
      BY <2>2, <3>1 DEF TooLong
    <3>3. QED BY <2>1, <3>2, CutsOfTexts
  <2>3. CASE Pack
    BY <2>1, <2>3 DEF Pack
  <2>4. CASE Cut
    BY <2>2, <2>4 DEF Cut, ChunkerType
  <2>5. CASE EndSection
    BY <2>1, <2>5 DEF EndSection
  <2>6. QED BY <2>3, <2>4, <2>5 DEF ChunkerNext
<1>5. QED BY <1>1, <1>2, <1>3, <1>4

\* Once the document is chunked, it stays so.
LEMMA ChunkedIsOver ==
  ASSUME ChunkerType, Chunked PROVE ~ChunkerNext
<1>1. sec \in Nat /\ Len(Sections) \in Nat
  BY SectionsProperties DEF ChunkerType
<1>2. ~(sec <= Len(Sections))
  BY <1>1 DEF Chunked
<1>3. ~cutting
  BY <1>2 DEF ChunkerType
<1>4. QED BY <1>2, <1>3 DEF ChunkerNext, Pack, Cut, EndSection

-----------------------------------------------------------------------------
(* Every chunk brings something new.                                        *)

\* A character that is in none of some chunks.
Fresh(list, c) == \A n \in DOMAIN list : c \notin Range(list[n].text)

\* The end of the buffer is in no chunk, and where the buffer is to be cut, all of it but
\* what a chunk before it left over.
SoundInv ==
  /\ ~cutting => ~TooLong
  /\ buf # <<>> => Len(buf) \in Written(buf) /\ Fresh(chunks, buf[Len(buf)])
  /\ TooLong => \E p \in 0 .. Overlap + 4 : \A j \in p + 1 .. Len(buf) :
       j \in Written(buf) /\ Fresh(chunks, buf[j])
  /\ \A n \in DOMAIN chunks :
       /\ 2 * Len(chunks[n].text) <= 3 * MaxChars
       /\ \E c \in Content(chunks[n].text) : \A m \in 1 .. n - 1 : c \notin Range(chunks[m].text)

\* What is written is what is no break.
LEMMA ContentIsWritten ==
  ASSUME NEW part \in Seq(Chars)
  PROVE  /\ \A c : c \in Range(part) <=> c \in Content(part) \/ (c = Break /\ c \in Range(part))
         /\ \A j \in Written(part) : part[j] \in Content(part) /\ part[j] # Break
         /\ Break \notin Content(part)
BY DEF Content, Written, Range

LEMMA FreshStays ==
  ASSUME ChunkerType, NEW part \in Seq(Chars), sec <= Len(Sections), chunks' = Made(part),
         NEW c, Fresh(chunks, c), c # Break, c \notin Content(part)
  PROVE  Fresh(chunks', c)
<1>1. /\ DOMAIN chunks' = 1 .. Len(chunks) + 1 /\ Len(chunks) \in Nat /\ DOMAIN chunks = 1 .. Len(chunks)
      /\ \A n \in DOMAIN chunks : chunks'[n] = chunks[n]
      /\ chunks'[Len(chunks) + 1].text = Stripped(part)
  <2>1. chunks'[Len(chunks) + 1] =
          [id |-> Len(chunks), section |-> Sections[sec], text |-> Stripped(part)]
    BY MadeProperties
  <2>2. chunks'[Len(chunks) + 1].text = Stripped(part)
    BY <2>1
  <2>3. QED BY <2>2, MadeProperties
<1>2. c \notin Range(Stripped(part))
  BY StrippedIsText, StrippedContent, ContentIsWritten
<1>3. QED BY <1>1, <1>2 DEF Fresh

\* A chunk with a fresh character brings something new.
LEMMA MadeIsNew ==
  ASSUME ChunkerType, SoundInv, NEW part \in Seq(Chars), sec <= Len(Sections), chunks' = Made(part),
         2 * Len(part) <= 3 * MaxChars, NEW c \in Content(part), Fresh(chunks, c)
  PROVE  \A n \in DOMAIN chunks' :
       /\ 2 * Len(chunks'[n].text) <= 3 * MaxChars
       /\ \E x \in Content(chunks'[n].text) : \A m \in 1 .. n - 1 : x \notin Range(chunks'[m].text)
<1> DEFINE k == Len(chunks) + 1
<1>1. /\ DOMAIN chunks' = 1 .. k /\ Len(chunks) \in Nat /\ DOMAIN chunks = 1 .. Len(chunks)
      /\ \A n \in DOMAIN chunks : chunks'[n] = chunks[n]
      /\ chunks'[k].text = Stripped(part)
  <2>1. chunks'[k] = [id |-> Len(chunks), section |-> Sections[sec], text |-> Stripped(part)]
    BY MadeProperties
  <2>2. chunks'[k].text = Stripped(part)
    BY <2>1
  <2>3. QED BY <2>2, MadeProperties
<1>2. \A n \in 1 .. k : n \in DOMAIN chunks \/ n = k
  BY <1>1
<1>3. \A n \in 1 .. k : \A m \in 1 .. n - 1 : m \in DOMAIN chunks
  BY <1>1
<1> HIDE DEF k
<1>4. ASSUME NEW n \in DOMAIN chunks
      PROVE  /\ 2 * Len(chunks'[n].text) <= 3 * MaxChars
             /\ \E x \in Content(chunks'[n].text) : \A m \in 1 .. n - 1 : x \notin Range(chunks'[m].text)
  <2>1. \A m \in 1 .. n - 1 : chunks'[m] = chunks[m]
    BY <1>1
  <2>2. QED BY <1>1, <2>1 DEF SoundInv
<1>5. /\ 2 * Len(chunks'[k].text) <= 3 * MaxChars
      /\ \E x \in Content(chunks'[k].text) : \A m \in 1 .. k - 1 : x \notin Range(chunks'[m].text)
  <2>1. Len(Stripped(part)) <= Len(part) /\ Len(Stripped(part)) \in Nat /\ Len(part) \in Nat
    BY StrippedIsText, StrippedContent, LenProperties
  <2>2. 2 * Len(Stripped(part)) <= 3 * MaxChars
    BY <2>1, OverlapAssumption
  <2>3. c \in Content(chunks'[k].text)
    BY <1>1, StrippedContent
  <2>4. \A m \in 1 .. k - 1 : m \in DOMAIN chunks /\ chunks'[m] = chunks[m]
    BY <1>1 DEF k
  <2>5. QED BY <1>1, <2>2, <2>3, <2>4 DEF Fresh
<1>6. QED BY <1>1, <1>2, <1>4, <1>5

LEMMA SoundInvInitially ==
  ASSUME ChunkerInit PROVE SoundInv
<1>1. buf = <<>> /\ chunks = <<>> /\ Len(buf) = 0
  BY EmptyContent DEF ChunkerInit
<1>2. ~TooLong
  BY <1>1, OverlapAssumption DEF TooLong
<1>3. QED BY <1>1, <1>2 DEF SoundInv

LEMMA SoundInvInductive ==
  ASSUME Overlap + 4 < MaxChars, ChunkerType, ChunkerType', DistinctInv, SoundInv, ChunkerNext
  PROVE  SoundInv'
<1>1. /\ sec \in Nat \ {0} /\ par \in Nat \ {0} /\ Len(Sections) \in Nat /\ buf \in Seq(Chars)
      /\ Len(buf) \in Nat /\ DOMAIN buf = 1 .. Len(buf) /\ MaxChars \in Nat /\ Overlap \in Nat
  BY SectionsProperties, LenProperties, OverlapAssumption DEF ChunkerType
<1>2. CASE Pack
  <2> DEFINE i == Paragraphs(sec)[par]
  <2>1. /\ sec <= Len(Sections) /\ par <= Len(Paragraphs(sec)) /\ ~cutting /\ cutting'
        /\ buf' = Ahead \o Following /\ chunks' = IF Full THEN Made(buf) ELSE chunks
    BY <1>2 DEF Pack, Ahead
  <2>2. /\ i \in Body(Sections[sec]) /\ text[i] \in Nat \ {0} /\ i \in Nat
        /\ i \notin Packed \cup 0 .. Sections[sec] /\ Following = Paragraph(i)
    BY <2>1, NextParagraph
  <2> HIDE DEF i
  <2>3. /\ Following \in Seq(Chars) /\ Len(Following) = text[i] /\ Written(Following) = 1 .. text[i]
        /\ Content(Following) \subseteq {i} \X Nat
    BY <2>2, ParagraphContent
  <2>4. Ahead \in Seq(Chars) /\ Len(Ahead) \in Nat /\ (Full => Len(Ahead) <= Overlap + 4)
    BY AheadContent, LenProperties DEF DistinctInv
  <2>5. ASSUME NEW c \in Content(Following) PROVE Fresh(chunks', c)
    <3>1. c[1] = i /\ c # Break
      BY <2>3, ContentIsWritten
    <3>2. c \notin Content(buf)
      BY <2>2, <3>1 DEF DistinctInv
    <3>3. Fresh(chunks, c)
      <4>1. SUFFICES ASSUME NEW n \in DOMAIN chunks, c \in Range(chunks[n].text) PROVE FALSE
        BY DEF Fresh
      <4>2. chunks[n].text \in Seq(Chars)
        <5>1. chunks[n] \in Chunks
          BY LenProperties, ElementOfSeq DEF ChunkerType
        <5>2. QED BY <5>1 DEF Chunks
      <4>3. c \in Content(chunks[n].text)
        BY <3>1, <4>1, <4>2, ContentIsWritten
      <4>4. QED BY <2>1, <2>2, <3>1, <4>3 DEF DistinctInv
    <3>4. CASE Full
      <4>1. chunks' = Made(buf)
        BY <2>1, <3>4
      <4>2. QED BY <1>1, <2>1, <3>1, <3>2, <3>3, <4>1, FreshStays
    <3>5. CASE ~Full
      BY <2>1, <3>3, <3>5 DEF Fresh
    <3>6. QED BY <3>4, <3>5
  <2>6. Len(buf') = Len(Ahead) + text[i] /\ DOMAIN buf' = 1 .. Len(buf') /\ buf' \in Seq(Chars)
    BY <2>1, <2>3, <2>4, ConcatProperties, LenProperties
  <2>7. ASSUME NEW j \in Len(Ahead) + 1 .. Len(buf')
        PROVE  j \in Written(buf') /\ buf'[j] \in Content(Following)
    <3>1. j - Len(Ahead) \in 1 .. text[i] /\ j \in 1 .. Len(Ahead) + Len(Following) /\ ~(j <= Len(Ahead))
      BY <2>2, <2>3, <2>4, <2>6
    <3>2. buf'[j] = Following[j - Len(Ahead)]
      BY <2>1, <2>3, <2>4, <3>1, ConcatProperties
    <3>3. Following[j - Len(Ahead)] \in Content(Following) /\ Following[j - Len(Ahead)] # Break
      BY <2>3, <3>1, ContentIsWritten
    <3>4. QED BY <2>3, <2>6, <3>1, <3>2, <3>3 DEF Written
  <2>8. \A j \in Len(Ahead) + 1 .. Len(buf') : j \in Written(buf') /\ Fresh(chunks', buf'[j])
    BY <2>5, <2>7
  <2>9. Len(buf') \in Len(Ahead) + 1 .. Len(buf')
    BY <2>2, <2>4, <2>6
  <2>10. ASSUME 2 * Len(buf') > 3 * MaxChars PROVE Len(Ahead) \in 0 .. Overlap + 4
    <3>1. CASE Full
      BY <1>1, <2>4, <3>1
    <3>2. CASE ~Full
      <4>1. Carried = buf
        BY <3>2 DEF Carried
      <4>2. CASE buf = <<>>
        <5>1. Ahead = <<>>
          BY <4>1, <4>2 DEF Ahead
        <5>2. QED BY <1>1, <5>1, EmptyContent
      <4>3. CASE buf # <<>>
        <5>1. Len(buf) + Len(Following) + 2 <= MaxChars
          BY <1>1, <2>2, <2>3, <3>2, <4>3 DEF Full
        <5>2. Ahead = buf \o Gap
          BY <4>1, <4>3 DEF Ahead
        <5>3. Len(Ahead) = Len(buf) + 2
          <6>1. Len(buf \o Gap) = Len(buf) + Len(Gap)
            BY <1>1, GapContent, ConcatProperties
          <6>2. QED BY <5>2, <6>1, GapContent
        <5>4. Len(buf') <= MaxChars
          BY <1>1, <2>2, <2>3, <2>6, <5>1, <5>3
        <5>5. QED BY <1>1, <2>10, <2>6, <2>2, <2>4, <5>4
      <4>4. QED BY <4>2, <4>3
    <3>3. QED BY <3>1, <3>2
  <2>11. \A n \in DOMAIN chunks' :
           /\ 2 * Len(chunks'[n].text) <= 3 * MaxChars
           /\ \E x \in Content(chunks'[n].text) : \A m \in 1 .. n - 1 : x \notin Range(chunks'[m].text)
    <3>1. CASE ~Full
      BY <2>1, <3>1 DEF SoundInv
    <3>2. CASE Full
      <4>1. buf # <<>> /\ chunks' = Made(buf) /\ 2 * Len(buf) <= 3 * MaxChars
        BY <1>1, <2>1, <3>2 DEF Full, SoundInv, TooLong
      <4>2. buf[Len(buf)] \in Content(buf) /\ Fresh(chunks, buf[Len(buf)])
        BY <4>1 DEF SoundInv, Content
      <4>3. QED BY <1>1, <2>1, <4>1, <4>2, MadeIsNew
    <3>3. QED BY <3>1, <3>2
  <2>12. TooLong' => \E p \in 0 .. Overlap + 4 : \A j \in p + 1 .. Len(buf') :
            j \in Written(buf') /\ Fresh(chunks', buf'[j])
    BY <2>8, <2>10 DEF TooLong
  <2>13. Len(buf') \in Written(buf') /\ Fresh(chunks', buf'[Len(buf')])
    BY <2>8, <2>9
  <2>14. QED BY <2>1, <2>11, <2>12, <2>13 DEF SoundInv, Fresh, Content, Written
<1>3. CASE Cut
  <2>1. cutting /\ cutting' = TooLong /\ sec <= Len(Sections)
    BY <1>3 DEF Cut, ChunkerType
  <2>2. CASE ~TooLong
    <3>1. chunks' = chunks /\ buf' = buf
      BY <1>3, <2>2 DEF Cut
    <3>2. QED BY <2>2, <3>1 DEF SoundInv, TooLong, Fresh, Content, Written
  <2>3. CASE TooLong
    <3> DEFINE part == SubSeq(buf, 1, MaxChars)
    <3>1. chunks' = Made(part) /\ buf' = Rest
      BY <1>3, <2>3 DEF Cut
    <3>2. /\ MaxChars < Len(buf) /\ MaxChars \in 0 .. Len(buf) /\ Len(buf) \in 0 .. Len(buf)
          /\ MaxChars - Overlap + 1 \in Nat \ {0} /\ 1 \in Nat \ {0} /\ 1 <= MaxChars
      BY <1>1, <2>3 DEF TooLong
    <3>3. /\ part \in Seq(Chars) /\ Len(part) = MaxChars
          /\ \A j \in 1 .. MaxChars : part[j] = buf[1 + j - 1]
          /\ \A j \in Written(buf) : 1 <= j /\ j <= MaxChars => buf[j] \in Content(part)
      BY <1>1, <3>2, CutsOfTexts, CutContent
    <3>4. /\ Rest \in Seq(Chars)
          /\ Len(Rest) = Len(buf) - (MaxChars - Overlap + 1) + 1
          /\ \A q \in 1 .. Len(Rest) : Rest[q] = buf[MaxChars - Overlap + 1 + q - 1]
      <4> DEFINE a == MaxChars - Overlap + 1
      <4>1. a <= Len(buf) /\ a \in Nat \ {0}
        BY <1>1, <3>2
      <4> HIDE DEF a
      <4>2. /\ SubSeq(buf, a, Len(buf)) \in Seq(Chars)
            /\ Len(SubSeq(buf, a, Len(buf))) = Len(buf) - a + 1
            /\ \A q \in 1 .. Len(SubSeq(buf, a, Len(buf))) : SubSeq(buf, a, Len(buf))[q] = buf[a + q - 1]
        BY <1>1, <3>2, <4>1, CutsOfTexts
      <4>3. QED BY <4>2 DEF Rest, a
    <3> HIDE DEF part
    <3>5. \A c \in Content(part) : \E j \in 1 .. MaxChars : j \in Written(buf) /\ c = buf[j]
      <4>1. SUFFICES ASSUME NEW j \in Written(part)
                     PROVE  \E i \in 1 .. MaxChars : i \in Written(buf) /\ part[j] = buf[i]
        BY DEF Content
      <4>2. j \in 1 .. MaxChars /\ part[j] # Break
        BY <3>3, LenProperties DEF Written
      <4>3. part[j] = buf[j]
        BY <1>1, <3>3, <4>2
      <4>4. j \in Written(buf)
        BY <1>1, <3>2, <4>2, <4>3 DEF Written
      <4>5. QED BY <4>2, <4>3, <4>4
    <3>6. PICK p \in 0 .. Overlap + 4 :
            \A j \in p + 1 .. Len(buf) : j \in Written(buf) /\ Fresh(chunks, buf[j])
      BY <2>3 DEF SoundInv
    <3>7. p \in Nat /\ p < MaxChars
      BY <1>1, <3>6
    <3>8. buf[p + 1] \in Content(part) /\ Fresh(chunks, buf[p + 1])
      <4>1. p + 1 \in p + 1 .. Len(buf) /\ 1 <= p + 1 /\ p + 1 <= MaxChars
        BY <1>1, <3>2, <3>7
      <4>2. QED BY <3>3, <3>6, <4>1
    <3>9. 2 * Len(part) <= 3 * MaxChars
      BY <1>1, <3>3
    <3>10. \A n \in DOMAIN chunks' :
             /\ 2 * Len(chunks'[n].text) <= 3 * MaxChars
             /\ \E x \in Content(chunks'[n].text) : \A m \in 1 .. n - 1 : x \notin Range(chunks'[m].text)
      BY <2>1, <3>1, <3>3, <3>8, <3>9, MadeIsNew
    <3>11. DOMAIN Rest = 1 .. Len(Rest)
      BY <3>4, LenProperties
    <3>12. ASSUME NEW q \in Overlap + 1 .. Len(Rest)
           PROVE  q \in Written(Rest) /\ Fresh(chunks', Rest[q])
      <4> DEFINE j == MaxChars - Overlap + q
      <4>1. q \in 1 .. Len(Rest) /\ MaxChars - Overlap + 1 + q - 1 = j
        BY <1>1, <3>4
      <4>2. Rest[q] = buf[j]
        BY <3>4, <4>1
      <4>3. j \in MaxChars + 1 .. Len(buf) /\ j \in p + 1 .. Len(buf)
        BY <1>1, <3>4, <3>7
      <4> HIDE DEF j
      <4>4. j \in Written(buf) /\ Fresh(chunks, buf[j]) /\ buf[j] # Break
        BY <1>1, <3>6, <4>3, ContentIsWritten
      <4>5. buf[j] \notin Content(part)
        <5>1. SUFFICES ASSUME NEW i \in 1 .. MaxChars, i \in Written(buf), buf[j] = buf[i] PROVE FALSE
          BY <3>5
        <5>2. i = j
          BY <4>4, <5>1 DEF DistinctInv, Distinct
        <5>3. QED BY <1>1, <4>3, <5>2
      <4>6. Fresh(chunks', buf[j])
        BY <2>1, <3>1, <3>3, <4>4, <4>5, FreshStays
      <4>7. q \in Written(Rest)
        BY <3>11, <4>1, <4>2, <4>4 DEF Written
      <4>8. QED BY <4>2, <4>6, <4>7
    <3>13. Len(Rest) \in Overlap + 1 .. Len(Rest) /\ Overlap \in 0 .. Overlap + 4
      BY <1>1, <3>2, <3>4
    <3>14. Len(buf') \in Written(buf') /\ Fresh(chunks', buf'[Len(buf')])
      BY <3>1, <3>12, <3>13
    <3>15. \E r \in 0 .. Overlap + 4 : \A j \in r + 1 .. Len(buf') :
             j \in Written(buf') /\ Fresh(chunks', buf'[j])
      BY <3>1, <3>12, <3>13
    <3>16. cutting'
      BY <2>1, <2>3
    <3>17. QED BY <3>10, <3>14, <3>15, <3>16 DEF SoundInv, Fresh, Content, Written
  <2>4. QED BY <2>2, <2>3
<1>4. CASE EndSection
  <2>1. /\ sec <= Len(Sections) /\ ~cutting /\ buf' = <<>>
        /\ chunks' = IF Stripped(buf) # <<>> THEN Made(buf) ELSE chunks
    BY <1>4 DEF EndSection
  <2>2. 2 * Len(buf) <= 3 * MaxChars
    BY <1>1, <2>1 DEF SoundInv, TooLong
  <2>3. \A n \in DOMAIN chunks' :
          /\ 2 * Len(chunks'[n].text) <= 3 * MaxChars
          /\ \E x \in Content(chunks'[n].text) : \A m \in 1 .. n - 1 : x \notin Range(chunks'[m].text)
    <3>1. CASE Stripped(buf) = <<>>
      BY <2>1, <3>1 DEF SoundInv
    <3>2. CASE Stripped(buf) # <<>>
      <4>1. buf # <<>>
        <5>1. Written(<<>>) = {}
          BY DEF Written
        <5>2. QED BY <3>2, <5>1 DEF Stripped
      <4>2. buf[Len(buf)] \in Content(buf) /\ Fresh(chunks, buf[Len(buf)])
        BY <4>1 DEF SoundInv, Content
      <4>3. QED BY <1>1, <2>1, <2>2, <3>2, <4>2, MadeIsNew
    <3>3. QED BY <3>1, <3>2
  <2>4. ~(2 * Len(buf') > 3 * MaxChars)
    BY <1>1, <2>1, EmptyContent
  <2>5. QED BY <2>1, <2>3, <2>4 DEF SoundInv, Fresh, Content, Written, TooLong
<1>5. QED BY <1>2, <1>3, <1>4 DEF ChunkerNext

\* What SoundInv and DistinctInv say of the chunks is that they are sound.
LEMMA InvariantsAreSound ==
  ASSUME ChunkerType, DistinctInv, SoundInv PROVE ChunksAreSound
<1>1. ASSUME NEW n \in DOMAIN chunks
      PROVE  LET part == chunks[n].text
             IN /\ 2 * Len(part) <= 3 * MaxChars
                /\ \A j \in Written(part) : part[j][1] \in Body(chunks[n].section)
                /\ \E j \in Written(part) :
                     \A m \in 1 .. n - 1 : part[j] \notin Range(chunks[m].text)
  BY DEF DistinctInv, SoundInv, Content
<1>2. \A n \in DOMAIN chunks : chunks[n].id = n - 1 /\ n \in Int
  BY LenProperties DEF DistinctInv, ChunkerType
<1>3. IsInjective([n \in DOMAIN chunks |-> chunks[n].id])
  BY <1>2 DEF IsInjective
<1>4. QED BY <1>1, <1>3 DEF ChunksAreSound
-----------------------------------------------------------------------------
(* No piece of a paragraph is lost at the end of a chunk.                   *)

\* Part of a text stands in another.
Inside(part, whole) ==
  \E o \in 0 .. Len(whole) - Len(part) : \A q \in 1 .. Len(part) : whole[o + q] = part[q]

\* A text that a strip takes nothing of.
Solid(part) ==
  part \in Seq(Chars) /\ Len(part) \in Nat \ {0} /\ \A q \in 1 .. Len(part) : part[q] # Break

\* As much of a paragraph as two chunks share, and one character more.
Piece(i, k) == SubSeq(Paragraph(i), k, Min({k + Overlap, text[i]}))

InChunks(list, part) == \E n \in DOMAIN list : Inside(part, list[n].text)

CoverInv ==
  /\ \A s \in 1 .. sec - 1 : \A i \in Body(Sections[s]) : \A k \in 1 .. text[i] :
       InChunks(chunks, Piece(i, k))
  /\ sec <= Len(Sections) => \A i \in Packed : \A k \in 1 .. text[i] :
       InChunks(chunks, Piece(i, k)) \/ Inside(Piece(i, k), buf)

LEMMA PieceProperties ==
  ASSUME ChunkerType, NEW i \in DOMAIN text, NEW k \in 1 .. text[i]
  PROVE  /\ Solid(Piece(i, k)) /\ Len(Piece(i, k)) <= Overlap + 1
         /\ Inside(Piece(i, k), Paragraph(i))
<1>1. i \in Nat /\ text[i] \in Nat
  BY LenProperties, ElementOfSeq DEF ChunkerType
<1>2. Overlap \in Nat /\ k \in Nat /\ k <= text[i]
  BY <1>1, OverlapAssumption
<1> DEFINE l == Min({k + Overlap, text[i]})
<1>3. l \in Nat /\ k <= l /\ l <= k + Overlap /\ l <= text[i]
  <2>1. k + Overlap \in Int /\ text[i] \in Int
    BY <1>1, <1>2
  <2>2. l = IF k + Overlap <= text[i] THEN k + Overlap ELSE text[i]
    BY <2>1, TheTwo
  <2>3. QED BY <1>1, <1>2, <2>2
<1>4. /\ Paragraph(i) \in Seq(Chars) /\ Len(Paragraph(i)) = text[i]
      /\ \A j \in 1 .. text[i] : Paragraph(i)[j] = <<i, j>>
  BY <1>1, ParagraphContent
<1> DEFINE w == Piece(i, k)
<1>5. w = SubSeq(Paragraph(i), k, l)
  BY DEF Piece
<1> HIDE DEF l, w
<1>6. w \in Seq(Chars) /\ Len(w) = l - k + 1 /\ \A q \in 1 .. Len(w) : w[q] = Paragraph(i)[k + q - 1]
  BY <1>2, <1>3, <1>4, <1>5, CutsOfTexts
<1>7. \A q \in 1 .. Len(w) : k + q - 1 \in 1 .. text[i]
  BY <1>1, <1>2, <1>3, <1>6
<1>8. Solid(w) /\ Len(w) <= Overlap + 1
  <2>1. Len(w) \in Nat \ {0} /\ Len(w) <= Overlap + 1
    BY <1>2, <1>3, <1>6
  <2>2. \A q \in 1 .. Len(w) : w[q] # Break
    <3>1. SUFFICES ASSUME NEW q \in 1 .. Len(w) PROVE w[q] # Break
      OBVIOUS
    <3>2. PICK j \in 1 .. text[i] : w[q] = Paragraph(i)[j]
      BY <1>6, <1>7
    <3>3. w[q] = <<i, j>>
      BY <1>4, <3>2
    <3>4. QED BY <3>3 DEF Break
  <2>3. QED BY <1>6, <2>1, <2>2 DEF Solid
<1>9. Inside(w, Paragraph(i))
  <2>1. k - 1 \in 0 .. Len(Paragraph(i)) - Len(w)
    BY <1>1, <1>2, <1>3, <1>4, <1>6
  <2>2. \A q \in 1 .. Len(w) : (k - 1) + q = k + q - 1
    BY <1>2
  <2>3. \A q \in 1 .. Len(w) : Paragraph(i)[(k - 1) + q] = w[q]
    BY <1>6, <2>2
  <2>4. QED BY <2>1, <2>3 DEF Inside
<1>10. QED BY <1>8, <1>9 DEF w

LEMMA InsideJoined ==
  ASSUME NEW w, Solid(w), NEW one \in Seq(Chars), NEW other \in Seq(Chars)
  PROVE  Inside(w, one) \/ Inside(w, other) => Inside(w, one \o other)
<1>1. Len(one) \in Nat /\ Len(other) \in Nat /\ Len(w) \in Nat
  BY LenProperties DEF Solid
<1> DEFINE both == one \o other
<1>2. Len(both) = Len(one) + Len(other)
      /\ \A j \in 1 .. Len(one) + Len(other) : both[j] = IF j <= Len(one) THEN one[j] ELSE other[j - Len(one)]
  BY ConcatProperties
<1> HIDE DEF both
<1>3. ASSUME Inside(w, one) PROVE Inside(w, both)
  <2>1. PICK o \in 0 .. Len(one) - Len(w) : \A q \in 1 .. Len(w) : one[o + q] = w[q]
    BY <1>3 DEF Inside
  <2>2. \A q \in 1 .. Len(w) : o + q \in 1 .. Len(one) + Len(other) /\ o + q <= Len(one)
    BY <1>1
  <2>3. o \in 0 .. Len(both) - Len(w)
    BY <1>1, <1>2
  <2>4. QED BY <1>2, <2>1, <2>2, <2>3 DEF Inside
<1>4. ASSUME Inside(w, other) PROVE Inside(w, both)
  <2>1. PICK o \in 0 .. Len(other) - Len(w) : \A q \in 1 .. Len(w) : other[o + q] = w[q]
    BY <1>4 DEF Inside
  <2> DEFINE p == Len(one) + o
  <2>2. \A q \in 1 .. Len(w) : /\ p + q \in 1 .. Len(one) + Len(other)
                               /\ ~(p + q <= Len(one))
                               /\ (p + q) - Len(one) = o + q
    BY <1>1
  <2>3. p \in 0 .. Len(both) - Len(w)
    BY <1>1, <1>2
  <2> HIDE DEF p
  <2>4. \A q \in 1 .. Len(w) : both[p + q] = w[q]
    <3>1. SUFFICES ASSUME NEW q \in 1 .. Len(w) PROVE both[p + q] = w[q]
      OBVIOUS
    <3> DEFINE j == p + q
    <3>2. /\ j \in 1 .. Len(one) + Len(other)
          /\ ~(j <= Len(one))
          /\ j - Len(one) = o + q
      BY <2>2
    <3> HIDE DEF j
    <3>3. both[j] = other[j - Len(one)]
      BY <1>2, <3>2
    <3>4. QED BY <2>1, <3>2, <3>3 DEF j
  <2>5. QED BY <2>3, <2>4 DEF Inside
<1>5. QED BY <1>3, <1>4 DEF both

LEMMA InsideCut ==
  ASSUME NEW w, Solid(w), NEW part \in Seq(Chars), NEW a \in Nat \ {0}, NEW b \in 0 .. Len(part),
         NEW o \in Nat, a <= o + 1, o + Len(w) <= b, \A q \in 1 .. Len(w) : part[o + q] = w[q]
  PROVE  Inside(w, SubSeq(part, a, b))
<1>1. Len(part) \in Nat /\ Len(w) \in Nat \ {0} /\ b \in Nat
  BY LenProperties DEF Solid
<1> DEFINE cut == SubSeq(part, a, b)
<1>2. Len(cut) = b - a + 1 /\ \A j \in 1 .. Len(cut) : cut[j] = part[a + j - 1]
  <2>1. a <= b
    BY <1>1
  <2>2. QED BY <2>1, CutsOfTexts
<1> HIDE DEF cut
<1> DEFINE p == o + 1 - a
<1>3. p \in 0 .. Len(cut) - Len(w)
  BY <1>1, <1>2
<1>4. \A q \in 1 .. Len(w) : p + q \in 1 .. Len(cut) /\ a + (p + q) - 1 = o + q
  BY <1>1, <1>2
<1> HIDE DEF p
<1>5. \A q \in 1 .. Len(w) : cut[p + q] = w[q]
  BY <1>2, <1>4
<1>6. QED BY <1>3, <1>5 DEF Inside, cut

LEMMA InsideStripped ==
  ASSUME NEW w, Solid(w), NEW part \in Seq(Chars), Inside(w, part)
  PROVE  Inside(w, Stripped(part))
<1>1. Len(part) \in Nat /\ DOMAIN part = 1 .. Len(part) /\ Len(w) \in Nat \ {0}
  BY LenProperties DEF Solid
<1>2. PICK o \in 0 .. Len(part) - Len(w) : \A q \in 1 .. Len(w) : part[o + q] = w[q]
  BY DEF Inside
<1>3. o + 1 \in Written(part) /\ o + Len(w) \in Written(part)
  <2>1. 1 \in 1 .. Len(w) /\ Len(w) \in 1 .. Len(w) /\ o + 1 \in 1 .. Len(part) /\ o + Len(w) \in 1 .. Len(part)
    BY <1>1
  <2>2. part[o + 1] # Break /\ part[o + Len(w)] # Break
    BY <1>2, <2>1 DEF Solid
  <2>3. QED BY <1>1, <2>1, <2>2 DEF Written
<1> DEFINE a == Min(Written(part))
           b == Max(Written(part))
<1>4. a \in 1 .. Len(part) /\ b \in 1 .. Len(part) /\ a <= o + 1 /\ o + Len(w) <= b
  BY <1>3, WrittenProperties
<1>5. Stripped(part) = SubSeq(part, a, b)
  BY <1>3 DEF Stripped
<1> HIDE DEF a, b
<1>6. a \in Nat \ {0} /\ b \in 0 .. Len(part) /\ o \in Nat
  BY <1>1, <1>4
<1>7. QED BY <1>2, <1>4, <1>5, <1>6, InsideCut

\* What stands within a chunk, as BoundariesAreCovered and MarksAreBacked say it.
LEMMA InsideIsWithin ==
  ASSUME NEW w, Solid(w), NEW c, c.text \in Seq(Chars), Inside(w, c.text)
  PROVE  Within(w, c)
<1>1. Len(c.text) \in Nat /\ Len(w) \in Nat \ {0} /\ w \in Seq(Chars)
  BY LenProperties DEF Solid
<1>2. PICK o \in 0 .. Len(c.text) - Len(w) : \A q \in 1 .. Len(w) : c.text[o + q] = w[q]
  BY DEF Inside
<1> DEFINE cut == SubSeq(c.text, o + 1, o + Len(w))
<1>3. o + 1 \in Nat \ {0} /\ o + Len(w) \in 0 .. Len(c.text) /\ o + 1 <= o + Len(w)
  BY <1>1
<1>4. /\ cut \in Seq(Chars) /\ Len(cut) = o + Len(w) - (o + 1) + 1
      /\ \A q \in 1 .. Len(cut) : cut[q] = c.text[(o + 1) + q - 1]
  BY <1>3, CutsOfTexts
<1> HIDE DEF cut
<1>5. Len(cut) = Len(w)
  BY <1>1, <1>4
<1>6. \A q \in 1 .. Len(w) : cut[q] = w[q]
  <2>1. \A q \in 1 .. Len(w) : (o + 1) + q - 1 = o + q
    BY <1>1
  <2>2. QED BY <1>2, <1>4, <1>5, <2>1
<1>7. cut = w
  BY <1>1, <1>4, <1>5, <1>6, SeqEqual
<1>8. QED BY <1>7 DEF Within, cut

LEMMA InChunksStays ==
  ASSUME ChunkerType, ChunkerNext, NEW w, InChunks(chunks, w)
  PROVE  InChunks(chunks', w)
BY ChunksStay DEF InChunks

LEMMA MadeHolds ==
  ASSUME ChunkerType, NEW part \in Seq(Chars), sec <= Len(Sections), chunks' = Made(part),
         NEW w, Solid(w), Inside(w, part)
  PROVE  InChunks(chunks', w)
<1> DEFINE k == Len(chunks) + 1
<1>1. k \in DOMAIN chunks'
  <2>1. Len(chunks) \in Nat /\ DOMAIN chunks' = 1 .. Len(chunks) + 1
    BY MadeProperties
  <2>2. k \in 1 .. Len(chunks) + 1
    BY <2>1
  <2>3. QED BY <2>1, <2>2
<1>2. chunks'[k] = [id |-> Len(chunks), section |-> Sections[sec], text |-> Stripped(part)]
  BY MadeProperties
<1>3. chunks'[k].text = Stripped(part)
  BY <1>2
<1>4. QED BY <1>1, <1>3, InsideStripped DEF InChunks

LEMMA CoverInvInitially ==
  ASSUME ChunkerInit PROVE CoverInv
BY DEF ChunkerInit, CoverInv, Packed

LEMMA CoverInvInductive ==
  ASSUME ChunkerType, DistinctInv, CoverInv, ChunkerNext PROVE CoverInv'
<1>1. text' = text
  BY DEF ChunkerNext, Pack, Cut, EndSection
<1>2. /\ Sections' = Sections /\ \A h : Body(h)' = Body(h)
      /\ \A i, k : Piece(i, k)' = Piece(i, k) /\ Paragraph(i)' = Paragraph(i)
  BY <1>1 DEF Sections, InOrder, Titles, Body, Piece, Paragraph
<1>3. sec' = sec => \A s : Paragraphs(s)' = Paragraphs(s)
  BY <1>2 DEF Paragraphs, InOrder
<1>4. /\ sec \in Nat \ {0} /\ par \in Nat \ {0} /\ Len(Sections) \in Nat /\ buf \in Seq(Chars)
      /\ Len(buf) \in Nat /\ DOMAIN buf = 1 .. Len(buf) /\ MaxChars \in Nat /\ Overlap \in Nat
      /\ DOMAIN text = 1 .. Len(text)
  BY SectionsProperties, LenProperties, OverlapAssumption DEF ChunkerType
<1>5. SUFFICES
        /\ \A s \in 1 .. sec' - 1 : \A i \in Body(Sections[s]) : \A k \in 1 .. text[i] :
             InChunks(chunks', Piece(i, k))
        /\ sec' <= Len(Sections) => \A i \in Packed' : \A k \in 1 .. text[i] :
             InChunks(chunks', Piece(i, k)) \/ Inside(Piece(i, k), buf')
  <2>1. \A s : Body(Sections[s])' = Body(Sections[s])
    BY <1>1, <1>2 DEF Body
  <2>2. \A i, k : InChunks(chunks, Piece(i, k))' = InChunks(chunks', Piece(i, k))
    BY <1>1 DEF InChunks, Inside, Piece, Paragraph
  <2>3. \A i, k : Inside(Piece(i, k), buf)' = Inside(Piece(i, k), buf')
    BY <1>1 DEF Inside, Piece, Paragraph
  <2>4. QED BY <1>1, <1>2, <1>5, <2>1, <2>2, <2>3 DEF CoverInv
<1>6. \A s \in 1 .. sec - 1 : \A i \in Body(Sections[s]) : \A k \in 1 .. text[i] :
        InChunks(chunks', Piece(i, k))
  BY InChunksStays DEF CoverInv
<1>7. ASSUME sec <= Len(Sections), NEW i \in Packed, NEW k \in 1 .. text[i]
      PROVE  /\ i \in DOMAIN text /\ Solid(Piece(i, k)) /\ Len(Piece(i, k)) <= Overlap + 1
             /\ InChunks(chunks', Piece(i, k)) \/ Inside(Piece(i, k), buf)
  <2>1. i \in DOMAIN text
    BY <1>4, <1>7, PackedProperties
  <2>2. QED BY <1>7, <2>1, PieceProperties, InChunksStays DEF CoverInv
<1>8. CASE Pack
  <2> DEFINE i == Paragraphs(sec)[par]
  <2>1. /\ sec <= Len(Sections) /\ par <= Len(Paragraphs(sec)) /\ sec' = sec /\ par' = par + 1
        /\ buf' = Ahead \o Following /\ chunks' = IF Full THEN Made(buf) ELSE chunks
    BY <1>8 DEF Pack, Ahead
  <2>2. i \in 1 .. Len(text) /\ text[i] \in Nat /\ Following = Paragraph(i)
    BY <2>1, NextParagraph
  <2>3. Packed' = Packed \cup {i}
    <3>1. par' - 1 = par /\ \A p \in 1 .. par : p = par \/ p \in 1 .. par - 1
      BY <1>4, <2>1
    <3>2. par \in 1 .. par /\ \A p \in 1 .. par - 1 : p \in 1 .. par
      BY <1>4
    <3>3. Paragraphs(sec)' = Paragraphs(sec)
      BY <1>3, <2>1
    <3>4. Packed' = {Paragraphs(sec)[p] : p \in 1 .. par}
      BY <3>1, <3>3 DEF Packed
    <3>5. QED BY <3>1, <3>2, <3>4 DEF Packed
  <2> HIDE DEF i
  <2>4. Ahead \in Seq(Chars) /\ Following \in Seq(Chars) /\ i \in Nat
    BY <1>4, <2>2, AheadContent, ParagraphContent DEF DistinctInv
  <2>5. ASSUME NEW h \in Packed', NEW k \in 1 .. text[h]
        PROVE  InChunks(chunks', Piece(h, k)) \/ Inside(Piece(h, k), buf')
    <3>1. CASE h = i
      <4>1. Solid(Piece(i, k)) /\ Inside(Piece(i, k), Following)
        BY <1>4, <2>2, <2>5, <3>1, PieceProperties
      <4>2. QED BY <2>1, <2>4, <3>1, <4>1, InsideJoined
    <3>2. CASE h \in Packed /\ Full
      <4>1. chunks' = Made(buf)
        BY <2>1, <3>2
      <4>2. QED BY <1>4, <1>7, <2>1, <2>5, <3>2, <4>1, MadeHolds
    <3>3. CASE h \in Packed /\ ~Full
      <4>1. Carried = buf
        BY <3>3 DEF Carried
      <4>2. Solid(Piece(h, k)) /\ (InChunks(chunks', Piece(h, k)) \/ Inside(Piece(h, k), buf))
        BY <1>7, <2>1, <2>5, <3>3
      <4>3. ASSUME Inside(Piece(h, k), buf) PROVE Inside(Piece(h, k), buf')
        <5>1. buf # <<>>
          <6>1. PICK o \in 0 .. Len(buf) - Len(Piece(h, k)) : TRUE
            BY <4>3 DEF Inside
          <6>2. Len(buf) # 0
            BY <1>4, <4>2, <6>1 DEF Solid
          <6>3. QED BY <6>2, EmptyContent
        <5>2. Ahead = buf \o Gap
          BY <4>1, <5>1 DEF Ahead
        <5>3. Inside(Piece(h, k), Ahead)
          BY <1>4, <4>2, <4>3, <5>2, GapContent, InsideJoined
        <5>4. QED BY <2>1, <2>4, <4>2, <5>3, InsideJoined
      <4>4. QED BY <4>2, <4>3
    <3>4. QED BY <2>3, <2>5, <3>1, <3>2, <3>3
  <2>6. QED BY <1>6, <2>1, <2>5
<1>9. CASE Cut
  <2>1. cutting /\ UNCHANGED <<sec, par>> /\ sec <= Len(Sections)
    BY <1>9 DEF Cut, ChunkerType
  <2>2. Packed' = Packed
    BY <1>3, <2>1 DEF Packed
  <2>3. CASE ~TooLong
    <3>1. chunks' = chunks /\ buf' = buf
      BY <1>9, <2>3 DEF Cut
    <3>2. QED BY <1>6, <1>7, <2>1, <2>2, <3>1
  <2>4. CASE TooLong
    <3> DEFINE part == SubSeq(buf, 1, MaxChars)
    <3>1. chunks' = Made(part) /\ buf' = SubSeq(buf, MaxChars - Overlap + 1, Len(buf))
      BY <1>9, <2>4 DEF Cut, Rest
    <3>2. /\ MaxChars < Len(buf) /\ MaxChars \in 0 .. Len(buf) /\ Len(buf) \in 0 .. Len(buf)
          /\ MaxChars - Overlap + 1 \in Nat \ {0} /\ 1 \in Nat \ {0}
      BY <1>4, <2>4, OverlapAssumption DEF TooLong
    <3>3. part \in Seq(Chars)
      BY <1>4, <3>2, CutsOfTexts
    <3>4. ASSUME NEW w, Solid(w), Len(w) <= Overlap + 1, Inside(w, buf)
          PROVE  Inside(w, part) \/ Inside(w, buf')
      <4>1. PICK o \in 0 .. Len(buf) - Len(w) : \A q \in 1 .. Len(w) : buf[o + q] = w[q]
        BY <3>4 DEF Inside
      <4>2. Len(w) \in Nat /\ o \in Nat
        BY <1>4, <3>4, <4>1 DEF Solid
      <4>3. CASE o + Len(w) <= MaxChars
        BY <1>4, <3>2, <3>4, <4>1, <4>2, <4>3, InsideCut
      <4>4. CASE ~(o + Len(w) <= MaxChars)
        <5>1. MaxChars - Overlap + 1 <= o + 1 /\ o + Len(w) <= Len(buf)
          BY <1>4, <3>4, <4>1, <4>2, <4>4
        <5>2. QED BY <1>4, <3>1, <3>2, <3>4, <4>1, <4>2, <5>1, InsideCut
      <4>5. QED BY <4>3, <4>4
    <3> HIDE DEF part
    <3>5. ASSUME NEW h \in Packed, NEW k \in 1 .. text[h]
          PROVE  InChunks(chunks', Piece(h, k)) \/ Inside(Piece(h, k), buf')
      BY <1>7, <2>1, <3>1, <3>3, <3>4, <3>5, MadeHolds
    <3>6. QED BY <1>6, <2>1, <2>2, <3>5
  <2>5. QED BY <2>3, <2>4
<1>10. CASE EndSection
  <2>1. /\ sec <= Len(Sections) /\ sec' = sec + 1 /\ par' = 1 /\ par > Len(Paragraphs(sec))
        /\ chunks' = IF Stripped(buf) # <<>> THEN Made(buf) ELSE chunks
    BY <1>10 DEF EndSection
  <2>2. Packed' = {}
    BY <2>1 DEF Packed
  <2>3. Packed = Body(Sections[sec])
    BY <2>1, PackedProperties
  <2>4. ASSUME NEW h \in Packed, NEW k \in 1 .. text[h] PROVE InChunks(chunks', Piece(h, k))
    <3>1. Solid(Piece(h, k)) /\ (InChunks(chunks', Piece(h, k)) \/ Inside(Piece(h, k), buf))
      BY <1>7, <2>1, <2>4
    <3>2. CASE Inside(Piece(h, k), buf)
      <4>1. Inside(Piece(h, k), Stripped(buf))
        BY <1>4, <3>1, <3>2, InsideStripped
      <4>2. Stripped(buf) # <<>>
        <5>1. PICK o \in 0 .. Len(Stripped(buf)) - Len(Piece(h, k)) : TRUE
          BY <4>1 DEF Inside
        <5>2. Len(Stripped(buf)) \in Nat
          BY <1>4, StrippedIsText, LenProperties
        <5>3. Len(Stripped(buf)) # 0
          BY <3>1, <5>1, <5>2 DEF Solid
        <5>4. QED BY <5>3, EmptyContent
      <4>3. QED BY <1>4, <2>1, <3>1, <3>2, <4>2, MadeHolds
    <3>3. QED BY <3>1, <3>2
  <2>5. \A s \in 1 .. sec' - 1 : s = sec \/ s \in 1 .. sec - 1
    BY <1>4, <2>1
  <2>6. QED BY <1>6, <2>2, <2>3, <2>4, <2>5
<1>11. QED BY <1>8, <1>9, <1>10 DEF ChunkerNext

\* Every paragraph stands below one of the headings.
LEMMA EveryParagraph ==
  ASSUME ChunkerType, NEW i \in DOMAIN text, text[i] # Heading
  PROVE  \E s \in 1 .. Len(Sections) : i \in Body(Sections[s])
<1>1. DOMAIN text = 1 .. Len(text) /\ Len(text) \in Nat /\ i \in 1 .. Len(text)
  BY LenProperties DEF ChunkerType
<1> DEFINE S == {g \in Titles : g <= i}
           h == Max(S)
<1>2. S \in SUBSET (0 .. Len(text)) /\ 0 \in S
  BY <1>1 DEF Titles
<1>3. h \in S /\ \A g \in S : g <= h
  BY <1>1, <1>2, MaxProperties
<1>4. h \in Titles /\ h \in 0 .. Len(text) /\ h <= i
  BY <1>2, <1>3
<1>5. h # i
  BY <1>1, <1>4 DEF Titles
<1>6. \A j \in h + 1 .. i : text[j] # Heading
  <2>1. SUFFICES ASSUME NEW j \in h + 1 .. i, text[j] = Heading PROVE FALSE
    OBVIOUS
  <2> HIDE DEF h
  <2>2. j \in DOMAIN text /\ j <= i /\ h < j
    BY <1>1, <1>4
  <2>3. j \in S
    BY <2>1, <2>2 DEF Titles
  <2>4. j <= h
    BY <1>3, <2>3
  <2>5. QED BY <1>1, <1>4, <2>2, <2>4
<1>7. i \in Body(h)
  <2> HIDE DEF h
  <2>1. i > h
    BY <1>1, <1>4, <1>5
  <2>2. QED BY <1>6, <2>1 DEF Body
<1>8. h \in {g \in Titles : Body(g) # {}}
  BY <1>4, <1>7
<1>9. /\ Range(Sections) = {g \in Titles : Body(g) # {}}
      /\ DOMAIN Sections = 1 .. Len(Sections)
  BY SectionsProperties DEF ChunkerType
<1> HIDE DEF h
<1>10. PICK s \in 1 .. Len(Sections) : h = Sections[s]
  BY <1>8, <1>9 DEF Range
<1>11. QED BY <1>7, <1>10

LEMMA InvariantsCover ==
  ASSUME ChunkerType, CoverInv PROVE BoundariesAreCovered
<1>1. SUFFICES ASSUME Chunked, NEW i \in DOMAIN text, NEW k \in 1 .. text[i]
               PROVE  \E n \in DOMAIN chunks : Within(Piece(i, k), chunks[n])
  BY DEF BoundariesAreCovered, Piece
<1>2. text[i] \in Nat /\ text[i] # Heading
  <2>1. text[i] \in Nat
    BY LenProperties, ElementOfSeq DEF ChunkerType
  <2>2. QED BY <1>1, <2>1 DEF Heading
<1>3. PICK s \in 1 .. Len(Sections) : i \in Body(Sections[s])
  BY <1>2, EveryParagraph
<1>4. s \in 1 .. sec - 1
  BY <1>1, SectionsProperties DEF Chunked, ChunkerType
<1>5. InChunks(chunks, Piece(i, k))
  BY <1>3, <1>4 DEF CoverInv
<1>6. PICK n \in DOMAIN chunks : Inside(Piece(i, k), chunks[n].text)
  BY <1>5 DEF InChunks
<1>7. chunks[n].text \in Seq(Chars)
  <2>1. chunks[n] \in Chunks
    BY LenProperties, ElementOfSeq DEF ChunkerType
  <2>2. QED BY <2>1 DEF Chunks
<1>8. Within(Piece(i, k), chunks[n])
  BY <1>6, <1>7, PieceProperties, InsideIsWithin
<1>9. QED BY <1>8
-----------------------------------------------------------------------------
(* The index and the sources of an answer.                                  *)

IndexInv ==
  /\ ChunkerType
  /\ indexed \in BOOLEAN
  /\ indexed => Chunked
  /\ \A w \in Words : inverted[w] \subseteq DOMAIN chunks
  /\ grounding \in Seq(DOMAIN chunks)
  /\ IsInjective(grounding)

LEMMA EmptyIsInjective == IsInjective(<<>>)
BY DEF IsInjective

\* What is retrieved are chunks, none of them twice.
LEMMA RetrieveProperties ==
  ASSUME IndexInv, NEW query, NEW history, NEW sources \in Retrieve(query, history)
  PROVE  sources \in Seq(DOMAIN chunks) /\ IsInjective(sources)
<1> DEFINE found == UNION {inverted[w] : w \in (query \cup history) \cap Words}
           k == Min({TopK, TopN})
<1>1. k \in Nat
  BY TheTwo, TopAssumption
<1>2. found \subseteq DOMAIN chunks
  BY DEF IndexInv
<1>3. PICK n \in 0 .. k : sources \in Injection(1 .. n, found)
  BY DEF Retrieve, Search
<1> HIDE DEF k, found
<1>4. n \in Nat /\ sources \in [1 .. n -> found] /\ IsInjective(sources)
  BY <1>1, <1>3 DEF Injection
<1>5. sources \in [1 .. n -> DOMAIN chunks]
  BY <1>2, <1>4
<1>6. QED BY <1>4, <1>5, SeqDef

LEMMA IndexInvInitially ==
  ASSUME RetrievalInit, StreamInit PROVE IndexInv
<1>1. ChunkerType
  BY ChunkerTypeInitially DEF RetrievalInit
<1>2. \A w \in Words : inverted[w] \subseteq DOMAIN chunks
  BY DEF RetrievalInit
<1>3. grounding \in Seq(DOMAIN chunks) /\ IsInjective(grounding)
  BY EmptySeq, EmptyIsInjective DEF StreamInit
<1>4. indexed \in BOOLEAN /\ ~indexed
  BY DEF RetrievalInit
<1>5. QED BY <1>1, <1>2, <1>3, <1>4 DEF IndexInv

LEMMA IndexInvInductive ==
  ASSUME IndexInv, [AnswersNext]_answersVars PROVE IndexInv'
<1>1. CASE Chunk /\ UNCHANGED grounding
  <2>1. ChunkerType' /\ ChunkerNext /\ ~Chunked /\ ~indexed
    BY <1>1, ChunkerTypeInductive, ChunkedIsOver DEF Chunk, IndexInv
  <2>2. DOMAIN chunks \subseteq DOMAIN chunks'
    BY <2>1, ChunksStay DEF IndexInv
  <2>3. text' = text /\ inverted' = inverted /\ indexed' = indexed
    BY <1>1 DEF Chunk, ChunkerNext, Pack, Cut, EndSection
  <2>4. \A w \in Words' : inverted'[w] \subseteq DOMAIN chunks'
    BY <2>2, <2>3 DEF IndexInv, Words
  <2>5. grounding' \in Seq(DOMAIN chunks') /\ IsInjective(grounding')
    <3>1. grounding \in Seq(DOMAIN chunks) /\ IsInjective(grounding) /\ grounding' = grounding
      BY <1>1 DEF IndexInv
    <3>2. QED BY <2>2, <3>1, SeqMonotonic
  <2>6. QED BY <2>1, <2>3, <2>4, <2>5 DEF IndexInv
<1>2. CASE Index /\ UNCHANGED grounding
  <2>1. ChunkerType' /\ Chunked' /\ indexed' = TRUE /\ UNCHANGED <<text, chunks, grounding>>
    BY <1>2 DEF Index, IndexInv, ChunkerType, chunkerVars, Chunked, Sections, InOrder, Titles, Body
  <2>2. \A w \in Words' : inverted'[w] \subseteq DOMAIN chunks'
    BY <1>2, <2>1 DEF Index, Words
  <2>3. QED BY <2>1, <2>2 DEF IndexInv
<1>3. CASE UNCHANGED <<retrievalVars, grounding>>
  <2>1. UNCHANGED <<text, sec, par, buf, cutting, chunks, indexed, inverted, grounding>>
    BY <1>3 DEF retrievalVars, chunkerVars
  <2>2. QED BY <2>1 DEF IndexInv, ChunkerType, Chunked, Words, Sections, InOrder, Titles, Body
<1>4. CASE Ask
  <2>1. UNCHANGED <<text, sec, par, buf, cutting, chunks, indexed, inverted>>
    BY <1>4 DEF Ask, retrievalVars, chunkerVars
  <2>2. grounding' \in Seq(DOMAIN chunks) /\ IsInjective(grounding')
    BY <1>4, RetrieveProperties DEF Ask
  <2>3. QED BY <2>1, <2>2 DEF IndexInv, ChunkerType, Chunked, Words, Sections, InOrder, Titles, Body
<1>5. QED
  BY <1>1, <1>2, <1>3, <1>4
  DEF AnswersNext, AnswerStep, Boot, Model, Handle, Fail, Complete, Crash, Leave, answersVars

-----------------------------------------------------------------------------
(* The chunks while questions are answered.                                 *)

\* A step of the server goes on with the document or leaves it.
LEMMA ChunkerOrNot ==
  ASSUME [AnswersNext]_answersVars PROVE ChunkerNext \/ UNCHANGED chunkerVars
BY DEF AnswersNext, AnswerStep, Boot, Chunk, Index, Ask, Model, Handle, Fail, Complete, Crash,
       Leave, answersVars, retrievalVars

\* What is said of the chunks depends on the chunker alone.
LEMMA ChunkerStays ==
  ASSUME UNCHANGED chunkerVars
  PROVE  /\ DistinctInv => DistinctInv'
         /\ SoundInv => SoundInv'
         /\ CoverInv => CoverInv'
<1>1. UNCHANGED <<text, sec, par, buf, cutting, chunks>>
  BY DEF chunkerVars
<1>2. Sections' = Sections /\ \A h : Body(h)' = Body(h)
  BY <1>1 DEF Sections, InOrder, Titles, Body
<1>3. \A s : Paragraphs(s)' = Paragraphs(s)
  BY <1>1, <1>2 DEF Paragraphs, InOrder, Body
<1>4. Packed' = Packed
  BY <1>1, <1>3 DEF Packed
<1>5. \A part : Written(part)' = Written(part)
  BY DEF Written
<1>6. DistinctInv => DistinctInv'
  <2>1. \A n : /\ Distinct(chunks[n].text)' = Distinct(chunks[n].text)
               /\ Content(chunks[n].text)' = Content(chunks[n].text)
               /\ Body(chunks[n].section)' = Body(chunks[n].section)
    BY <1>1 DEF Distinct, Content, Written, Body
  <2>2. Distinct(buf)' = Distinct(buf) /\ Content(buf)' = Content(buf)
    BY <1>1 DEF Distinct, Content, Written
  <2>3. Len(Paragraphs(sec))' = Len(Paragraphs(sec))
    BY <1>1, <1>3
  <2>4. QED BY <1>1, <1>2, <1>4, <2>1, <2>2, <2>3 DEF DistinctInv
<1>7. SoundInv => SoundInv'
  BY <1>1 DEF SoundInv, Fresh, Content, TooLong, Written
<1>8. CoverInv => CoverInv'
  <2>1. \A s : Body(Sections[s])' = Body(Sections[s])
    BY <1>1, <1>2 DEF Body
  <2>2. \A i, k : /\ InChunks(chunks, Piece(i, k))' = InChunks(chunks, Piece(i, k))
                  /\ Inside(Piece(i, k), buf)' = Inside(Piece(i, k), buf)
    BY <1>1 DEF InChunks, Inside, Piece, Paragraph
  <2>3. QED BY <1>1, <1>2, <1>4, <2>1, <2>2 DEF CoverInv
<1>9. QED BY <1>6, <1>7, <1>8

LEMMA ChunksInductive ==
  ASSUME IndexInv, DistinctInv, [AnswersNext]_answersVars
  PROVE  /\ DistinctInv'
         /\ CoverInv => CoverInv'
         /\ Overlap + 4 < MaxChars /\ SoundInv => SoundInv'
<1>1. CASE ChunkerNext
  <2>1. ChunkerType
    BY DEF IndexInv
  <2>2. DistinctInv'
    BY <1>1, <2>1, DistinctInvInductive
  <2>3. CoverInv => CoverInv'
    BY <1>1, <2>1, CoverInvInductive
  <2>4. Overlap + 4 < MaxChars /\ SoundInv => SoundInv'
    BY <1>1, <2>1, ChunkerTypeInductive, SoundInvInductive
  <2>5. QED BY <2>2, <2>3, <2>4
<1>2. CASE UNCHANGED chunkerVars
  BY <1>2, ChunkerStays
<1>3. QED BY <1>1, <1>2, ChunkerOrNot

\* Whatever is no longer than what two chunks share stands in one chunk.
THEOREM BoundariesCovered == AnswersSpec => []BoundariesAreCovered
<1>1. AnswersInit => IndexInv /\ DistinctInv /\ CoverInv
  BY IndexInvInitially, DistinctInvInitially, CoverInvInitially DEF AnswersInit, RetrievalInit
<1>2. IndexInv /\ DistinctInv /\ CoverInv /\ [AnswersNext]_answersVars
        => (IndexInv /\ DistinctInv /\ CoverInv)'
  BY IndexInvInductive, ChunksInductive
<1>3. IndexInv /\ CoverInv => BoundariesAreCovered
  BY InvariantsCover DEF IndexInv
<1>4. QED BY <1>1, <1>2, <1>3, PTL DEF AnswersSpec

\* A chunk keeps to its section and its size and has text of its own, where what chunks
\* share, with the two gaps that a chunk can begin with, is less than a chunk.
THEOREM ChunksSound ==
  ASSUME Overlap + 4 < MaxChars PROVE AnswersSpec => []ChunksAreSound
<1>1. AnswersInit => IndexInv /\ DistinctInv /\ SoundInv
  BY IndexInvInitially, DistinctInvInitially, SoundInvInitially DEF AnswersInit, RetrievalInit
<1>2. IndexInv /\ DistinctInv /\ SoundInv /\ [AnswersNext]_answersVars
        => (IndexInv /\ DistinctInv /\ SoundInv)'
  BY IndexInvInductive, ChunksInductive
<1>3. IndexInv /\ DistinctInv /\ SoundInv => ChunksAreSound
  BY InvariantsAreSound DEF IndexInv
<1>4. QED BY <1>1, <1>2, <1>3, PTL DEF AnswersSpec
-----------------------------------------------------------------------------
(* The sentences of a chunk and the texts of an answer.                     *)

LEMMA FirstOfCut ==
  ASSUME NEW part \in Seq(Chars), NEW a \in 1 .. Len(part), NEW b \in 1 .. Len(part), a <= b
  PROVE  SubSeq(part, a, b)[1] = part[a]
<1> DEFINE cut == SubSeq(part, a, b)
<1>1. Len(part) \in Nat
  BY LenProperties
<1>2. a \in Nat \ {0} /\ b \in 0 .. Len(part)
  BY <1>1
<1>3. Len(cut) = b - a + 1 /\ \A j \in 1 .. Len(cut) : cut[j] = part[a + j - 1]
  BY <1>2, CutsOfTexts
<1> HIDE DEF cut
<1>4. 1 \in 1 .. Len(cut) /\ a + 1 - 1 = a
  BY <1>2, <1>3
<1>5. cut[1] = part[a]
  BY <1>3, <1>4
<1>6. QED BY <1>5 DEF cut

\* The sentences of a text stand in it, each at a place of its own.
LEMMA SentencesProperties ==
  ASSUME NEW c, c.text \in Seq(Chars)
  PROVE  /\ Len(Sentences(c)) \in Nat /\ DOMAIN Sentences(c) = 1 .. Len(Sentences(c))
         /\ \A n \in DOMAIN Sentences(c) : \E j, l \in 1 .. Len(c.text) :
              j <= l /\ Sentences(c)[n] = SubSeq(c.text, j, l)
         /\ Distinct(c.text) =>
              \A m, n \in DOMAIN Sentences(c) : m # n => Sentences(c)[m] # Sentences(c)[n]
<1> DEFINE W == Written(c.text)
           Starts == {j \in W : j - 1 \notin W}
           Ends(j) == {l \in W : l >= j /\ l + 1 \notin W}
           Long == {j \in Starts : Min(Ends(j)) - j + 1 > MinSentence}
           first == InOrder(Long)
           k == Cardinality(Long)
<1>1. /\ Len(c.text) \in Nat /\ W \in SUBSET (0 .. Len(c.text))
      /\ \A j \in W : j \in 1 .. Len(c.text)
      /\ W # {} => Max(W) \in W /\ \A j \in W : j <= Max(W)
  BY WrittenProperties
<1>2. Sentences(c) = [n \in DOMAIN first |-> SubSeq(c.text, first[n], Min(Ends(first[n])))]
  BY DEF Sentences
<1>3. k \in Nat /\ first \in [1 .. k -> Long] /\ Ascends(first)
  BY <1>1, InOrderProperties
<1>4. ASSUME NEW j \in W
      PROVE  Min(Ends(j)) \in 1 .. Len(c.text) /\ j <= Min(Ends(j))
  <2>1. Max(W) \in Ends(j)
    <3>1. Max(W) \in W /\ Max(W) >= j /\ Max(W) + 1 \notin W
      BY <1>1, <1>4
    <3>2. QED BY <3>1
  <2>2. Ends(j) \in SUBSET (0 .. Len(c.text))
    BY <1>1
  <2>3. Min(Ends(j)) \in Ends(j)
    <3> DEFINE E == Ends(j)
    <3>1. E \in SUBSET (0 .. Len(c.text)) /\ E # {} /\ Len(c.text) \in Nat
      BY <1>1, <2>1, <2>2
    <3> HIDE DEF E
    <3>2. Min(E) \in E
      BY <3>1, MinProperties
    <3>3. QED BY <3>2 DEF E
  <2>4. QED BY <1>1, <2>3
<1>5. Len(Sentences(c)) = k /\ DOMAIN Sentences(c) = 1 .. k
  <2> HIDE DEF Long, k, Ends
  <2>1. DOMAIN Sentences(c) = 1 .. k
    BY <1>2, <1>3
  <2>2. QED BY <1>2, <1>3, <2>1
<1>6. ASSUME NEW n \in 1 .. k
      PROVE  \E j, l \in 1 .. Len(c.text) : j <= l /\ Sentences(c)[n] = SubSeq(c.text, j, l)
  <2>1. first[n] \in W /\ first[n] \in 1 .. Len(c.text)
    BY <1>1, <1>3
  <2>2. Sentences(c)[n] = SubSeq(c.text, first[n], Min(Ends(first[n])))
    BY <1>2, <1>3
  <2> HIDE DEF first, Ends
  <2>3. QED BY <1>4, <2>1, <2>2
<1>7. ASSUME Distinct(c.text), NEW m \in 1 .. k, NEW n \in 1 .. k, m # n
      PROVE  Sentences(c)[m] # Sentences(c)[n]
  <2>1. /\ first[m] \in W /\ first[m] \in 1 .. Len(c.text)
        /\ first[n] \in W /\ first[n] \in 1 .. Len(c.text)
    BY <1>1, <1>3
  <2>2. first[m] # first[n]
    <3>1. m < n \/ n < m
      BY <1>3, <1>7
    <3>2. DOMAIN first = 1 .. k
      BY <1>3
    <3> HIDE DEF first, k
    <3>3. first[m] < first[n] \/ first[n] < first[m]
      BY <1>3, <3>1, <3>2 DEF Ascends
    <3>4. QED BY <2>1, <3>3
  <2> DEFINE a == first[m]
             b == first[n]
             x == Min(Ends(a))
             y == Min(Ends(b))
  <2>3. /\ x \in 1 .. Len(c.text) /\ a <= x
        /\ y \in 1 .. Len(c.text) /\ b <= y
    BY <1>4, <2>1
  <2>4. Sentences(c)[m] = SubSeq(c.text, a, x) /\ Sentences(c)[n] = SubSeq(c.text, b, y)
    BY <1>2, <1>3
  <2>5. c.text[a] # c.text[b]
    BY <1>7, <2>1, <2>2 DEF Distinct
  <2> HIDE DEF a, b, x, y
  <2>6. SubSeq(c.text, a, x)[1] = c.text[a]
    BY <1>1, <2>1, <2>3, FirstOfCut DEF a
  <2>7. SubSeq(c.text, b, y)[1] = c.text[b]
    BY <1>1, <2>1, <2>3, FirstOfCut DEF b
  <2>8. QED BY <2>4, <2>5, <2>6, <2>7
<1>8. QED BY <1>3, <1>5, <1>6, <1>7

LEMMA TextIsText == \A says, mark : IsText(Text(says, mark))
BY DEF IsText, Text

LEMMA OneText ==
  ASSUME NEW says, NEW mark PROVE IsTexts(<<Text(says, mark)>>)
<1> DEFINE e == Text(says, mark)
<1>1. IsText(e)
  BY TextIsText
<1> HIDE DEF e
<1>2. <<e>> \in Seq({e}) /\ \A n \in DOMAIN <<e>> : <<e>>[n] = e
  OBVIOUS
<1>3. QED BY <1>1, <1>2, ListOfElements DEF IsTexts, e

LEMMA TextsJoined ==
  ASSUME NEW one, IsTexts(one), NEW other, IsTexts(other)
  PROVE  IsTexts(one \o other)
<1> DEFINE S == Range(one) \cup Range(other)
<1>1. one \in Seq(S) /\ other \in Seq(S)
  <2>1. Range(one) \subseteq S /\ Range(other) \subseteq S
    OBVIOUS
  <2>2. Seq(Range(one)) \subseteq Seq(S) /\ Seq(Range(other)) \subseteq Seq(S)
    BY <2>1, SeqMonotonic
  <2>3. QED BY <2>2 DEF IsTexts, IsList
<1>2. \A e \in S : IsText(e)
  BY DEF IsTexts, Range
<1> HIDE DEF S
<1>3. one \o other \in Seq(S)
  BY <1>1, ConcatProperties
<1>4. \A n \in DOMAIN (one \o other) : (one \o other)[n] \in S
  BY <1>3, LenProperties, ElementOfSeq
<1>5. QED BY <1>2, <1>3, <1>4, ListOfElements DEF IsTexts

LEMMA ListIsNotEmpty ==
  ASSUME NEW S, NEW s \in Seq(S), s # <<>>
  PROVE  1 \in DOMAIN s /\ s[1] \in S
<1>1. Len(s) \in Nat /\ DOMAIN s = 1 .. Len(s) /\ Len(s) # 0
  BY LenProperties, EmptySeq
<1>2. QED BY <1>1, ElementOfSeq

LEMMA ChunkIsChunk ==
  ASSUME ChunkerType, NEW n \in DOMAIN chunks PROVE chunks[n] \in Chunks
BY LenProperties, ElementOfSeq DEF ChunkerType

\* What the mock tells and composes is texts.
LEMMA ToldTexts ==
  ASSUME IndexInv, grounding # <<>>, NEW picked \in Picks
  PROVE  IsTexts(Told(picked))
<1>1. CASE picked # <<>>
  <2>1. PICK n \in 0 .. MaxPicked : picked \in [1 .. n -> Candidates]
    BY DEF Picks
  <2>2. n \in Nat
    BY BoundsAssumption
  <2>3. IsList(picked)
    BY <2>1, <2>2, SeqDef, ListOfElements
  <2>4. \A e \in Candidates : IsText(e)
    BY TextIsText DEF Candidates
  <2>5. QED BY <1>1, <2>1, <2>3, <2>4 DEF Told, IsTexts
<1>2. CASE picked = <<>>
  <2> DEFINE source == grounding[1]
             first == Sentences(chunks[source])
             n == Min({MaxFallback, Len(first)})
  <2>1. source \in DOMAIN chunks
    BY ListIsNotEmpty DEF IndexInv
  <2>2. chunks[source].text \in Seq(Chars)
    BY <2>1, ChunkIsChunk DEF IndexInv, Chunks
  <2>3. Len(first) \in Nat /\ n \in Nat
    <3>1. Len(first) \in Nat
      BY <2>2, SentencesProperties
    <3> DEFINE l == Len(first)
    <3>2. l \in Nat /\ MaxFallback \in Nat
      BY <3>1, BoundsAssumption
    <3> HIDE DEF l
    <3>3. Min({MaxFallback, l}) \in Nat
      <4>1. MaxFallback \in Int /\ l \in Int
        BY <3>2
      <4>2. Min({MaxFallback, l}) = IF MaxFallback <= l THEN MaxFallback ELSE l
        BY <4>1, TheTwo
      <4>3. QED BY <3>2, <4>2
    <3>4. QED BY <3>2, <3>3 DEF l
  <2>4. FirstOf(source) = [i \in 1 .. n |-> Text(first[i], 1)]
    BY DEF FirstOf
  <2> HIDE DEF n, first, source
  <2>5. FirstOf(source) \in [1 .. n -> {Text(first[i], 1) : i \in 1 .. n}]
    BY <2>4
  <2>6. IsList(FirstOf(source))
    BY <2>3, <2>5, SeqDef, ListOfElements
  <2>7. \A i \in DOMAIN FirstOf(source) : IsText(FirstOf(source)[i])
    BY <2>4, TextIsText
  <2>8. QED BY <1>2, <2>6, <2>7 DEF Told, IsTexts, source
<1>3. QED BY <1>1, <1>2

LEMMA ComposedTexts ==
  ASSUME IndexInv, NEW picked \in Picks
  PROVE  IsTexts(Composed(picked))
BY ToldTexts, OneText, TextsJoined DEF Composed
-----------------------------------------------------------------------------
(* The calls of the models.                                                 *)

Reasons == {"end_turn", "max_tokens", "refusal"}
Closed == {"finish", "finished"}

\* How far a call is tells which events it has yielded.
CallInv ==
  /\ stage \in {"idle", "called", "texts", "cite"} \cup Closed
  /\ phase = "ready" <=> stage = "idle"
  /\ handled \in BOOLEAN
  /\ provider = "mock" /\ stage = "texts" => IsTexts(todo)
  /\ provider = "anthropic" /\ stage \in {"cite"} \cup Closed => todo[1] \in Reasons
  /\ event.type \in {"none", "text", "tool_use", "citations", "done"}
  /\ event.type = "done" <=> stage = "finished"
  /\ event.type = "done" => event.reason \in Reasons
  /\ event.type = "citations" => stage # "idle" /\ event.citations = grounding
  /\ end # "open" => handled
  /\ end = "returned" => stage = "finished"

\* A list of texts holds the texts of a list of events, in their order.
Mirrors(texts, events) ==
  \E place \in [DOMAIN texts -> DOMAIN events] :
    /\ Ascends(place)
    /\ \A n \in DOMAIN texts : IsText(texts[n]) /\ texts[n] = events[place[n]]
    /\ \A m \in DOMAIN events : IsText(events[m]) => \E n \in DOMAIN texts : place[n] = m

\* What the engine has collected of what it has shown.
KeptInv ==
  /\ IsList(shown) /\ IsList(collected)
  /\ Mirrors(collected, shown)
  /\ \A n \in DOMAIN shown :
       shown[n].type = "citations" => shown[n].citations = grounding /\ cited = grounding
  /\ cited \in {<<>>, grounding}
  /\ cited # <<>> => \E n \in DOMAIN shown : shown[n].type = "citations"
  /\ phase = "ready" => shown = <<>> /\ cited = <<>>
  /\ phase \in {"ready", "streaming"} => stop \in Reasons
  /\ stage \in Closed => cited = grounding \/ (~handled /\ event.type = "citations")
  /\ SavedIsShown

LEMMA CallInvInitially ==
  ASSUME AnswersInit PROVE CallInv
<1>1. /\ stage = "idle" /\ event.type = "none" /\ end = "open" /\ phase = "ready"
      /\ handled \in BOOLEAN
  BY DEF AnswersInit, StreamInit, NoEvent
<1>2. QED BY <1>1 DEF CallInv, Closed

\* A step that does not go on with the call keeps what is said of it.
LEMMA CallInvStays ==
  ASSUME CallInv, phase' = "ready" <=> phase = "ready",
         UNCHANGED <<provider, grounding, stage, todo, event, handled, end>>
  PROVE  CallInv'
BY DEF CallInv

LEMMA CallInvStream ==
  ASSUME IndexInv, CallInv, StreamNext, phase = "streaming", UNCHANGED <<provider, grounding, phase>>
  PROVE  CallInv'
<1> USE DEF Closed
<1> DEFINE Goes(s) == /\ stage' = s /\ s \in {"texts", "cite", "finish"}
                      /\ event'.type \in {"text", "tool_use"} \/ UNCHANGED event
                      /\ end = "open" /\ end' = "open" /\ handled /\ handled' \in BOOLEAN
                      /\ stage # "finished" /\ stage # "idle" /\ phase # "ready"
<1>1. ASSUME Goes("texts"), provider = "mock" => IsTexts(todo') PROVE CallInv'
  BY <1>1 DEF CallInv
<1>2. CASE \E error \in LlmErrors \cup {"TypeError", "ValueError", "HTTPError"} :
             Raise(error) /\ stage \in {"called", "texts"} /\ handled
  <2>1. end' # "returned" /\ handled' /\ UNCHANGED <<stage, todo, event, handled>>
    BY <1>2 DEF Raise, LlmErrors
  <2>2. QED BY <2>1, <1>2 DEF CallInv
<1>3. CASE MockFails \/ MockMisreads \/ GroqBreaks
  BY <1>2, <1>3 DEF MockFails, MockMisreads, GroqBreaks, Resumed, LlmErrors
<1>4. CASE MockCalculates
  <2>1. IsTexts(todo') /\ stage' = "texts"
    BY <1>4, OneText DEF MockCalculates, RenderTaxAnswer
  <2>2. PICK income, result : event' = [type |-> "tool_use", income |-> income, result |-> result]
    BY <1>4 DEF MockCalculates, YieldEvent
  <2>3. event'.type = "tool_use"
    BY <2>2
  <2>4. end' = end /\ handled' = FALSE /\ end = "open" /\ handled /\ stage = "called"
    BY <1>4 DEF MockCalculates, YieldEvent, Resumed
  <2>5. Goes("texts")
    BY <2>1, <2>3, <2>4
  <2>6. QED BY <1>1, <2>1, <2>5
<1>5. CASE MockComposes
  <2>1. IsTexts(todo')
    BY <1>5, ComposedTexts DEF MockComposes
  <2>2. Goes("texts")
    BY <1>5 DEF MockComposes, Resumed
  <2>3. QED BY <1>1, <2>1, <2>2
<1>6. CASE MockYieldsText
  <2>1. IsTexts(todo) /\ todo # <<>>
    BY <1>6 DEF MockYieldsText, Resumed, CallInv
  <2>2. IsTexts(todo') /\ event'.type = "text"
    BY <1>6, <2>1, ListShrinks DEF MockYieldsText, YieldEvent, IsText
  <2>3. /\ provider = "mock" /\ stage = "texts" /\ stage' \in {"texts", "cite"}
        /\ end = "open" /\ end' = "open" /\ handled' = FALSE
    BY <1>6 DEF MockYieldsText, Resumed, YieldEvent
  <2>4. QED BY <2>2, <2>3 DEF CallInv
<1>7. CASE GroqConnects
  <2>1. CASE \E error \in LlmErrors : Raise(error)
    BY <1>2, <1>7, <2>1 DEF GroqConnects, Resumed
  <2>2. CASE stage' = "texts" /\ UNCHANGED <<todo, event, handled, end>>
    BY <1>7, <2>2 DEF GroqConnects, Resumed, CallInv
  <2>3. QED BY <1>7, <2>1, <2>2 DEF GroqConnects
<1>8. CASE GroqYieldsText
  <2>1. event'.type = "text"
    BY <1>8 DEF GroqYieldsText, YieldEvent, Text
  <2>2. provider = "groq" /\ stage = "texts" /\ stage' = "texts" /\ end = "open" /\ end' = "open" /\ handled' = FALSE
    BY <1>8 DEF GroqYieldsText, YieldEvent, Resumed
  <2>3. QED BY <2>1, <2>2 DEF CallInv
<1>9. CASE GroqEnds
  BY <1>9 DEF GroqEnds, Resumed, CallInv
<1>10. CASE AnthropicYieldsText
  <2>1. event'.type = "text"
    BY <1>10 DEF AnthropicYieldsText, YieldEvent, Text
  <2>2. /\ provider = "anthropic" /\ stage \in {"called", "texts"} /\ stage' = "texts"
        /\ end = "open" /\ end' = "open" /\ handled' = FALSE
    BY <1>10 DEF AnthropicYieldsText, YieldEvent
  <2>3. QED BY <2>1, <2>2 DEF CallInv
<1>11. CASE AnthropicFails
  BY <1>2, <1>11 DEF AnthropicFails
<1>12. CASE AnthropicEnds
  <2>1. PICK reason \in Reasons :
          /\ todo' = <<reason>>
          /\ IF reason = "refusal" THEN YieldEvent(Text(SomeWords, 0))
             ELSE UNCHANGED <<event, handled, end>>
    BY <1>12 DEF AnthropicEnds, Reasons
  <2>2. todo'[1] \in Reasons
    BY <2>1
  <2>3. event'.type = "text" \/ UNCHANGED event
    BY <2>1 DEF YieldEvent, Text
  <2>4. /\ provider = "anthropic" /\ stage \in {"called", "texts"} /\ stage' = "cite"
        /\ end = "open" /\ end' = "open" /\ handled' \in BOOLEAN
    BY <1>12, <2>1 DEF AnthropicEnds, YieldEvent, CallInv
  <2>5. QED BY <2>2, <2>3, <2>4 DEF CallInv
<1>13. CASE Cite
  <2>1. /\ stage = "cite" /\ stage' = "finish" /\ todo' = todo
        /\ end = "open" /\ end' = "open" /\ handled' \in BOOLEAN
    BY <1>13 DEF Cite, YieldEvent, Resumed, CallInv
  <2>2. UNCHANGED event \/ event' = [type |-> "citations", citations |-> grounding]
    BY <1>13 DEF Cite, YieldEvent
  <2>3. UNCHANGED event \/ (event'.type = "citations" /\ event'.citations = grounding)
    BY <2>2
  <2>4. QED BY <2>1, <2>3 DEF CallInv
<1>14. CASE Finish
  <2>1. /\ stage = "finish" /\ stage' = "finished" /\ todo' = todo
        /\ end = "open" /\ end' = "open" /\ handled' = FALSE
    BY <1>14 DEF Finish, YieldEvent, Resumed
  <2>2. event' = [type |-> "done", reason |-> StopReason]
    BY <1>14 DEF Finish, YieldEvent
  <2>3. StopReason \in Reasons
    BY <2>1 DEF StopReason, Reasons, CallInv
  <2>4. event'.type = "done" /\ event'.reason \in Reasons
    BY <2>2, <2>3
  <2>5. QED BY <2>1, <2>4 DEF CallInv
<1>15. CASE Return
  BY <1>15 DEF Return, Resumed, CallInv
<1>16. QED
  BY <1>3, <1>4, <1>5, <1>6, <1>7, <1>8, <1>9, <1>10, <1>11, <1>12, <1>13, <1>14, <1>15 DEF StreamNext

LEMMA CallInvInductive ==
  ASSUME IndexInv, CallInv, [AnswersNext]_answersVars PROVE CallInv'
<1>1. CASE Boot \/ UNCHANGED answersVars
  BY <1>1, CallInvStays DEF Boot, callVars, engineVars, answersVars
<1>2. CASE Ask
  <2>1. /\ stage = "idle" /\ stage' = "called" /\ phase' = "streaming"
        /\ UNCHANGED <<provider, todo, event, handled, end>>
    BY <1>2 DEF Ask, CallInv
  <2>2. QED BY <2>1 DEF CallInv, Closed
<1>3. CASE Model
  BY <1>3, CallInvStream DEF Model, engineVars
<1>4. CASE Handle
  <2>1. handled' = TRUE /\ UNCHANGED <<provider, grounding, stage, todo, event, end, phase>>
    BY <1>4 DEF Handle
  <2>2. QED BY <2>1 DEF CallInv
<1>5. CASE Fail \/ Complete \/ Crash \/ Leave
  BY <1>5, CallInvStays DEF Fail, Complete, SaveAnswer, Crash, Leave, callVars
<1>6. QED BY <1>1, <1>2, <1>3, <1>4, <1>5 DEF AnswersNext, AnswerStep

LEMMA ContractStep ==
  ASSUME IndexInv, CallInv, CallInv', [AnswersNext]_answersVars
  PROVE  [Contract!ContractNext]_(Contract!contractVars)
<1> DEFINE told == IF end \in {"open", "returned"} THEN end ELSE "raised"
           Yields == /\ end = "open" /\ end' = "open" /\ stage # "finished"
                     /\ event'.type \in {"text", "tool_use", "citations", "done"}
<1> USE DEF Contract!ContractNext, Contract!contractVars
<1>1. CASE UNCHANGED <<event, end>>
  BY <1>1
<1>2. CASE Yields
  BY <1>2 DEF Contract!Yield, Contract!EventTypes, CallInv
<1>3. ASSUME NEW error \in LlmErrors \cup {"TypeError", "ValueError", "HTTPError"},
             Raise(error), end = "open", stage # "finished"
      PROVE  Contract!Raise
  BY <1>3 DEF Contract!Raise, Raise, LlmErrors, CallInv
<1>4. CASE Model
  <2>1. CASE Return
    BY <2>1 DEF Return, Resumed, Contract!Return, CallInv
  <2>2. CASE MockFails \/ MockMisreads \/ GroqBreaks \/ AnthropicFails
    BY <1>3, <2>2 DEF MockFails, MockMisreads, GroqBreaks, AnthropicFails, Resumed, LlmErrors
  <2>3. CASE GroqConnects
    BY <1>1, <1>3, <2>3 DEF GroqConnects, Resumed
  <2>4. CASE MockComposes \/ GroqEnds
    BY <1>1, <2>4 DEF MockComposes, GroqEnds
  <2>5. CASE MockCalculates \/ MockYieldsText \/ GroqYieldsText \/ AnthropicYieldsText \/ Finish
    <3>1. handled' = FALSE /\ end = "open" /\ end' = "open" /\ stage # "finished"
      BY <2>5 DEF MockCalculates, MockYieldsText, GroqYieldsText, AnthropicYieldsText, Finish,
                  YieldEvent, Resumed
    <3>2. event'.type # "none"
      <4>1. CASE MockCalculates
        <5>1. PICK income, result : event' = [type |-> "tool_use", income |-> income, result |-> result]
          BY <4>1 DEF MockCalculates, YieldEvent
        <5>2. QED BY <5>1
      <4>2. CASE MockYieldsText
        <5>1. IsTexts(todo) /\ todo # <<>>
          BY <4>2 DEF MockYieldsText, Resumed, CallInv
        <5>2. QED BY <4>2, <5>1, ListShrinks DEF MockYieldsText, YieldEvent, IsText
      <4>3. CASE GroqYieldsText \/ AnthropicYieldsText
        BY <4>3 DEF GroqYieldsText, AnthropicYieldsText, YieldEvent, Text
      <4>4. CASE Finish
        BY <4>4 DEF Finish, YieldEvent
      <4>5. QED BY <2>5, <4>1, <4>2, <4>3, <4>4
    <3>3. QED BY <1>2, <3>1, <3>2 DEF CallInv
  <2>6. CASE AnthropicEnds
    <3>1. \/ UNCHANGED <<event, end>>
          \/ end' = end /\ event' = Text(SomeWords, 0)
      BY <2>6 DEF AnthropicEnds, YieldEvent
    <3>2. end = "open" /\ stage # "finished"
      BY <2>6 DEF AnthropicEnds
    <3>3. QED BY <1>1, <1>2, <3>1, <3>2 DEF Text
  <2>7. CASE Cite
    <3>1. \/ UNCHANGED <<event, end>>
          \/ end' = end /\ event' = [type |-> "citations", citations |-> grounding]
      BY <2>7 DEF Cite, YieldEvent
    <3>2. end = "open" /\ stage # "finished"
      BY <2>7 DEF Cite, Resumed
    <3>3. QED BY <1>1, <1>2, <3>1, <3>2
  <2>8. QED
    BY <1>4, <2>1, <2>2, <2>3, <2>4, <2>5, <2>6, <2>7 DEF Model, StreamNext
<1>5. CASE Boot \/ Ask \/ Handle \/ Fail \/ Complete \/ Crash \/ Leave \/ UNCHANGED answersVars
  BY <1>1, <1>5 DEF Boot, Ask, Handle, Fail, Complete, Crash, Leave, answersVars, callVars
<1>6. QED BY <1>4, <1>5 DEF AnswersNext, AnswerStep

\* No call of a model, of whatever provider, breaks the contract of base.py.
THEOREM AnswersKeepContract == AnswersSpec => ContractSpec
<1>1. AnswersInit => IndexInv /\ CallInv
  BY IndexInvInitially, CallInvInitially DEF AnswersInit
<1>2. IndexInv /\ CallInv /\ [AnswersNext]_answersVars => (IndexInv /\ CallInv)'
  BY IndexInvInductive, CallInvInductive
<1>3. AnswersInit => Contract!ContractInit
  BY DEF AnswersInit, StreamInit, Contract!ContractInit
<1>4. IndexInv /\ CallInv /\ (IndexInv /\ CallInv)' /\ [AnswersNext]_answersVars
        => [Contract!ContractNext]_(Contract!contractVars)
  BY ContractStep
<1>5. QED BY <1>1, <1>2, <1>3, <1>4, PTL DEF AnswersSpec, ContractSpec, Contract!ContractSpec
-----------------------------------------------------------------------------
(* What the engine keeps of an answer.                                      *)

LEMMA MirrorGrows ==
  ASSUME NEW texts, IsList(texts), NEW events, IsList(events), Mirrors(texts, events),
         NEW e, IsText(e)
  PROVE  Mirrors(Append(texts, e), Append(events, e))
<1> DEFINE k == Len(texts)
           l == Len(events)
           texts2 == Append(texts, e)
           events2 == Append(events, e)
<1>1. PICK place \in [DOMAIN texts -> DOMAIN events] :
        /\ Ascends(place)
        /\ \A n \in DOMAIN texts : IsText(texts[n]) /\ texts[n] = events[place[n]]
        /\ \A m \in DOMAIN events : IsText(events[m]) => \E n \in DOMAIN texts : place[n] = m
  BY DEF Mirrors
<1>2. k \in Nat /\ l \in Nat /\ DOMAIN texts = 1 .. k /\ DOMAIN events = 1 .. l
  BY ListProperties
<1>3. /\ texts2[k + 1] = e /\ \A n \in 1 .. k : texts2[n] = texts[n]
      /\ events2[l + 1] = e /\ \A n \in 1 .. l : events2[n] = events[n]
  BY ListGrows
<1>4. DOMAIN texts2 = 1 .. k + 1 /\ DOMAIN events2 = 1 .. l + 1
  <2>1. IsList(texts2) /\ IsList(events2) /\ Len(texts2) = k + 1 /\ Len(events2) = l + 1
    BY ListGrows
  <2>2. QED BY <2>1, ListProperties
<1> HIDE DEF k, l, texts2, events2
<1> DEFINE longer == [n \in 1 .. k + 1 |-> IF n = k + 1 THEN l + 1 ELSE place[n]]
<1>5. \A n \in 1 .. k + 1 : n = k + 1 \/ n \in 1 .. k
  BY <1>2
<1>6. /\ longer[k + 1] = l + 1
      /\ \A n \in 1 .. k : longer[n] = place[n] /\ place[n] \in 1 .. l
  <2>1. k + 1 \in 1 .. k + 1 /\ \A n \in 1 .. k : n \in 1 .. k + 1 /\ n # k + 1
    BY <1>2
  <2>2. QED BY <1>1, <1>2, <2>1
<1>7. longer \in [1 .. k + 1 -> 1 .. l + 1]
  BY <1>2, <1>5, <1>6
<1>8. Ascends(longer)
  <2>1. SUFFICES ASSUME NEW a \in 1 .. k + 1, NEW b \in 1 .. k + 1, a < b
                 PROVE  longer[a] < longer[b]
    BY <1>7 DEF Ascends
  <2>2. a \in 1 .. k
    BY <1>2, <2>1
  <2>3. CASE b = k + 1
    BY <1>2, <1>6, <2>2, <2>3
  <2>4. CASE b \in 1 .. k
    <3>1. place[a] < place[b]
      BY <1>1, <1>2, <2>1, <2>2, <2>4 DEF Ascends
    <3>2. QED BY <1>6, <2>2, <2>4, <3>1
  <2>5. QED BY <1>5, <2>3, <2>4
<1>9. \A n \in 1 .. k + 1 : IsText(texts2[n]) /\ texts2[n] = events2[longer[n]]
  BY <1>1, <1>2, <1>3, <1>5, <1>6
<1>10. ASSUME NEW m \in 1 .. l + 1, IsText(events2[m]) PROVE \E n \in 1 .. k + 1 : longer[n] = m
  <2>1. k + 1 \in 1 .. k + 1
    BY <1>2
  <2>2. CASE m = l + 1
    BY <1>6, <2>1, <2>2
  <2>3. CASE m # l + 1
    <3>1. m \in 1 .. l
      BY <1>2, <2>3
    <3>2. PICK n \in 1 .. k : place[n] = m
      BY <1>1, <1>2, <1>3, <1>10, <3>1
    <3>3. n \in 1 .. k + 1
      BY <1>2
    <3>4. QED BY <1>6, <3>2, <3>3
  <2>4. QED BY <2>2, <2>3
<1> HIDE DEF longer
<1>11. Mirrors(texts2, events2)
  <2>1. longer \in [DOMAIN texts2 -> DOMAIN events2]
    BY <1>4, <1>7
  <2>2. \A n \in DOMAIN texts2 : IsText(texts2[n]) /\ texts2[n] = events2[longer[n]]
    BY <1>4, <1>9
  <2>3. \A m \in DOMAIN events2 : IsText(events2[m]) => \E n \in DOMAIN texts2 : longer[n] = m
    BY <1>4, <1>10
  <2>4. QED BY <1>8, <2>1, <2>2, <2>3 DEF Mirrors
<1>12. QED BY <1>11 DEF texts2, events2

LEMMA MirrorStays ==
  ASSUME NEW texts, IsList(texts), NEW events, IsList(events), Mirrors(texts, events),
         NEW e, ~IsText(e)
  PROVE  Mirrors(texts, Append(events, e))
<1> DEFINE l == Len(events)
           events2 == Append(events, e)
<1>1. PICK place \in [DOMAIN texts -> DOMAIN events] :
        /\ Ascends(place)
        /\ \A n \in DOMAIN texts : IsText(texts[n]) /\ texts[n] = events[place[n]]
        /\ \A m \in DOMAIN events : IsText(events[m]) => \E n \in DOMAIN texts : place[n] = m
  BY DEF Mirrors
<1>2. l \in Nat /\ DOMAIN events = 1 .. l
  BY ListProperties
<1>3. events2[l + 1] = e /\ \A n \in 1 .. l : events2[n] = events[n]
  BY ListGrows
<1>4. DOMAIN events2 = 1 .. l + 1
  <2>1. IsList(events2) /\ Len(events2) = l + 1
    BY ListGrows
  <2>2. QED BY <2>1, ListProperties
<1> HIDE DEF l, events2
<1>5. \A m \in 1 .. l + 1 : m = l + 1 \/ m \in 1 .. l
  BY <1>2
<1>6. place \in [DOMAIN texts -> DOMAIN events2]
  BY <1>1, <1>2, <1>4
<1>7. \A n \in DOMAIN texts : texts[n] = events2[place[n]]
  BY <1>1, <1>2, <1>3
<1>8. \A m \in DOMAIN events2 : IsText(events2[m]) => \E n \in DOMAIN texts : place[n] = m
  BY <1>1, <1>2, <1>3, <1>4, <1>5
<1>9. Mirrors(texts, events2)
  BY <1>1, <1>6, <1>7, <1>8 DEF Mirrors
<1>10. QED BY <1>9 DEF events2

\* Joining the texts leaves out only blanks at the ends.
LEMMA JoinedIsSaid ==
  ASSUME NEW texts, IsList(texts), NEW events, IsList(events), Mirrors(texts, events)
  PROVE  IF Saying(events) = {} THEN Joined(texts) = <<Placeholder>>
         ELSE SayTheSame(Joined(texts), events)
<1> DEFINE k == Len(texts)
           words == {n \in DOMAIN texts : texts[n].says # Blank}
<1>1. PICK place \in [DOMAIN texts -> DOMAIN events] :
        /\ Ascends(place)
        /\ \A n \in DOMAIN texts : IsText(texts[n]) /\ texts[n] = events[place[n]]
        /\ \A m \in DOMAIN events : IsText(events[m]) => \E n \in DOMAIN texts : place[n] = m
  BY DEF Mirrors
<1>2. k \in Nat /\ DOMAIN texts = 1 .. k /\ DOMAIN events = 1 .. Len(events) /\ Len(events) \in Nat
  BY ListProperties
<1>3. \A n \in words : n \in 1 .. k /\ place[n] \in Saying(events)
  BY <1>1, <1>2 DEF Saying
<1>4. \A m \in Saying(events) : \E n \in words : place[n] = m
  BY <1>1 DEF Saying
<1>5. CASE words = {}
  <2>1. Saying(events) = {}
    BY <1>4, <1>5
  <2>2. Joined(texts) = <<Placeholder>>
    BY <1>5 DEF Joined
  <2>3. QED BY <2>1, <2>2
<1>6. CASE words # {}
  <2> DEFINE a == Min(words)
             b == Max(words)
             cut == SubSeq(texts, a, b)
             at == [n \in Saying(cut) |-> place[a + n - 1]]
  <2>1. words \in SUBSET (0 .. k)
    BY <1>2
  <2>2. a \in words /\ b \in words /\ \A n \in words : a <= n /\ n <= b
    BY <1>2, <1>6, <2>1, MinProperties, MaxProperties
  <2>3. Joined(texts) = cut
    BY <1>6 DEF Joined
  <2>4. a \in 1 .. k /\ b \in 1 .. k /\ a <= b
    BY <1>3, <2>2
  <2>5. /\ cut \in Seq(Range(texts)) /\ Len(cut) = b - a + 1
        /\ \A n \in 1 .. b - a + 1 : cut[n] = texts[a + n - 1]
    <3>1. a \in Int /\ b \in Int
      BY <1>2, <2>4
    <3>2. \A i \in a .. b : texts[i] \in Range(texts)
      BY <1>2, <2>4 DEF Range
    <3> HIDE DEF a, b
    <3>3. QED BY <2>4, <3>1, <3>2, SubSeqProperties
  <2> HIDE DEF a, b, cut
  <2>6. DOMAIN cut = 1 .. b - a + 1
    BY <2>5, LenProperties
  <2>7. \A n \in Saying(cut) : /\ n \in 1 .. b - a + 1 /\ cut[n] = texts[a + n - 1]
                               /\ a + n - 1 \in 1 .. k /\ a + n - 1 \in words
    BY <1>2, <2>4, <2>5, <2>6 DEF Saying
  <2>8. \A i \in words : i - a + 1 \in Saying(cut) /\ a + (i - a + 1) - 1 = i
    <3>1. SUFFICES ASSUME NEW i \in words PROVE i - a + 1 \in Saying(cut) /\ a + (i - a + 1) - 1 = i
      OBVIOUS
    <3>2. i \in 1 .. k /\ a <= i /\ i <= b
      BY <1>3, <2>2
    <3>3. i - a + 1 \in 1 .. b - a + 1 /\ a + (i - a + 1) - 1 = i
      BY <1>2, <2>4, <3>2
    <3>4. cut[i - a + 1] = texts[i]
      BY <2>5, <3>3
    <3>5. QED BY <1>1, <1>2, <2>6, <3>2, <3>3, <3>4 DEF Saying
  <2>9. at \in [Saying(cut) -> Saying(events)]
    BY <1>3, <2>7
  <2>10. \A n \in Saying(cut) : at[n] = place[a + n - 1] /\ cut[n] = events[at[n]]
    BY <1>1, <1>2, <2>7
  <2>11. ASSUME NEW n \in Saying(cut), NEW m \in Saying(cut), n < m PROVE at[n] < at[m]
    <3>1. a + n - 1 < a + m - 1
      BY <1>2, <2>4, <2>7, <2>11
    <3>2. QED BY <1>1, <1>2, <2>7, <2>10, <3>1 DEF Ascends
  <2>12. IsInjective(at)
    <3>1. SUFFICES ASSUME NEW n \in Saying(cut), NEW m \in Saying(cut), at[n] = at[m], n # m
                   PROVE  FALSE
      BY DEF IsInjective
    <3>2. n < m \/ m < n
      BY <1>2, <2>4, <2>7, <3>1
    <3>3. at[n] \in Nat /\ at[m] \in Nat
      BY <1>2, <2>9 DEF Saying
    <3>4. QED BY <2>11, <3>1, <3>2, <3>3
  <2>13. \A m \in Saying(events) : \E n \in Saying(cut) : at[n] = m
    <3>1. SUFFICES ASSUME NEW m \in Saying(events) PROVE \E n \in Saying(cut) : at[n] = m
      OBVIOUS
    <3>2. PICK i \in words : place[i] = m
      BY <1>4
    <3>3. QED BY <2>8, <2>10, <3>2
  <2>14. at \in Bijection(Saying(cut), Saying(events))
    BY <2>9, <2>12, <2>13 DEF Bijection, Injection, Surjection
  <2> HIDE DEF at
  <2>15. SayTheSame(cut, events)
    BY <2>10, <2>11, <2>14 DEF SayTheSame
  <2>16. Saying(events) # {}
    BY <1>3, <1>6
  <2>17. QED BY <2>3, <2>15, <2>16
<1>7. QED BY <1>5, <1>6

\* An event that is shown says what it says wherever it is appended.
LEMMA ShownGrows ==
  ASSUME NEW events, IsList(events), NEW e
  PROVE  /\ IsList(Append(events, e)) /\ DOMAIN events \subseteq DOMAIN Append(events, e)
         /\ Len(events) + 1 \in DOMAIN Append(events, e) /\ Append(events, e)[Len(events) + 1] = e
         /\ \A n \in DOMAIN events : Append(events, e)[n] = events[n]
         /\ \A n \in DOMAIN Append(events, e) : n \in DOMAIN events \/ n = Len(events) + 1
<1>1. Len(events) \in Nat /\ DOMAIN events = 1 .. Len(events)
  BY ListProperties
<1>2. /\ IsList(Append(events, e)) /\ Len(Append(events, e)) = Len(events) + 1
      /\ Append(events, e)[Len(events) + 1] = e
      /\ \A n \in 1 .. Len(events) : Append(events, e)[n] = events[n]
  BY ListGrows
<1>3. DOMAIN Append(events, e) = 1 .. Len(events) + 1
  BY <1>2, ListProperties
<1>4. QED BY <1>1, <1>2, <1>3

LEMMA KeptInvInitially ==
  ASSUME AnswersInit PROVE KeptInv
<1>1. IsList(<<>>)
  <2>1. <<>> \in Seq({})
    BY EmptySeq
  <2>2. QED BY <2>1, ListOfElements
<1>2. Mirrors(<<>>, <<>>)
  <2> DEFINE place == <<>>
  <2>1. place \in [DOMAIN <<>> -> DOMAIN <<>>]
    OBVIOUS
  <2>2. DOMAIN <<>> = {} /\ DOMAIN place = {}
    OBVIOUS
  <2> HIDE DEF place
  <2>3. QED BY <2>1, <2>2 DEF Mirrors, Ascends
<1>3. stage = "idle" /\ phase = "ready" /\ shown = <<>> /\ collected = <<>> /\ cited = <<>> /\ stop \in Reasons
  BY DEF AnswersInit, StreamInit, Reasons
<1>4. DOMAIN <<>> = {}
  OBVIOUS
<1>5. QED BY <1>1, <1>2, <1>3, <1>4 DEF KeptInv, SavedIsShown, Closed

\* A step that leaves the engine's part alone keeps it.
LEMMA KeptInvStays ==
  ASSUME KeptInv, UNCHANGED <<grounding, shown, collected, cited, stop>>,
         \/ UNCHANGED <<phase, saved, end>>
         \/ phase = "streaming" /\ phase' \in {"streaming", "crashed", "gone"},
         stage' \in Closed => cited = grounding \/ (~handled' /\ event'.type = "citations")
  PROVE  KeptInv'
<1>1. SavedIsShown'
  <2>1. CASE phase' # "saved"
    BY <2>1 DEF SavedIsShown
  <2>2. CASE phase' = "saved"
    <3>1. UNCHANGED <<phase, saved, end, grounding, shown>>
      BY <2>2
    <3>2. QED BY <3>1 DEF KeptInv, SavedIsShown
  <2>3. QED BY <2>1, <2>2
<1>2. phase' = "ready" => phase = "ready"
  OBVIOUS
<1>3. phase' \in {"ready", "streaming"} => phase \in {"ready", "streaming"}
  OBVIOUS
<1>4. QED BY <1>1, <1>2, <1>3 DEF KeptInv

LEMMA KeptInvInductive ==
  ASSUME IndexInv, CallInv, CallInv', KeptInv, [AnswersNext]_answersVars PROVE KeptInv'
<1>1. CASE Boot \/ UNCHANGED answersVars
  <2>1. UNCHANGED <<grounding, shown, collected, cited, stop, phase, saved, end, stage, handled, event>>
    BY <1>1 DEF Boot, answersVars, engineVars, callVars
  <2>2. QED BY <2>1, KeptInvStays DEF KeptInv
<1>2. CASE Ask
  <2>1. /\ phase = "ready" /\ phase' = "streaming" /\ stage' = "called"
        /\ UNCHANGED <<collected, cited, stop>> /\ shown = <<>> /\ cited = <<>>
        /\ \/ shown' = shown
           \/ shown' = Append(shown, [type |-> "retrieval", sources |-> grounding'])
    BY <1>2 DEF Ask, KeptInv
  <2> DEFINE e == [type |-> "retrieval", sources |-> grounding']
  <2>2. ~IsText(e) /\ e.type # "citations"
    BY DEF IsText
  <2> HIDE DEF e
  <2>3. IsList(shown') /\ Mirrors(collected, shown')
    <3>1. IsList(shown) /\ Mirrors(collected, shown)
      BY DEF KeptInv
    <3>2. IsList(Append(shown, e))
      BY <3>1, ListGrows
    <3>3. Mirrors(collected, Append(shown, e))
      <4>1. IsList(collected)
        BY DEF KeptInv
      <4>2. QED BY <2>2, <3>1, <4>1, MirrorStays
    <3>4. shown' = shown \/ shown' = Append(shown, e)
      BY <2>1 DEF e
    <3>5. QED BY <3>1, <3>2, <3>3, <3>4
  <2>4. \A n \in DOMAIN shown' : shown'[n].type # "citations"
    <3>1. CASE shown' = shown
      BY <2>1, <3>1
    <3>2. CASE shown' = Append(shown, e)
      <4>1. DOMAIN shown = {}
        BY <2>1
      <4>2. \A n \in DOMAIN shown' : shown'[n] = e
        BY <3>2, <4>1, ShownGrows DEF KeptInv
      <4>3. QED BY <2>2, <4>2
    <3>3. QED BY <2>1, <3>1, <3>2 DEF e
  <2>5. QED BY <2>1, <2>3, <2>4 DEF KeptInv, SavedIsShown, Closed
<1>3. CASE Model
  <2>1. UNCHANGED <<grounding, shown, collected, cited, stop, phase, saved>> /\ phase = "streaming"
    BY <1>3 DEF Model, engineVars
  <2>2. stage' \in Closed => cited = grounding \/ (~handled' /\ event'.type = "citations")
    <3>1. SUFFICES ASSUME stage' \in Closed PROVE cited = grounding \/ (~handled' /\ event'.type = "citations")
      OBVIOUS
    <3>2. CASE Cite
      <4>1. CASE grounding = <<>>
        BY <4>1 DEF KeptInv
      <4>2. CASE grounding # <<>>
        <5>1. event' = [type |-> "citations", citations |-> grounding] /\ handled' = FALSE
          BY <3>2, <4>2 DEF Cite, YieldEvent
        <5>2. QED BY <5>1
      <4>3. QED BY <4>1, <4>2
    <3>3. CASE Finish \/ Return
      <4>1. handled /\ stage \in Closed
        BY <3>3 DEF Finish, Return, Resumed, Closed
      <4>2. QED BY <4>1 DEF KeptInv
    <3>4. CASE Raise(end') /\ stage \notin Closed
      BY <3>1, <3>4 DEF Raise
    <3>5. CASE stage' \in {"texts", "cite"}
      BY <3>1, <3>5 DEF Closed
    <3>6. CASE MockFails \/ MockMisreads \/ GroqBreaks \/ AnthropicFails
      BY <3>4, <3>6 DEF MockFails, MockMisreads, GroqBreaks, AnthropicFails, Resumed, Raise, Closed
    <3>7. CASE GroqConnects
      BY <3>4, <3>5, <3>7 DEF GroqConnects, Resumed, Raise, Closed
    <3>8. CASE \/ MockCalculates \/ MockComposes \/ MockYieldsText \/ GroqYieldsText \/ GroqEnds
               \/ AnthropicYieldsText \/ AnthropicEnds
      BY <3>5, <3>8 DEF MockCalculates, MockComposes, MockYieldsText, GroqYieldsText, GroqEnds,
                        AnthropicYieldsText, AnthropicEnds, Resumed
    <3>9. QED BY <1>3, <3>2, <3>3, <3>6, <3>7, <3>8 DEF Model, StreamNext
  <2>3. QED BY <2>1, <2>2, KeptInvStays
<1>4. CASE Handle
  <2>1. /\ phase = "streaming" /\ phase' = "streaming" /\ ~handled /\ handled' = TRUE
        /\ UNCHANGED <<grounding, stage, event>>
        /\ shown' = IF event.type = "done" THEN shown ELSE Append(shown, event)
        /\ collected' = IF IsText(event) THEN Append(collected, event) ELSE collected
        /\ cited' = IF event.type = "citations" THEN event.citations ELSE cited
        /\ stop' = IF event.type = "done" THEN event.reason ELSE stop
    BY <1>4 DEF Handle
  <2>2. stop' \in Reasons
    BY <2>1 DEF CallInv, KeptInv
  <2>3. IsList(shown') /\ IsList(collected') /\ Mirrors(collected', shown')
    <3>1. IsText(event) => event.type # "done"
      BY DEF IsText
    <3>2. QED BY <2>1, <3>1, MirrorGrows, MirrorStays, ListGrows DEF KeptInv
  <2>4. event.type = "citations" => event.citations = grounding
    BY DEF CallInv
  <2>5. cited' \in {<<>>, grounding'}
    BY <2>1, <2>4 DEF KeptInv
  <2>6. \A n \in DOMAIN shown' :
          shown'[n].type = "citations" => shown'[n].citations = grounding' /\ cited' = grounding'
    <3>1. CASE event.type = "done"
      BY <2>1, <3>1 DEF KeptInv
    <3>2. CASE event.type # "done"
      <4>1. SUFFICES ASSUME NEW n \in DOMAIN shown', shown'[n].type = "citations"
                     PROVE  shown'[n].citations = grounding /\ cited' = grounding
        BY <2>1
      <4>2. shown' = Append(shown, event)
        BY <2>1, <3>2
      <4>3. CASE n \in DOMAIN shown
        <5>1. shown'[n] = shown[n]
          BY <4>2, <4>3, ShownGrows DEF KeptInv
        <5>2. QED BY <2>1, <2>4, <4>1, <4>3, <5>1 DEF KeptInv
      <4>4. CASE n = Len(shown) + 1
        <5>1. shown'[n] = event
          BY <4>2, <4>4, ShownGrows DEF KeptInv
        <5>2. QED BY <2>1, <2>4, <4>1, <5>1
      <4>5. QED BY <4>2, <4>3, <4>4, ShownGrows DEF KeptInv
    <3>3. QED BY <3>1, <3>2
  <2>7. cited' # <<>> => \E n \in DOMAIN shown' : shown'[n].type = "citations"
    <3>1. CASE event.type = "done"
      BY <2>1, <3>1 DEF KeptInv
    <3>2. CASE event.type = "citations"
      <4>1. shown' = Append(shown, event)
        BY <2>1, <3>2
      <4>2. QED BY <3>2, <4>1, ShownGrows DEF KeptInv
    <3>3. CASE event.type \notin {"done", "citations"}
      <4>1. shown' = Append(shown, event) /\ cited' = cited
        BY <2>1, <3>3
      <4>2. DOMAIN shown \subseteq DOMAIN shown' /\ \A n \in DOMAIN shown : shown'[n] = shown[n]
        BY <4>1, ShownGrows DEF KeptInv
      <4>3. QED BY <4>1, <4>2 DEF KeptInv
    <3>4. QED BY <3>1, <3>2, <3>3
  <2>8. stage' \in Closed => cited' = grounding'
    BY <2>1, <2>4 DEF KeptInv
  <2>9. QED BY <2>1, <2>2, <2>3, <2>5, <2>6, <2>7, <2>8 DEF KeptInv, SavedIsShown
<1>5. CASE Fail \/ Complete
  <2>1. /\ phase = "streaming" /\ phase' = "saved"
        /\ UNCHANGED <<grounding, stage, handled, event, end, cited>>
        /\ \/ /\ end \in LlmErrors /\ saved'.stop = "error"
              /\ shown' = Append(shown, Fallback) /\ collected' = Append(collected, Fallback)
           \/ end = "returned" /\ UNCHANGED <<shown, collected>> /\ saved'.stop = stop
        /\ saved'.text = Joined(collected') /\ saved'.citations = cited
    BY <1>5 DEF Fail, Complete, SaveAnswer, callVars
  <2>2. IsText(Fallback) /\ Fallback.type # "citations"
    BY DEF Fallback, Text, IsText
  <2>3. IsList(shown') /\ IsList(collected') /\ Mirrors(collected', shown')
    <3>1. IsList(shown) /\ IsList(collected) /\ Mirrors(collected, shown)
      BY DEF KeptInv
    <3>2. IsList(Append(shown, Fallback)) /\ IsList(Append(collected, Fallback))
      BY <3>1, ListGrows
    <3>3. Mirrors(Append(collected, Fallback), Append(shown, Fallback))
      BY <2>2, <3>1, MirrorGrows
    <3>4. QED BY <2>1, <3>1, <3>2, <3>3
  <2>4. /\ \A n \in DOMAIN shown' :
             shown'[n].type = "citations" => shown'[n].citations = grounding /\ cited = grounding
        /\ cited # <<>> => \E n \in DOMAIN shown' : shown'[n].type = "citations"
    <3>1. CASE shown' = shown
      BY <3>1 DEF KeptInv
    <3>2. CASE shown' = Append(shown, Fallback)
      <4>1. /\ DOMAIN shown \subseteq DOMAIN shown'
            /\ \A n \in DOMAIN shown : shown'[n] = shown[n]
            /\ \A n \in DOMAIN shown' : n \in DOMAIN shown \/ shown'[n] = Fallback
        BY <3>2, ShownGrows DEF KeptInv
      <4>2. QED BY <2>2, <4>1 DEF KeptInv
    <3>3. QED BY <2>1, <3>1, <3>2
  <2>5. (saved'.stop = "error") = (end \in LlmErrors)
    BY <2>1 DEF KeptInv, Reasons, LlmErrors
  <2>6. end \notin LlmErrors => cited = grounding
    <3>1. SUFFICES ASSUME end = "returned" PROVE cited = grounding
      BY <2>1
    <3>2. stage = "finished" /\ handled
      BY <3>1 DEF CallInv
    <3>3. QED BY <3>2 DEF KeptInv, Closed
  <2>7. SavedIsShown'
    <3>1. IF Saying(shown') = {} THEN saved'.text = <<Placeholder>> ELSE SayTheSame(saved'.text, shown')
      BY <2>1, <2>3, JoinedIsSaid
    <3>2. \A n \in DOMAIN shown' : shown'[n].type = "citations" => shown'[n].citations = saved'.citations
      BY <2>1, <2>4
    <3>3. saved'.stop # "error" => saved'.citations = grounding'
      BY <2>1, <2>5, <2>6
    <3>4. QED BY <2>1, <2>4, <2>5, <3>1, <3>2, <3>3 DEF SavedIsShown
  <2>8. QED BY <2>1, <2>3, <2>4, <2>7 DEF KeptInv
<1>6. CASE Crash \/ Leave
  <2>1. /\ UNCHANGED <<grounding, shown, collected, cited, stop, stage, handled, event>>
        /\ phase = "streaming" /\ phase' \in {"crashed", "gone"}
    BY <1>6 DEF Crash, Leave, callVars
  <2>2. QED BY <2>1, KeptInvStays DEF KeptInv
<1>7. QED BY <1>1, <1>2, <1>3, <1>4, <1>5, <1>6 DEF AnswersNext, AnswerStep

\* The conversation keeps of an answer what the user read and the sources he was shown.
THEOREM AnswersSavedIsShown == AnswersSpec => []SavedIsShown
<1>1. AnswersInit => IndexInv /\ CallInv /\ KeptInv
  BY IndexInvInitially, CallInvInitially, KeptInvInitially DEF AnswersInit
<1>2. IndexInv /\ CallInv /\ KeptInv /\ [AnswersNext]_answersVars => (IndexInv /\ CallInv /\ KeptInv)'
  BY IndexInvInductive, CallInvInductive, KeptInvInductive
<1>3. KeptInv => SavedIsShown
  BY DEF KeptInv
<1>4. QED BY <1>1, <1>2, <1>3, PTL DEF AnswersSpec
-----------------------------------------------------------------------------
(* The sentences that the mock marks.                                       *)

\* What MarksAreBacked says of one sentence, of two, and of a list of texts.
Backed(e, sources, list) ==
  e.mark # 0 => e.mark \in DOMAIN sources /\ Within(e.says, list[sources[e.mark]])
Apart(one, other) == one.mark # 0 /\ other.mark # 0 => one.says # other.says
ApartFrom(e, texts) == \A n \in DOMAIN texts : Apart(e, texts[n])
Marked(texts, sources, list) ==
  /\ \A n \in DOMAIN texts : Backed(texts[n], sources, list)
  /\ \A m, n \in DOMAIN texts : m # n => Apart(texts[m], texts[n])
AllApart(texts, others) == \A n \in DOMAIN texts : ApartFrom(texts[n], others)

\* What the mock has told, tells and will tell; and that the model is called only when
\* the chunks are there to stay.
MarksInv ==
  /\ stage # "idle" => indexed
  /\ provider = "mock" =>
       /\ stage \in {"idle", "called"} => handled
       /\ end \in LlmErrors => stage = "called"
       /\ phase \in {"ready", "streaming"} =>
            /\ stage \in {"idle", "called"} => collected = <<>>
            /\ Marked(collected, grounding, chunks)
            /\ stage = "texts" => Marked(todo, grounding, chunks) /\ AllApart(collected, todo)
            /\ ~handled /\ IsText(event) =>
                 /\ Backed(event, grounding, chunks) /\ ApartFrom(event, collected)
                 /\ stage = "texts" => ApartFrom(event, todo)
       /\ phase = "saved" =>
            IsList(saved.text) /\ Marked(saved.text, saved.citations, chunks)

LEMMA NoneIsMarked == \A sources, list : Marked(<<>>, sources, list)
<1>1. DOMAIN <<>> = {}
  OBVIOUS
<1>2. QED BY <1>1 DEF Marked

LEMMA OneIsMarked ==
  ASSUME NEW e, e.mark = 0, NEW sources, NEW list PROVE Marked(<<e>>, sources, list)
<1>1. DOMAIN <<e>> = {1} /\ <<e>>[1] = e
  OBVIOUS
<1>2. Backed(e, sources, list)
  BY DEF Backed
<1>3. \A m, n \in DOMAIN <<e>> : ~(m # n)
  BY <1>1
<1>4. QED BY <1>1, <1>2, <1>3 DEF Marked

LEMMA TextProperties ==
  ASSUME NEW says, NEW mark PROVE Text(says, mark).says = says /\ Text(says, mark).mark = mark
BY DEF Text

LEMMA MarkedGrows ==
  ASSUME NEW texts, IsList(texts), NEW sources, NEW list, Marked(texts, sources, list),
         NEW e, Backed(e, sources, list), ApartFrom(e, texts)
  PROVE  Marked(Append(texts, e), sources, list)
<1> DEFINE longer == Append(texts, e)
<1>1. /\ \A n \in DOMAIN texts : longer[n] = texts[n]
      /\ \A n \in DOMAIN longer : n \in DOMAIN texts \/ longer[n] = e
      /\ \A n \in DOMAIN longer : n \in DOMAIN texts \/ n = Len(texts) + 1
  BY ShownGrows
<1> HIDE DEF longer
<1>2. \A n \in DOMAIN longer : Backed(longer[n], sources, list)
  BY <1>1 DEF Marked
<1>3. ASSUME NEW m \in DOMAIN longer, NEW n \in DOMAIN longer, m # n
      PROVE  Apart(longer[m], longer[n])
  <2>1. CASE m \in DOMAIN texts /\ n \in DOMAIN texts
    BY <1>1, <1>3, <2>1 DEF Marked
  <2>2. CASE m \in DOMAIN texts /\ n \notin DOMAIN texts
    BY <1>1, <2>2 DEF ApartFrom, Apart
  <2>3. CASE m \notin DOMAIN texts /\ n \in DOMAIN texts
    BY <1>1, <2>3 DEF ApartFrom
  <2>4. QED BY <1>1, <1>3, <2>1, <2>2, <2>3
<1>4. QED BY <1>2, <1>3 DEF Marked, longer

LEMMA ApartGrows ==
  ASSUME NEW texts, IsList(texts), NEW others, AllApart(texts, others), NEW e, ApartFrom(e, others)
  PROVE  AllApart(Append(texts, e), others)
<1> DEFINE longer == Append(texts, e)
<1>1. /\ \A n \in DOMAIN texts : longer[n] = texts[n]
      /\ \A n \in DOMAIN longer : n \in DOMAIN texts \/ longer[n] = e
  BY ShownGrows
<1> HIDE DEF longer
<1>2. QED BY <1>1 DEF AllApart, longer

\* An introduction without a mark changes nothing.
LEMMA MarkedWithIntroduction ==
  ASSUME NEW texts, IsTexts(texts), NEW sources, NEW list, Marked(texts, sources, list),
         NEW e, IsText(e), e.mark = 0
  PROVE  Marked(<<e>> \o texts, sources, list)
<1> DEFINE S == Range(texts) \cup {e}
           all == <<e>> \o texts
<1>1. <<e>> \in Seq(S) /\ texts \in Seq(S)
  <2>1. Range(texts) \subseteq S /\ e \in S
    OBVIOUS
  <2>2. Seq(Range(texts)) \subseteq Seq(S)
    BY <2>1, SeqMonotonic
  <2> HIDE DEF S
  <2>3. QED BY <2>1, <2>2 DEF IsTexts, IsList
<1> HIDE DEF S
<1>2. Len(<<e>>) = 1 /\ <<e>>[1] = e
  OBVIOUS
<1>3. /\ all \in Seq(S) /\ Len(all) = 1 + Len(texts)
      /\ \A i \in 1 .. 1 + Len(texts) : all[i] = IF i <= 1 THEN <<e>>[i] ELSE texts[i - 1]
  BY <1>1, <1>2, ConcatProperties
<1>4. Len(texts) \in Nat /\ DOMAIN texts = 1 .. Len(texts) /\ DOMAIN all = 1 .. 1 + Len(texts)
  BY <1>1, <1>3, LenProperties
<1> HIDE DEF all
<1>5. /\ all[1] = e
      /\ \A i \in DOMAIN all : i = 1 \/ (i - 1 \in DOMAIN texts /\ all[i] = texts[i - 1])
  <2>1. 1 \in 1 .. 1 + Len(texts)
    BY <1>4
  <2>2. \A i \in 1 .. 1 + Len(texts) : i = 1 \/ (~(i <= 1) /\ i - 1 \in 1 .. Len(texts))
    BY <1>4
  <2>3. QED BY <1>2, <1>3, <1>4, <2>1, <2>2
<1>6. \A i \in DOMAIN all : Backed(all[i], sources, list)
  BY <1>5 DEF Marked, Backed
<1>7. ASSUME NEW m \in DOMAIN all, NEW n \in DOMAIN all, m # n PROVE Apart(all[m], all[n])
  <2>1. CASE m = 1 \/ n = 1
    BY <1>5, <2>1 DEF Apart
  <2>2. CASE m # 1 /\ n # 1
    <3>1. m - 1 # n - 1
      BY <1>4, <1>7
    <3>2. QED BY <1>5, <2>2, <3>1 DEF Marked
  <2>3. QED BY <2>1, <2>2
<1>8. QED BY <1>6, <1>7 DEF Marked, all

\* The first of some texts that are marked, and the others.
LEMMA MarkedShrinks ==
  ASSUME NEW texts, IsTexts(texts), texts # <<>>, NEW sources, NEW list,
         Marked(texts, sources, list), NEW others, AllApart(others, texts)
  PROVE  /\ Backed(Head(texts), sources, list) /\ Marked(Tail(texts), sources, list)
         /\ ApartFrom(Head(texts), Tail(texts))
         /\ ApartFrom(Head(texts), others) /\ AllApart(others, Tail(texts))
<1>1. texts \in Seq(Range(texts))
  BY DEF IsTexts, IsList
<1>2. /\ Len(Tail(texts)) = Len(texts) - 1 /\ Tail(texts) \in Seq(Range(texts))
      /\ \A i \in 1 .. Len(Tail(texts)) : Tail(texts)[i] = texts[i + 1]
  BY <1>1, HeadTailProperties
<1>3. /\ Len(texts) \in Nat /\ DOMAIN texts = 1 .. Len(texts) /\ Len(texts) # 0
      /\ DOMAIN Tail(texts) = 1 .. Len(Tail(texts))
  BY <1>1, <1>2, LenProperties, EmptySeq
<1>4. Head(texts) = texts[1] /\ 1 \in DOMAIN texts
  BY <1>3
<1> DEFINE rest == Tail(texts)
<1>5. \A i \in DOMAIN rest : i + 1 \in DOMAIN texts /\ i + 1 # 1 /\ rest[i] = texts[i + 1]
  <2>1. \A i \in 1 .. Len(texts) - 1 : i + 1 \in 1 .. Len(texts) /\ i + 1 # 1
    BY <1>3
  <2>2. QED BY <1>2, <1>3, <2>1
<1>6. \A m, n \in DOMAIN rest : m # n => m + 1 # n + 1
  <2>1. \A m, n \in 1 .. Len(texts) - 1 : m # n => m + 1 # n + 1
    BY <1>3
  <2>2. QED BY <1>2, <1>3, <2>1
<1> HIDE DEF rest
<1>7. Marked(rest, sources, list)
  BY <1>5, <1>6 DEF Marked
<1>8. ApartFrom(texts[1], rest)
  BY <1>4, <1>5 DEF Marked, ApartFrom
<1>9. AllApart(others, rest) /\ ApartFrom(texts[1], others)
  BY <1>4, <1>5 DEF AllApart, ApartFrom, Apart
<1>10. QED BY <1>4, <1>7, <1>8, <1>9 DEF Marked, rest

\* Joining the texts keeps the marks.
LEMMA JoinedIsMarked ==
  ASSUME NEW texts, IsList(texts), NEW sources, NEW list, Marked(texts, sources, list)
  PROVE  IsList(Joined(texts)) /\ Marked(Joined(texts), sources, list)
<1> DEFINE k == Len(texts)
           words == {n \in DOMAIN texts : texts[n].says # Blank}
<1>1. k \in Nat /\ DOMAIN texts = 1 .. k
  BY ListProperties
<1>2. CASE words = {}
  <2>1. Joined(texts) = <<Placeholder>>
    BY <1>2 DEF Joined
  <2>2. IsList(<<Placeholder>>)
    BY OneText DEF Placeholder, IsTexts
  <2>3. QED BY <2>1, <2>2, OneIsMarked, TextProperties DEF Placeholder
<1>3. CASE words # {}
  <2> DEFINE a == Min(words)
             b == Max(words)
             cut == SubSeq(texts, a, b)
  <2>1. words \in SUBSET (0 .. k)
    BY <1>1
  <2>2. a \in words /\ b \in words /\ \A n \in words : a <= n /\ n <= b
    BY <1>1, <1>3, <2>1, MinProperties, MaxProperties
  <2>3. Joined(texts) = cut
    BY <1>3 DEF Joined
  <2>4. a \in 1 .. k /\ b \in 1 .. k /\ a <= b
    BY <1>1, <2>2
  <2>5. /\ cut \in Seq(Range(texts)) /\ Len(cut) = b - a + 1
        /\ \A n \in 1 .. b - a + 1 : cut[n] = texts[a + n - 1]
    <3>1. a \in Int /\ b \in Int
      BY <1>1, <2>4
    <3>2. \A i \in a .. b : texts[i] \in Range(texts)
      BY <1>1, <2>4 DEF Range
    <3> HIDE DEF a, b
    <3>3. QED BY <2>4, <3>1, <3>2, SubSeqProperties
  <2> HIDE DEF a, b, cut
  <2>6. DOMAIN cut = 1 .. b - a + 1 /\ IsList(cut)
    BY <2>5, LenProperties, ListOfElements
  <2>7. \A n \in DOMAIN cut : a + n - 1 \in DOMAIN texts /\ cut[n] = texts[a + n - 1]
    BY <1>1, <2>4, <2>5, <2>6
  <2>8. \A m, n \in DOMAIN cut : m # n => a + m - 1 # a + n - 1
    BY <1>1, <2>4, <2>6
  <2>9. Marked(cut, sources, list)
    BY <2>7, <2>8 DEF Marked
  <2>10. QED BY <2>3, <2>6, <2>9
<1>4. QED BY <1>2, <1>3

-----------------------------------------------------------------------------
(* The marks of an answer.                                                  *)

\* A sentence of a chunk stands in it, and no two of them are the same.
LEMMA SentencesOfChunk ==
  ASSUME ChunkerType, DistinctInv, NEW source \in DOMAIN chunks
  PROVE  LET first == Sentences(chunks[source])
         IN /\ Len(first) \in Nat /\ DOMAIN first = 1 .. Len(first)
            /\ \A n \in DOMAIN first : Within(first[n], chunks[source])
            /\ \A m, n \in DOMAIN first : m # n => first[m] # first[n]
<1> DEFINE c == chunks[source]
           first == Sentences(c)
<1>1. c.text \in Seq(Chars) /\ Distinct(c.text)
  BY ChunkIsChunk DEF Chunks, DistinctInv
<1>2. Len(c.text) \in Nat
  BY <1>1, LenProperties
<1> HIDE DEF c
<1>3. /\ Len(first) \in Nat /\ DOMAIN first = 1 .. Len(first)
      /\ \A n \in DOMAIN first : \E j, l \in 1 .. Len(c.text) :
           j <= l /\ first[n] = SubSeq(c.text, j, l)
      /\ \A m, n \in DOMAIN first : m # n => first[m] # first[n]
  BY <1>1, SentencesProperties
<1> HIDE DEF first
<1>4. ASSUME NEW n \in DOMAIN first PROVE Within(first[n], c)
  <2>1. PICK j, l \in 1 .. Len(c.text) : j <= l /\ first[n] = SubSeq(c.text, j, l)
    BY <1>3
  <2> DEFINE cut == SubSeq(c.text, j, l)
  <2>2. Len(cut) = l - j + 1
    <3>1. j \in Nat \ {0} /\ l \in 0 .. Len(c.text)
      BY <1>2
    <3>2. QED BY <1>1, <2>1, <3>1, CutsOfTexts
  <2> HIDE DEF cut
  <2>3. j - 1 \in 0 .. Len(c.text) - Len(cut) /\ (j - 1) + 1 = j /\ (j - 1) + Len(cut) = l
    BY <1>2, <2>1, <2>2
  <2>4. SubSeq(c.text, (j - 1) + 1, (j - 1) + Len(cut)) = cut
    BY <2>3 DEF cut
  <2>5. QED BY <2>1, <2>3, <2>4 DEF Within, cut
<1>5. QED BY <1>3, <1>4 DEF first, c

LEMMA ToldIsMarked ==
  ASSUME IndexInv, DistinctInv, grounding # <<>>, NEW picked \in Picks
  PROVE  Marked(Told(picked), grounding, chunks)
<1>1. \A ci \in DOMAIN grounding : grounding[ci] \in DOMAIN chunks
  <2>1. grounding \in Seq(DOMAIN chunks)
    BY DEF IndexInv
  <2>2. QED BY <2>1, LenProperties, ElementOfSeq
<1>2. CASE picked # <<>>
  <2>1. PICK k \in 0 .. MaxPicked : picked \in [1 .. k -> Candidates]
    BY DEF Picks
  <2>2. ASSUME NEW e \in Candidates PROVE Backed(e, grounding, chunks)
    <3>1. PICK ci \in DOMAIN grounding :
            \E s \in Range(Sentences(chunks[grounding[ci]])) : e = Text(s, ci)
      BY <2>2 DEF Candidates
    <3>2. PICK s \in Range(Sentences(chunks[grounding[ci]])) : e = Text(s, ci)
      BY <3>1
    <3> DEFINE first == Sentences(chunks[grounding[ci]])
    <3>3. \A n \in DOMAIN first : Within(first[n], chunks[grounding[ci]])
      BY <1>1, SentencesOfChunk DEF IndexInv
    <3>4. PICK n \in DOMAIN first : s = first[n]
      BY <3>2 DEF Range
    <3> HIDE DEF first
    <3>5. Within(s, chunks[grounding[ci]])
      BY <3>3, <3>4
    <3>6. e.mark = ci /\ e.says = s
      BY <3>2, TextProperties
    <3>7. QED BY <3>5, <3>6 DEF Backed
  <2>3. \A m, n \in DOMAIN picked : m # n => picked[m].says # picked[n].says
    <3>1. IsInjective([n \in DOMAIN picked |-> Key(picked[n].says)])
      BY DEF Picks
    <3>2. \A m, n \in DOMAIN picked : Key(picked[m].says) = Key(picked[n].says) => m = n
      BY <3>1 DEF IsInjective
    <3>3. QED BY <3>2
  <2>4. \A n \in DOMAIN picked : picked[n] \in Candidates
    BY <2>1
  <2>5. Told(picked) = picked
    BY <1>2 DEF Told
  <2>6. QED BY <2>2, <2>3, <2>4, <2>5 DEF Marked, Apart
<1>3. CASE picked = <<>>
  <2> DEFINE source == grounding[1]
             first == Sentences(chunks[source])
             k == Min({MaxFallback, Len(first)})
             told == FirstOf(source)
  <2>1. 1 \in DOMAIN grounding /\ source \in DOMAIN chunks
    BY ListIsNotEmpty DEF IndexInv
  <2>2. /\ Len(first) \in Nat /\ DOMAIN first = 1 .. Len(first)
        /\ \A n \in DOMAIN first : Within(first[n], chunks[source])
        /\ \A m, n \in DOMAIN first : m # n => first[m] # first[n]
    BY <2>1, SentencesOfChunk DEF IndexInv
  <2>3. told = [n \in 1 .. k |-> Text(first[n], 1)]
    BY DEF FirstOf
  <2>4. k \in Nat /\ k <= Len(first)
    <3> DEFINE l == Len(first)
    <3>1. l \in Nat /\ MaxFallback \in Nat
      BY <2>2, BoundsAssumption
    <3> HIDE DEF l
    <3>2. MaxFallback \in Int /\ l \in Int
      BY <3>1
    <3>3. Min({MaxFallback, l}) = IF MaxFallback <= l THEN MaxFallback ELSE l
      BY <3>2, TheTwo
    <3>4. Min({MaxFallback, l}) \in Nat /\ Min({MaxFallback, l}) <= l
      BY <3>1, <3>3
    <3>5. QED BY <3>4 DEF l
  <2> HIDE DEF first, k, told, source
  <2>5. \A n \in 1 .. k : n \in DOMAIN first
    BY <2>2, <2>4
  <2>6. /\ DOMAIN told = 1 .. k
        /\ \A n \in 1 .. k : told[n].mark = 1 /\ told[n].says = first[n]
    BY <2>3, TextProperties
  <2>7. \A n \in DOMAIN told : Backed(told[n], grounding, chunks)
    BY <2>1, <2>2, <2>5, <2>6 DEF Backed, source
  <2>8. \A m, n \in DOMAIN told : m # n => Apart(told[m], told[n])
    BY <2>2, <2>5, <2>6 DEF Apart
  <2>9. Told(picked) = told
    BY <1>3 DEF Told, told, source
  <2>10. QED BY <2>7, <2>8, <2>9 DEF Marked
<1>4. QED BY <1>2, <1>3

LEMMA ComposedIsMarked ==
  ASSUME IndexInv, DistinctInv, NEW picked \in Picks
  PROVE  Marked(Composed(picked), grounding, chunks)
<1>1. CASE grounding = <<>>
  BY <1>1, OneIsMarked, TextProperties DEF Composed
<1>2. CASE grounding # <<>>
  <2>1. Composed(picked) = <<Text(SomeWords, 0)>> \o Told(picked)
    BY <1>2 DEF Composed
  <2>2. IsTexts(Told(picked)) /\ Marked(Told(picked), grounding, chunks)
    BY <1>2, ToldTexts, ToldIsMarked
  <2>3. IsText(Text(SomeWords, 0)) /\ Text(SomeWords, 0).mark = 0
    BY TextIsText, TextProperties
  <2>4. QED BY <2>1, <2>2, <2>3, MarkedWithIntroduction
<1>3. QED BY <1>1, <1>2

\* Once the chunks are indexed they stay.
LEMMA IndexedStays ==
  ASSUME IndexInv, indexed, [AnswersNext]_answersVars
  PROVE  chunks' = chunks /\ indexed'
<1>1. ~ChunkerNext /\ Chunked
  BY ChunkedIsOver DEF IndexInv
<1>2. UNCHANGED retrievalVars
  BY <1>1 DEF AnswersNext, AnswerStep, Boot, Chunk, Index, Ask, Model, Handle, Fail, Complete,
              Crash, Leave, answersVars
<1>3. QED BY <1>2 DEF retrievalVars, chunkerVars

LEMMA MarksInvInitially ==
  ASSUME AnswersInit PROVE MarksInv
<1>1. /\ stage = "idle" /\ phase = "ready" /\ handled = TRUE /\ end = "open" /\ collected = <<>>
  BY DEF AnswersInit, StreamInit
<1>2. "open" \notin LlmErrors
  BY DEF LlmErrors
<1>3. QED BY <1>1, <1>2, NoneIsMarked DEF MarksInv

\* The steps of the mock.
LEMMA MarksInvStream ==
  ASSUME IndexInv, DistinctInv, CallInv, MarksInv, StreamNext, provider = "mock",
         phase = "streaming", chunks' = chunks, indexed' = indexed,
         UNCHANGED <<provider, grounding, phase, collected>>
  PROVE  MarksInv'
<1> DEFINE Fits == /\ Marked(todo', grounding, chunks) /\ AllApart(collected, todo')
           Speaks == /\ Backed(event', grounding, chunks) /\ ApartFrom(event', collected)
                     /\ stage' = "texts" => ApartFrom(event', todo')
<1>1. /\ stage # "idle" /\ indexed
      /\ Marked(collected, grounding, chunks)
  BY DEF CallInv, MarksInv
<1>2. SUFFICES
        /\ stage' \in {"idle", "called"} => handled' /\ collected = <<>>
        /\ end' \in LlmErrors => stage' = "called"
        /\ stage' = "texts" => Fits
        /\ ~handled' /\ IsText(event') => Speaks
  <2>1. IsText(event)' = IsText(event')
    BY DEF IsText
  <2>2. stage' # "idle" => indexed'
    BY <1>1
  <2>3. phase' # "saved"
    OBVIOUS
  <2>4. QED BY <1>1, <1>2, <2>1, <2>2, <2>3 DEF MarksInv
<1>3. CASE (\E error : Raise(error)) /\ stage = "called" /\ handled
  <2>1. UNCHANGED <<stage, todo, event, handled>>
    BY <1>3 DEF Raise
  <2>2. QED BY <1>2, <1>3, <2>1 DEF MarksInv
<1>4. CASE MockFails \/ MockMisreads
  <2>1. CASE MockFails
    BY <1>3, <2>1 DEF MockFails, Resumed
  <2>2. CASE MockMisreads
    <3>1. Raise("ValueError") /\ stage = "called" /\ handled
      BY <2>2 DEF MockMisreads, Resumed
    <3>2. QED BY <1>3, <3>1
  <2>3. QED BY <1>4, <2>1, <2>2
<1>5. CASE MockCalculates \/ MockComposes
  <2>1. /\ stage = "called" /\ stage' = "texts" /\ collected = <<>> /\ handled
        /\ end = "open" /\ end' = "open"
    BY <1>5 DEF MockCalculates, MockComposes, Resumed, YieldEvent, MarksInv
  <2>2. ~handled' => ~IsText(event')
    <3>1. CASE MockCalculates
      <4>1. PICK income, result : event' = [type |-> "tool_use", income |-> income, result |-> result]
        BY <3>1 DEF MockCalculates, YieldEvent
      <4>2. QED BY <4>1 DEF IsText
    <3>2. CASE MockComposes
      BY <2>1, <3>2 DEF MockComposes
    <3>3. QED BY <1>5, <3>1, <3>2
  <2>3. Marked(todo', grounding, chunks)
    <3>1. CASE MockCalculates
      BY <3>1, OneIsMarked, TextProperties DEF MockCalculates, RenderTaxAnswer
    <3>2. CASE MockComposes
      BY <3>2, ComposedIsMarked DEF MockComposes
    <3>3. QED BY <1>5, <3>1, <3>2
  <2>4. AllApart(collected, todo')
    <3>1. DOMAIN <<>> = {}
      OBVIOUS
    <3>2. QED BY <2>1, <3>1 DEF AllApart
  <2>5. "open" \notin LlmErrors
    BY DEF LlmErrors
  <2>6. QED BY <1>2, <2>1, <2>2, <2>3, <2>4, <2>5
<1>6. CASE MockYieldsText
  <2>1. /\ stage = "texts" /\ stage' \in {"texts", "cite"} /\ handled /\ todo # <<>>
        /\ event' = Head(todo) /\ todo' = Tail(todo) /\ end' = "open"
    BY <1>6 DEF MockYieldsText, Resumed, YieldEvent
  <2>2. IsTexts(todo) /\ Marked(todo, grounding, chunks) /\ AllApart(collected, todo)
    BY <2>1 DEF CallInv, MarksInv
  <2>3. /\ Backed(event', grounding, chunks) /\ Marked(todo', grounding, chunks)
        /\ ApartFrom(event', todo') /\ ApartFrom(event', collected) /\ AllApart(collected, todo')
    BY <2>1, <2>2, MarkedShrinks
  <2>4. "open" \notin LlmErrors
    BY DEF LlmErrors
  <2>5. QED BY <1>2, <2>1, <2>3, <2>4
<1>7. CASE Cite \/ Finish
  <2>1. /\ stage' \in {"finish", "finished"} /\ end' = "open"
        /\ ~handled' => event'.type # "text"
    <3>1. CASE Cite
      <4>1. handled /\ end' = "open" /\ stage' = "finish"
        BY <3>1 DEF Cite, Resumed, YieldEvent
      <4>2. CASE grounding = <<>>
        BY <3>1, <4>1, <4>2 DEF Cite
      <4>3. CASE grounding # <<>>
        <5>1. event' = [type |-> "citations", citations |-> grounding]
          BY <3>1, <4>3 DEF Cite, YieldEvent
        <5>2. event'.type = "citations"
          BY <5>1
        <5>3. QED BY <4>1, <5>2
      <4>4. QED BY <4>2, <4>3
    <3>2. CASE Finish
      <4>1. event' = [type |-> "done", reason |-> StopReason] /\ end' = "open" /\ stage' = "finished"
        BY <3>2 DEF Finish, Resumed, YieldEvent
      <4>2. QED BY <4>1
    <3>3. QED BY <1>7, <3>1, <3>2
  <2>2. "open" \notin LlmErrors
    BY DEF LlmErrors
  <2>3. QED BY <1>2, <2>1, <2>2 DEF IsText
<1>8. CASE Return
  <2>1. stage = "finished" /\ handled /\ UNCHANGED <<stage, handled, event, todo>> /\ end' = "returned"
    BY <1>8 DEF Return, Resumed
  <2>2. "returned" \notin LlmErrors
    BY DEF LlmErrors
  <2>3. QED BY <1>2, <2>1, <2>2
<1>9. QED
  BY <1>4, <1>5, <1>6, <1>7, <1>8
  DEF StreamNext, GroqConnects, GroqYieldsText, GroqBreaks, GroqEnds, AnthropicYieldsText,
      AnthropicFails, AnthropicEnds, Resumed

LEMMA MarksInvInductive ==
  ASSUME IndexInv, DistinctInv, CallInv, KeptInv, MarksInv, [AnswersNext]_answersVars
  PROVE  MarksInv'
<1>1. indexed => chunks' = chunks /\ indexed'
  BY IndexedStays
<1>2. CASE Boot \/ UNCHANGED answersVars
  <2>1. UNCHANGED <<provider, grounding, stage, todo, event, handled, end, phase, collected, saved>>
    BY <1>2 DEF Boot, callVars, engineVars, answersVars
  <2>2. CASE stage = "idle"
    <3>1. phase = "ready"
      BY <2>2 DEF CallInv
    <3>2. QED BY <2>1, <2>2, <3>1, NoneIsMarked DEF MarksInv, IsText
  <2>3. CASE stage # "idle"
    <3>1. chunks' = chunks /\ indexed'
      BY <1>1, <2>3 DEF MarksInv
    <3>2. QED BY <2>1, <3>1 DEF MarksInv, IsText
  <2>4. QED BY <2>2, <2>3
<1>3. CASE Ask
  <2>1. /\ indexed /\ phase = "ready" /\ phase' = "streaming" /\ stage' = "called"
        /\ UNCHANGED <<provider, handled, end, collected>>
    BY <1>3 DEF Ask
  <2>2. stage = "idle" /\ indexed'
    BY <1>1, <2>1 DEF CallInv
  <2>3. provider = "mock" => handled /\ collected = <<>>
    BY <2>1, <2>2 DEF MarksInv
  <2>4. QED BY <2>1, <2>2, <2>3, NoneIsMarked DEF MarksInv
<1>4. CASE Model
  <2>1. /\ StreamNext /\ phase = "streaming" /\ chunks' = chunks /\ indexed' = indexed
        /\ UNCHANGED <<provider, grounding, phase, collected>>
    BY <1>4 DEF Model, engineVars, retrievalVars, chunkerVars
  <2>2. CASE provider = "mock"
    BY <2>1, <2>2, MarksInvStream
  <2>3. CASE provider # "mock"
    <3>1. indexed'
      BY <2>1 DEF CallInv, MarksInv
    <3>2. QED BY <2>1, <2>3, <3>1 DEF MarksInv
  <2>4. QED BY <2>2, <2>3
<1>5. CASE Handle
  <2>1. /\ phase = "streaming" /\ ~handled /\ handled' = TRUE
        /\ collected' = (IF IsText(event) THEN Append(collected, event) ELSE collected)
        /\ UNCHANGED <<retrievalVars, provider, grounding, stage, todo, event, end, phase, saved>>
    BY <1>5 DEF Handle
  <2>2. indexed' /\ chunks' = chunks
    BY <1>1, <2>1 DEF CallInv, MarksInv
  <2>3. CASE provider # "mock"
    BY <2>1, <2>2, <2>3 DEF MarksInv
  <2>4. CASE provider = "mock" /\ ~IsText(event)
    BY <2>1, <2>2, <2>4 DEF MarksInv
  <2>5. CASE provider = "mock" /\ IsText(event)
    <3>1. /\ stage \notin {"idle", "called"} /\ IsList(collected)
          /\ Marked(collected, grounding, chunks)
          /\ Backed(event, grounding, chunks) /\ ApartFrom(event, collected)
      BY <2>1, <2>5 DEF MarksInv, KeptInv
    <3>2. Marked(collected', grounding, chunks)
      BY <2>1, <2>5, <3>1, MarkedGrows
    <3>3. stage = "texts" => Marked(todo, grounding, chunks) /\ AllApart(collected', todo)
      <4>1. SUFFICES ASSUME stage = "texts"
                     PROVE  Marked(todo, grounding, chunks) /\ AllApart(collected', todo)
        OBVIOUS
      <4>2. Marked(todo, grounding, chunks) /\ AllApart(collected, todo) /\ ApartFrom(event, todo)
        BY <2>1, <2>5, <4>1 DEF MarksInv
      <4>3. QED BY <2>1, <2>5, <3>1, <4>2, ApartGrows
    <3>4. end \in LlmErrors => stage = "called"
      BY <2>5 DEF MarksInv
    <3>5. QED BY <2>1, <2>2, <3>1, <3>2, <3>3, <3>4 DEF MarksInv
  <2>6. QED BY <2>3, <2>4, <2>5
<1>6. CASE Fail \/ Complete
  <2>1. /\ phase = "streaming" /\ phase' = "saved"
        /\ UNCHANGED <<retrievalVars, provider, grounding, stage, handled, event, end, cited>>
        /\ \/ end \in LlmErrors /\ collected' = Append(collected, Fallback)
           \/ end = "returned" /\ UNCHANGED collected
    BY <1>6 DEF Fail, Complete, SaveAnswer, callVars
  <2>2. saved' = [text |-> Joined(collected'), citations |-> cited, stop |-> saved'.stop,
                  grounded |-> grounding # <<>>]
    BY <1>6 DEF Fail, Complete, SaveAnswer
  <2>3. saved'.text = Joined(collected') /\ saved'.citations = cited
    BY <2>2
  <2>4. indexed' /\ chunks' = chunks
    BY <1>1, <2>1 DEF CallInv, MarksInv
  <2>5. ASSUME provider = "mock" PROVE IsList(collected') /\ Marked(collected', cited, chunks)
    <3>1. IsList(collected)
      BY DEF KeptInv
    <3>2. CASE end \in LlmErrors /\ collected' = Append(collected, Fallback)
      <4>1. collected = <<>>
        BY <2>1, <2>5, <3>2 DEF MarksInv
      <4>2. Marked(collected, cited, chunks) /\ ApartFrom(Fallback, collected)
        <5>1. DOMAIN <<>> = {}
          OBVIOUS
        <5>2. QED BY <4>1, <5>1, NoneIsMarked DEF ApartFrom
      <4>3. Backed(Fallback, cited, chunks)
        BY TextProperties DEF Backed, Fallback
      <4>4. QED BY <3>1, <3>2, <4>2, <4>3, MarkedGrows, ListGrows
    <3>3. CASE end = "returned" /\ UNCHANGED collected
      <4>1. stage \in Closed /\ handled
        BY <3>3 DEF CallInv, Closed
      <4>2. cited = grounding
        BY <4>1 DEF KeptInv
      <4>3. QED BY <2>1, <2>5, <3>1, <3>3, <4>2 DEF MarksInv
    <3>4. QED BY <2>1, <3>2, <3>3
  <2>6. provider = "mock" => IsList(saved'.text) /\ Marked(saved'.text, saved'.citations, chunks')
    BY <2>3, <2>4, <2>5, JoinedIsMarked
  <2>7. QED BY <2>1, <2>4, <2>6 DEF MarksInv
<1>7. CASE Crash \/ Leave
  <2>1. /\ phase' \in {"crashed", "gone"} /\ phase = "streaming"
        /\ UNCHANGED <<provider, stage, handled, end>>
    BY <1>7 DEF Crash, Leave, callVars
  <2>2. indexed'
    BY <1>1, <2>1 DEF CallInv, MarksInv
  <2>3. QED BY <2>1, <2>2 DEF MarksInv
<1>8. QED BY <1>2, <1>3, <1>4, <1>5, <1>6, <1>7 DEF AnswersNext, AnswerStep

\* What the mock marks in an answer stands in the source it names, and is told once.
THEOREM AnswersMarksAreBacked == AnswersSpec => []MarksAreBacked
<1> DEFINE AllInv == IndexInv /\ DistinctInv /\ CallInv /\ KeptInv /\ MarksInv
<1>1. AnswersInit => AllInv
  BY IndexInvInitially, DistinctInvInitially, CallInvInitially, KeptInvInitially,
     MarksInvInitially DEF AnswersInit, RetrievalInit
<1>2. AllInv /\ [AnswersNext]_answersVars => AllInv'
  BY IndexInvInductive, ChunksInductive, CallInvInductive, KeptInvInductive, MarksInvInductive
<1>3. AllInv => MarksAreBacked
  <2>1. SUFFICES ASSUME AllInv, phase = "saved", provider = "mock"
                 PROVE  \A n \in DOMAIN saved.text :
                          saved.text[n].mark # 0 =>
                            /\ saved.text[n].mark \in DOMAIN saved.citations
                            /\ Within(saved.text[n].says, chunks[saved.citations[saved.text[n].mark]])
                            /\ \A m \in 1 .. n - 1 :
                                 saved.text[m].mark # 0 => saved.text[m].says # saved.text[n].says
    BY DEF MarksAreBacked, IndexInv
  <2>2. IsList(saved.text) /\ Marked(saved.text, saved.citations, chunks)
    BY <2>1 DEF MarksInv
  <2>3. \A n \in DOMAIN saved.text : \A m \in 1 .. n - 1 : m \in DOMAIN saved.text /\ m # n
    <3>1. DOMAIN saved.text = 1 .. Len(saved.text) /\ Len(saved.text) \in Nat
      BY <2>2, ListProperties
    <3>2. QED BY <3>1
  <2>4. QED BY <2>2, <2>3 DEF Marked, Backed, Apart
<1>4. QED BY <1>1, <1>2, <1>3, PTL DEF AnswersSpec
-----------------------------------------------------------------------------
(* The tax calculator.                                                      *)

\* The loop over the slabs is a function that exists: it has a place for each turn.
LEMMA SlabSumsAreTurns ==
  ASSUME NEW taxable \in Nat
  PROVE  LET sum == SlabSums(taxable)
         IN /\ sum[0] = [taxable |-> taxable, tax |-> 0, prev |-> 0]
            /\ \A n \in 1 .. 6 : sum[n] = SlabStep(Slabs[n], sum[n - 1])
<1> DEFINE TurnsOf(f) == [n \in 0 .. 6 |->
                         IF n = 0 THEN [taxable |-> taxable, tax |-> 0, prev |-> 0]
                         ELSE SlabStep(Slabs[n], f[n - 1])]
           s0 == [taxable |-> taxable, tax |-> 0, prev |-> 0]
           s1 == SlabStep(Slabs[1], s0)
           s2 == SlabStep(Slabs[2], s1)
           s3 == SlabStep(Slabs[3], s2)
           s4 == SlabStep(Slabs[4], s3)
           s5 == SlabStep(Slabs[5], s4)
           s6 == SlabStep(Slabs[6], s5)
           turns == [n \in 0 .. 6 |-> IF n = 0 THEN s0 ELSE IF n = 1 THEN s1
                       ELSE IF n = 2 THEN s2 ELSE IF n = 3 THEN s3
                       ELSE IF n = 4 THEN s4 ELSE IF n = 5 THEN s5 ELSE s6]
<1>1. Len(Slabs) = 6
  BY DEF Slabs
<1>2. SlabSums(taxable) = CHOOSE f : f = TurnsOf(f)
  BY <1>1 DEF SlabSums, TurnsOf
<1>3. turns = TurnsOf(turns)
  <2>1. /\ turns[0] = s0 /\ turns[1] = s1 /\ turns[2] = s2 /\ turns[3] = s3
        /\ turns[4] = s4 /\ turns[5] = s5 /\ turns[6] = s6
    <3> HIDE DEF s0, s1, s2, s3, s4, s5, s6
    <3> QED OBVIOUS
  <2>2. /\ s1 = SlabStep(Slabs[1], s0) /\ s2 = SlabStep(Slabs[2], s1)
        /\ s3 = SlabStep(Slabs[3], s2) /\ s4 = SlabStep(Slabs[4], s3)
        /\ s5 = SlabStep(Slabs[5], s4) /\ s6 = SlabStep(Slabs[6], s5)
        /\ s0 = [taxable |-> taxable, tax |-> 0, prev |-> 0]
    OBVIOUS
  <2>3. \A n \in 0 .. 6 : turns[n] = TurnsOf(turns)[n]
    <3> HIDE DEF s0, s1, s2, s3, s4, s5, s6, turns
    <3>1. \A n \in 0 .. 6 : n = 0 \/ n = 1 \/ n = 2 \/ n = 3 \/ n = 4 \/ n = 5 \/ n = 6
      OBVIOUS
    <3>2. TurnsOf(turns)[0] = s0
      BY <2>2
    <3>3. \A n \in 1 .. 6 : TurnsOf(turns)[n] = SlabStep(Slabs[n], turns[n - 1])
      OBVIOUS
    <3>4. /\ TurnsOf(turns)[1] = s1 /\ TurnsOf(turns)[2] = s2 /\ TurnsOf(turns)[3] = s3
          /\ TurnsOf(turns)[4] = s4 /\ TurnsOf(turns)[5] = s5 /\ TurnsOf(turns)[6] = s6
      BY <2>1, <2>2, <3>3
    <3> HIDE DEF TurnsOf
    <3>5. QED BY <2>1, <3>1, <3>2, <3>4
  <2>4. QED
    <3>1. turns = [n \in 0 .. 6 |-> turns[n]]
      <4> HIDE DEF s0, s1, s2, s3, s4, s5, s6
      <4> QED OBVIOUS
    <3>2. TurnsOf(turns) = [n \in 0 .. 6 |-> TurnsOf(turns)[n]]
      OBVIOUS
    <3> HIDE DEF turns, TurnsOf
    <3>3. QED BY <2>3, <3>1, <3>2
<1>4. SlabSums(taxable) = TurnsOf(SlabSums(taxable))
  <2> HIDE DEF turns, TurnsOf
  <2> QED BY <1>2, <1>3
<1> HIDE DEF s0, s1, s2, s3, s4, s5, s6, turns
<1>5. QED BY <1>4

\* The lesser and the greater of two numbers.
LEMMA MinMaxOfTwo ==
  ASSUME NEW a \in Int, NEW b \in Int
  PROVE  /\ Min({a, b}) = IF a <= b THEN a ELSE b
         /\ Max({a, b}) = IF a <= b THEN b ELSE a
BY DEF Min, Max

LEMMA MaxWithZero ==
  ASSUME NEW x \in Int
  PROVE  Max({0, x}) = IF x <= 0 THEN 0 ELSE x
BY DEF Max

\* What the loop has added when it has come to a slab that begins at lower: where it
\* stands, or that the income lies below.
Reached(sum, taxable, lower, tax) ==
  \E prev \in Nat :
    /\ sum = [taxable |-> taxable, tax |-> tax, prev |-> prev]
    /\ prev = lower \/ (taxable <= prev /\ prev <= lower)

LEMMA TurnAddsPart ==
  ASSUME NEW taxable \in Nat, NEW lower \in Nat, NEW tax \in Nat,
         NEW limit \in Nat \cup {NoLimit}, NEW rate \in Nat,
         limit = NoLimit \/ lower <= limit,
         NEW sum, Reached(sum, taxable, lower, tax),
         NEW next, next = SlabStep(<<limit, rate>>, sum),
         NEW part, part = Max({0, UpTo(limit, taxable) - lower}) * rate
  PROVE  /\ tax + part \in Nat
         /\ next.tax = tax + part
         /\ limit # NoLimit => Reached(next, taxable, limit, tax + part)
<1>1. PICK prev \in Nat : /\ sum = [taxable |-> taxable, tax |-> tax, prev |-> prev]
                          /\ prev = lower \/ (taxable <= prev /\ prev <= lower)
  BY DEF Reached
<1> DEFINE upto == UpTo(limit, taxable)
<1>2. /\ upto \in Nat /\ upto <= taxable
      /\ limit # NoLimit => upto <= limit
      /\ upto = taxable \/ upto = limit
  BY MinMaxOfTwo DEF UpTo, NoLimit
<1> HIDE DEF upto
<1>3. CASE upto - prev <= 0
  <2>1. SlabStep(<<limit, rate>>, sum) = sum
    BY <1>1, <1>3 DEF SlabStep, upto
  <2>2. Max({0, upto - lower}) = 0
    <3>1. upto - lower \in Int /\ upto - lower <= 0
      BY <1>1, <1>2, <1>3
    <3>2. QED BY <3>1, MaxWithZero
  <2>3. 0 * rate = 0
    OBVIOUS
  <2>4. limit # NoLimit => prev <= limit /\ (prev = limit \/ taxable <= prev)
    BY <1>1, <1>2, <1>3 DEF NoLimit
  <2>5. sum.tax = tax /\ tax + 0 = tax
    BY <1>1
  <2>6. limit # NoLimit => Reached(sum, taxable, limit, tax)
    BY <1>1, <2>4 DEF Reached
  <2>7. QED BY <2>1, <2>2, <2>3, <2>5, <2>6 DEF upto
<1>4. CASE ~(upto - prev <= 0)
  <2>1. prev = lower
    BY <1>1, <1>2, <1>4
  <2>2. SlabStep(<<limit, rate>>, sum) =
          [taxable |-> taxable, tax |-> tax + (upto - lower) * rate, prev |-> limit]
    BY <1>1, <1>4, <2>1 DEF SlabStep, upto
  <2>3. Max({0, upto - lower}) = upto - lower /\ upto - lower \in Nat
    <3>1. upto - lower \in Int /\ ~(upto - lower <= 0) /\ upto - lower \in Nat
      BY <1>2, <1>4, <2>1
    <3>2. QED BY <3>1, MaxWithZero
  <2>4. (upto - lower) * rate \in Nat
    BY <2>3
  <2>5. tax + (upto - lower) * rate \in Nat
    BY <2>4
  <2>6. limit # NoLimit => limit \in Nat
    OBVIOUS
  <2>7. SlabStep(<<limit, rate>>, sum).tax = tax + (upto - lower) * rate
    BY <2>2
  <2>8. limit # NoLimit =>
          Reached(SlabStep(<<limit, rate>>, sum), taxable, limit, tax + (upto - lower) * rate)
    BY <2>2, <2>6 DEF Reached
  <2>9. QED BY <2>3, <2>5, <2>7, <2>8 DEF upto
<1>5. QED BY <1>3, <1>4

LEMMA SlabsProperties ==
  /\ \A n \in 1 .. 6 : Slabs[n] = <<Slabs[n][1], Slabs[n][2]>>
  /\ \A n \in 1 .. 6 : Lower(n) \in Nat /\ Slabs[n][2] \in Nat
  /\ \A n \in 1 .. 5 : Slabs[n][1] \in Nat /\ Lower(n) <= Slabs[n][1]
  /\ \A n \in 1 .. 5 : Slabs[n][1] # NoLimit /\ Lower(n + 1) = Slabs[n][1]
  /\ Slabs[6][1] = NoLimit
  /\ Lower(1) = 0
<1>1. /\ Slabs[1] = <<300, 0>> /\ Slabs[2] = <<700, 5>> /\ Slabs[3] = <<1000, 10>>
      /\ Slabs[4] = <<1200, 15>> /\ Slabs[5] = <<1500, 20>> /\ Slabs[6] = <<NoLimit, 30>>
  BY DEF Slabs
<1>2. Lower(1) = 0 /\ \A n \in 1 .. 5 : Lower(n + 1) = Slabs[n][1]
  BY DEF Lower
<1>3. /\ Lower(2) = 300 /\ Lower(3) = 700 /\ Lower(4) = 1000
      /\ Lower(5) = 1200 /\ Lower(6) = 1500
  BY <1>1 DEF Lower
<1>4. \A n \in 1 .. 6 : n = 1 \/ n = 2 \/ n = 3 \/ n = 4 \/ n = 5 \/ n = 6
  OBVIOUS
<1>5. \A n \in 1 .. 5 : n = 1 \/ n = 2 \/ n = 3 \/ n = 4 \/ n = 5
  OBVIOUS
<1>6. \A n \in 1 .. 6 : Slabs[n] = <<Slabs[n][1], Slabs[n][2]>>
  BY <1>1, <1>4
<1>7. \A n \in 1 .. 6 : Lower(n) \in Nat /\ Slabs[n][2] \in Nat
  BY <1>1, <1>2, <1>3, <1>4
<1>8. \A n \in 1 .. 5 : Slabs[n][1] \in Nat /\ Lower(n) <= Slabs[n][1] /\ Slabs[n][1] # NoLimit
  BY <1>1, <1>2, <1>3, <1>5 DEF NoLimit
<1>9. QED BY <1>1, <1>2, <1>6, <1>7, <1>8

\* The loop adds up the parts of the slabs.
LEMMA LoopIsBySlab ==
  ASSUME NEW taxable \in Nat
  PROVE  SlabSums(taxable)[6].tax =
           SlabPart(1, taxable) + SlabPart(2, taxable) + SlabPart(3, taxable)
             + SlabPart(4, taxable) + SlabPart(5, taxable) + SlabPart(6, taxable)
<1> DEFINE sum == SlabSums(taxable)
           part(i) == SlabPart(i, taxable)
<1>1. /\ sum[0] = [taxable |-> taxable, tax |-> 0, prev |-> 0]
      /\ \A n \in 1 .. 6 : sum[n] = SlabStep(Slabs[n], sum[n - 1])
  BY SlabSumsAreTurns
<1>2. \A n : part(n) = Max({0, UpTo(Slabs[n][1], taxable) - Lower(n)}) * Slabs[n][2]
  BY DEF SlabPart
<1> HIDE DEF sum, part
<1>3. ASSUME NEW n \in 1 .. 6, NEW tax \in Nat, Reached(sum[n - 1], taxable, Lower(n), tax)
      PROVE  /\ tax + part(n) \in Nat
             /\ sum[n].tax = tax + part(n)
             /\ n # 6 => Reached(sum[n], taxable, Lower(n + 1), tax + part(n))
  <2> DEFINE limit == Slabs[n][1]
             rate == Slabs[n][2]
  <2>1. n = 6 \/ n \in 1 .. 5
    OBVIOUS
  <2>2. Lower(n) \in Nat /\ rate \in Nat /\ Slabs[n] = <<limit, rate>>
    BY SlabsProperties
  <2>3. limit \in Nat \cup {NoLimit} /\ (limit = NoLimit \/ Lower(n) <= limit)
    BY <2>1, SlabsProperties
  <2>4. n # 6 => limit # NoLimit /\ Lower(n + 1) = limit
    BY <2>1, SlabsProperties
  <2>5. sum[n] = SlabStep(<<limit, rate>>, sum[n - 1])
    BY <1>1, <2>2
  <2>6. part(n) = Max({0, UpTo(limit, taxable) - Lower(n)}) * rate
    BY <1>2
  <2> HIDE DEF limit, rate
  <2>7. /\ tax + part(n) \in Nat
        /\ sum[n].tax = tax + part(n)
        /\ limit # NoLimit => Reached(sum[n], taxable, limit, tax + part(n))
    BY <1>3, <2>2, <2>3, <2>5, <2>6, TurnAddsPart
  <2>8. QED BY <2>4, <2>7
<1> DEFINE At(n, tax) == tax \in Nat /\ Reached(sum[n - 1], taxable, Lower(n), tax)
<1>4. ASSUME NEW n \in 1 .. 5, NEW tax, At(n, tax) PROVE At(n + 1, tax + part(n))
  BY <1>3, <1>4
<1>5. At(1, 0)
  BY <1>1, SlabsProperties DEF Reached
<1>6. \A n \in 1 .. 5 : \A tax : At(n, tax) => At(n + 1, tax + part(n))
  BY <1>4
<1>7. \A tax : At(6, tax) => sum[6].tax = tax + part(6)
  BY <1>3
<1>8. \A tax : At(1, tax) => tax \in Nat
  OBVIOUS
<1> HIDE DEF At
<1>9. /\ At(2, 0 + part(1))
      /\ At(3, 0 + part(1) + part(2))
      /\ At(4, 0 + part(1) + part(2) + part(3))
      /\ At(5, 0 + part(1) + part(2) + part(3) + part(4))
      /\ At(6, 0 + part(1) + part(2) + part(3) + part(4) + part(5))
  <2>1. At(2, 0 + part(1))
    BY <1>5, <1>6
  <2>2. At(3, 0 + part(1) + part(2))
    BY <2>1, <1>6
  <2>3. At(4, 0 + part(1) + part(2) + part(3))
    BY <2>2, <1>6
  <2>4. At(5, 0 + part(1) + part(2) + part(3) + part(4))
    BY <2>3, <1>6
  <2>5. At(6, 0 + part(1) + part(2) + part(3) + part(4) + part(5))
    BY <2>4, <1>6
  <2>6. QED BY <2>1, <2>2, <2>3, <2>4, <2>5
<1>10. sum[6].tax = 0 + part(1) + part(2) + part(3) + part(4) + part(5) + part(6)
  BY <1>7, <1>9
<1>11. part(1) \in Int
  <2>1. UpTo(Slabs[1][1], taxable) - Lower(1) \in Int /\ Slabs[1][2] \in Int
    <3>1. Slabs[1][1] \in Nat /\ Lower(1) \in Nat /\ Slabs[1][2] \in Nat
      BY SlabsProperties
    <3>2. QED BY <3>1, MinMaxOfTwo DEF UpTo
  <2>2. Max({0, UpTo(Slabs[1][1], taxable) - Lower(1)}) \in Int
    BY <2>1, MaxWithZero
  <2>3. QED BY <1>2, <2>1, <2>2
<1>12. QED BY <1>10, <1>11 DEF sum, part

\* The income a question names is a number.
LEMMA IntentIsAnIncome ==
  ASSUME NEW question \in Questions, NEW income \in CalculatorIntent(question)
  PROVE  income \in Nat
<1>1. PICK n \in DOMAIN question : income = Amount(question[n]) /\ IsIncome(question[n])
  BY DEF CalculatorIntent
<1>2. question \in Seq(Figures)
  BY QuestionsAssumption
<1>3. question[n] \in Figures
  BY <1>2, ElementOfSeq, LenProperties
<1>4. question[n].number \in Int /\ Worth[question[n].unit] \in Nat
  BY <1>3 DEF Figures, NotANumber, Worth
<1>5. income \in Int
  BY <1>1, <1>4 DEF Amount
<1>6. QED BY <1>1, <1>5 DEF IsIncome

\* What the mock says of an income is computed from it.
IsComputed(e) ==
  e.type = "tool_use" => e.income \in Nat /\ e.result = ComputeNewRegimeTax(e.income)

TaxInv ==
  /\ IsList(shown)
  /\ \A n \in DOMAIN shown : IsComputed(shown[n])
  /\ IsComputed(event)

\* A list that grows by something computed.
LEMMA ComputedGrows ==
  ASSUME TaxInv, NEW e, IsComputed(e)
  PROVE  /\ IsList(Append(shown, e))
         /\ \A n \in DOMAIN Append(shown, e) : IsComputed(Append(shown, e)[n])
<1>1. /\ IsList(Append(shown, e)) /\ Len(Append(shown, e)) = Len(shown) + 1
      /\ Append(shown, e)[Len(shown) + 1] = e
      /\ \A n \in 1 .. Len(shown) : Append(shown, e)[n] = shown[n]
  BY ListGrows DEF TaxInv
<1>2. /\ Len(shown) \in Nat /\ DOMAIN shown = 1 .. Len(shown)
      /\ DOMAIN Append(shown, e) = 1 .. Len(Append(shown, e))
  BY <1>1, ListProperties DEF TaxInv
<1>3. \A n \in DOMAIN Append(shown, e) : n \in 1 .. Len(shown) \/ n = Len(shown) + 1
  BY <1>1, <1>2
<1>4. QED BY <1>1, <1>2, <1>3 DEF TaxInv

LEMMA OtherEventsAreComputed ==
  /\ \A says, mark : IsComputed(Text(says, mark))
  /\ \A list : IsComputed([type |-> "citations", citations |-> list])
  /\ \A list : IsComputed([type |-> "retrieval", sources |-> list])
  /\ \A reason : IsComputed([type |-> "done", reason |-> reason])
  /\ \A e : IsText(e) => IsComputed(e)
  /\ IsComputed(NoEvent)
BY DEF IsComputed, Text, IsText, NoEvent

LEMMA TaxInvInductive ==
  ASSUME CallInv, TaxInv, [AnswersNext]_answersVars
  PROVE  TaxInv'
<1>1. ASSUME UNCHANGED <<shown, event>> PROVE TaxInv'
  BY <1>1 DEF TaxInv, IsComputed
<1>2. CASE UNCHANGED answersVars
  BY <1>1, <1>2 DEF answersVars, callVars, engineVars
<1>3. CASE Boot
  BY <1>1, <1>3 DEF Boot, callVars, engineVars
<1>4. CASE Ask
  <2>1. UNCHANGED event /\ (UNCHANGED shown
           \/ \E list : shown' = Append(shown, [type |-> "retrieval", sources |-> list]))
    BY <1>4 DEF Ask
  <2>2. CASE UNCHANGED shown
    BY <1>1, <2>1, <2>2
  <2>3. CASE \E list : shown' = Append(shown, [type |-> "retrieval", sources |-> list])
    <3>1. PICK list : shown' = Append(shown, [type |-> "retrieval", sources |-> list])
      BY <2>3
    <3>2. IsComputed([type |-> "retrieval", sources |-> list])
      BY OtherEventsAreComputed
    <3>3. IsComputed(event)'
      BY <2>1 DEF TaxInv, IsComputed
    <3>4. IsList(shown') /\ \A n \in DOMAIN shown' : IsComputed(shown'[n])
      BY <3>1, <3>2, ComputedGrows
    <3>5. QED BY <3>3, <3>4 DEF TaxInv
  <2>4. QED BY <2>1, <2>2, <2>3
<1>5. CASE Model
  <2>1. UNCHANGED shown
    BY <1>5 DEF Model, engineVars
  <2>2. IsComputed(event')
    <3>1. CASE UNCHANGED event
      BY <3>1 DEF TaxInv, IsComputed
    <3>2. CASE MockCalculates
      <4>1. PICK question \in Questions : \E income \in CalculatorIntent(question) :
              event' = [type |-> "tool_use", income |-> income, result |-> ComputeNewRegimeTax(income)]
        BY <3>2 DEF MockCalculates, YieldEvent
      <4>2. PICK income \in CalculatorIntent(question) :
              event' = [type |-> "tool_use", income |-> income, result |-> ComputeNewRegimeTax(income)]
        BY <4>1
      <4>3. income \in Nat
        BY IntentIsAnIncome
      <4>4. event'.income = income /\ event'.result = ComputeNewRegimeTax(income)
        BY <4>2
      <4>5. QED BY <4>3, <4>4 DEF IsComputed
    <3>3. CASE MockYieldsText
      <4>1. IsTexts(todo) /\ todo # <<>>
        BY <3>3 DEF MockYieldsText, Resumed, CallInv
      <4>2. IsText(event')
        BY <3>3, <4>1, ListShrinks DEF MockYieldsText, YieldEvent
      <4>3. QED BY <4>2, OtherEventsAreComputed
    <3>4. CASE GroqYieldsText \/ AnthropicYieldsText
      <4>1. \E says : event' = Text(says, 0)
        BY <3>4 DEF GroqYieldsText, AnthropicYieldsText, YieldEvent
      <4>2. QED BY <4>1, OtherEventsAreComputed
    <3>5. CASE AnthropicEnds
      <4>1. UNCHANGED event \/ event' = Text(SomeWords, 0)
        BY <3>5 DEF AnthropicEnds, YieldEvent
      <4>2. QED BY <3>1, <4>1, OtherEventsAreComputed
    <3>6. CASE Cite
      <4>1. UNCHANGED event \/ event' = [type |-> "citations", citations |-> grounding]
        BY <3>6 DEF Cite, YieldEvent
      <4>2. QED BY <3>1, <4>1, OtherEventsAreComputed
    <3>7. CASE Finish
      <4>1. event' = [type |-> "done", reason |-> StopReason]
        BY <3>7 DEF Finish, YieldEvent
      <4>2. QED BY <4>1, OtherEventsAreComputed
    <3>8. CASE MockFails \/ MockMisreads \/ MockComposes \/ GroqConnects \/ GroqBreaks
                 \/ GroqEnds \/ AnthropicFails \/ Return
      <4>1. UNCHANGED event
        BY <3>8 DEF MockFails, MockMisreads, MockComposes, GroqConnects, GroqBreaks, GroqEnds,
                    AnthropicFails, Return, Raise
      <4>2. QED BY <3>1, <4>1
    <3>9. QED
      BY <1>5, <3>2, <3>3, <3>4, <3>5, <3>6, <3>7, <3>8 DEF Model, StreamNext
  <2>3. QED BY <2>1, <2>2 DEF TaxInv, IsComputed
<1>6. CASE Handle
  <2>1. UNCHANGED event /\ (UNCHANGED shown \/ shown' = Append(shown, event))
    BY <1>6 DEF Handle
  <2>2. CASE shown' = Append(shown, event)
    <3>1. IsComputed(event)
      BY DEF TaxInv
    <3>2. IsList(shown') /\ \A n \in DOMAIN shown' : IsComputed(shown'[n])
      BY <2>2, <3>1, ComputedGrows
    <3>3. QED BY <2>1, <3>1, <3>2 DEF TaxInv, IsComputed
  <2>3. QED BY <1>1, <2>1, <2>2
<1>7. CASE Fail
  <2>1. UNCHANGED event /\ shown' = Append(shown, Fallback)
    BY <1>7 DEF Fail, callVars
  <2>2. IsComputed(Fallback)
    BY OtherEventsAreComputed DEF Fallback
  <2>3. IsList(shown') /\ \A n \in DOMAIN shown' : IsComputed(shown'[n])
    BY <2>1, <2>2, ComputedGrows
  <2>4. QED BY <2>1, <2>3 DEF TaxInv, IsComputed
<1>8. CASE Complete \/ Crash \/ Leave
  BY <1>1, <1>8 DEF Complete, Crash, Leave, callVars
<1>9. QED BY <1>2, <1>3, <1>4, <1>5, <1>6, <1>7, <1>8 DEF AnswersNext, AnswerStep

\* A computed answer tells the tax that the slabs make of the income.
LEMMA ComputedIsBySlab ==
  ASSUME NEW income \in Nat, NEW taxable, NEW total,
         taxable = ComputeNewRegimeTax(income).taxable,
         total = ComputeNewRegimeTax(income).total
  PROVE  /\ taxable + StandardDeduction = Max({income, StandardDeduction})
         /\ total = IF taxable <= RebateLimit THEN 0
                    ELSE 104 * (SlabPart(1, taxable) + SlabPart(2, taxable) + SlabPart(3, taxable)
                                  + SlabPart(4, taxable) + SlabPart(5, taxable)
                                  + SlabPart(6, taxable))
<1>1. /\ taxable = Max({0, income - StandardDeduction})
      /\ total = 104 * (IF taxable <= RebateLimit THEN 0 ELSE SlabSums(taxable)[Len(Slabs)].tax)
  BY DEF ComputeNewRegimeTax
<1>2. taxable \in Nat /\ taxable + StandardDeduction = Max({income, StandardDeduction})
  <2>1. income - 75 \in Int
    OBVIOUS
  <2>2. Max({0, income - 75}) = IF income - 75 <= 0 THEN 0 ELSE income - 75
    BY <2>1, MaxWithZero
  <2>3. Max({income, 75}) = IF income <= 75 THEN 75 ELSE income
    BY MinMaxOfTwo
  <2>4. QED BY <1>1, <2>2, <2>3 DEF StandardDeduction
<1>3. Len(Slabs) = 6
  BY DEF Slabs
<1>4. QED BY <1>1, <1>2, <1>3, LoopIsBySlab

\* The calculator tells the tax that the slabs make of the income, whatever the income.
THEOREM AnswersTaxIsBySlab == AnswersSpec => []TaxIsBySlab
<1>1. AnswersInit => IndexInv /\ CallInv /\ TaxInv
  <2>1. ASSUME AnswersInit PROVE TaxInv
    <3>1. shown = <<>> /\ event = NoEvent
      BY <2>1 DEF AnswersInit, StreamInit
    <3>2. <<>> \in Seq({}) /\ DOMAIN <<>> = {}
      BY EmptySeq
    <3>3. IsList(<<>>)
      BY <3>2, ListOfElements
    <3>4. QED BY <3>1, <3>2, <3>3, OtherEventsAreComputed DEF TaxInv
  <2>2. QED BY <2>1, IndexInvInitially, CallInvInitially DEF AnswersInit
<1>2. IndexInv /\ CallInv /\ TaxInv /\ [AnswersNext]_answersVars => (IndexInv /\ CallInv /\ TaxInv)'
  BY IndexInvInductive, CallInvInductive, TaxInvInductive
<1>3. TaxInv => TaxIsBySlab
  <2> SUFFICES ASSUME TaxInv, NEW n \in DOMAIN shown, shown[n].type = "tool_use"
               PROVE  LET taxable == shown[n].result.taxable
                          Part(i) == SlabPart(i, taxable)
                      IN /\ taxable + StandardDeduction = Max({shown[n].income, StandardDeduction})
                         /\ shown[n].result.total =
                              IF taxable <= RebateLimit THEN 0
                              ELSE 104 * (Part(1) + Part(2) + Part(3) + Part(4) + Part(5) + Part(6))
    BY Zenon DEF TaxIsBySlab
  <2>1. shown[n].income \in Nat /\ shown[n].result = ComputeNewRegimeTax(shown[n].income)
    BY DEF TaxInv, IsComputed
  <2>2. QED BY <2>1, ComputedIsBySlab
<1>4. QED BY <1>1, <1>2, <1>3, PTL DEF AnswersSpec
=============================================================================
