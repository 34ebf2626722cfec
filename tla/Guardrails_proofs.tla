-------------------------- MODULE Guardrails_proofs --------------------------
(***************************************************************************)
(* RateLimiter for any clients, burst, cost and rate, and Guardrails, which *)
(* is built on it, for any requests and any length of the tail.            *)
(***************************************************************************)
EXTENDS Guardrails, FiniteSetTheorems, SequenceTheorems, TLAPS

Events == {"tick", "request"}

\* How often an event occurs after the i-th.
Occurs(s, i, x) == Cardinality({j \in i + 1 .. Len(s) : s[j] = x})

\* One more event is one more occurrence.
LEMMA OccursAppend ==
  ASSUME NEW s \in Seq(Events), NEW i \in 0 .. Len(s), NEW x, NEW y \in Events
  PROVE  /\ Occurs(s, i, x) \in Nat
         /\ Occurs(Append(s, y), i, x) = Occurs(s, i, x) + IF x = y THEN 1 ELSE 0
<1> DEFINE S == {j \in i + 1 .. Len(s) : s[j] = x}
           T == {j \in i + 1 .. Len(Append(s, y)) : Append(s, y)[j] = x}
           n == Len(s) + 1
<1>1. IsFiniteSet(S) /\ Cardinality(S) \in Nat
  <2>1. IsFiniteSet(i + 1 .. Len(s))
    BY FS_Interval
  <2>2. QED BY <2>1, FS_Subset, FS_CardinalityType
<1>2. n \notin S
  OBVIOUS
<1>3. Len(Append(s, y)) = n /\ Append(s, y)[n] = y
      /\ \A j \in 1 .. Len(s) : Append(s, y)[j] = s[j]
  BY AppendProperties
<1>4. x = y => T = S \cup {n}
  BY <1>3
<1>5. x # y => T = S
  BY <1>3
<1> HIDE DEF S, T, n
<1>6. x = y => Cardinality(T) = Cardinality(S) + 1
  BY <1>1, <1>2, <1>4, FS_AddElement
<1>7. Occurs(s, i, x) = Cardinality(S) /\ Occurs(Append(s, y), i, x) = Cardinality(T)
  BY Zenon DEF Occurs, S, T
<1>8. QED BY <1>1, <1>5, <1>6, <1>7

\* Nothing occurs after the last event.
LEMMA OccursNever ==
  ASSUME NEW s \in Seq(Events), NEW x
  PROVE  Occurs(s, Len(s), x) = 0
<1>1. {j \in Len(s) + 1 .. Len(s) : s[j] = x} = {}
  BY LenProperties
<1>2. QED BY <1>1, FS_EmptySet DEF Occurs

\* What a window leaves, before and after an event.
LEMMA LeftAppend ==
  ASSUME NEW s \in Seq(Events), NEW y \in Events
  PROVE  /\ \A i \in 0 .. Len(s) :
              /\ Left(s, i) \in Int
              /\ Left(Append(s, y), i) =
                   Left(s, i) + IF y = "tick" THEN Rate ELSE -Cost
         /\ Len(Append(s, y)) = Len(s) + 1
         /\ Left(s, Len(s)) = Capacity
<1> USE BurstAssumption, CostAssumption, RateAssumption
<1>1. Capacity \in Nat
  BY DEF Capacity
<1>2. \A i \in 0 .. Len(s) :
        Left(s, i) = Capacity + Rate * Occurs(s, i, "tick") - Cost * Occurs(s, i, "request")
  BY DEF Left, Ticks, Admitted, Occurs
<1>3. \A i \in 0 .. Len(s) :
        Left(Append(s, y), i) = Capacity + Rate * Occurs(Append(s, y), i, "tick")
                                         - Cost * Occurs(Append(s, y), i, "request")
  BY DEF Left, Ticks, Admitted, Occurs
<1>4. ASSUME NEW i \in 0 .. Len(s)
      PROVE  /\ Left(s, i) \in Int
             /\ Left(Append(s, y), i) = Left(s, i) + IF y = "tick" THEN Rate ELSE -Cost
  <2> DEFINE t == Occurs(s, i, "tick")
             r == Occurs(s, i, "request")
  <2>1. t \in Nat /\ r \in Nat
    BY OccursAppend
  <2>2. /\ Occurs(Append(s, y), i, "tick") = t + IF "tick" = y THEN 1 ELSE 0
        /\ Occurs(Append(s, y), i, "request") = r + IF "request" = y THEN 1 ELSE 0
    BY OccursAppend
  <2> HIDE DEF t, r
  <2>3. Rate * t \in Nat /\ Cost * r \in Nat
    BY <2>1
  <2>4. Rate * (t + 1) = Rate * t + Rate /\ Cost * (r + 1) = Cost * r + Cost
    BY <2>1
  <2>5. Left(s, i) = Capacity + Rate * t - Cost * r
    BY <1>2 DEF t, r
  <2>6. CASE y = "tick"
    <3>1. Left(Append(s, y), i) = Capacity + Rate * (t + 1) - Cost * r
      BY <1>3, <2>1, <2>2, <2>6
    <3>2. QED BY <1>1, <2>3, <2>4, <2>5, <2>6, <3>1
  <2>7. CASE y = "request"
    <3>1. Left(Append(s, y), i) = Capacity + Rate * t - Cost * (r + 1)
      BY <1>3, <2>1, <2>2, <2>7
    <3>2. QED BY <1>1, <2>3, <2>4, <2>5, <2>7, <3>1
  <2>8. QED BY <2>6, <2>7 DEF Events
<1>5. Len(Append(s, y)) = Len(s) + 1
  BY AppendProperties
<1>6. Left(s, Len(s)) = Capacity
  BY <1>1, <1>2, OccursNever, LenProperties
<1>7. QED BY <1>4, <1>5, <1>6

-----------------------------------------------------------------------------

LimiterInv == LimiterTypeOK /\ TightestWindow

\* n is what the tightest window of s leaves.
Tightest(n, s) ==
  /\ \A i \in 0 .. Len(s) : n <= Left(s, i)
  /\ \E i \in 0 .. Len(s) : n = Left(s, i)

\* What an event does to the bucket.
Change(y) == IF y = "tick" THEN Rate ELSE -Cost

\* If the bucket follows an event, or is full, the tightest window is known again.
LEMMA WindowStep ==
  ASSUME NEW s \in Seq(Events), NEW y \in Events, NEW n \in 0 .. Capacity,
         NEW m \in 0 .. Capacity, Tightest(n, s),
         m = n + Change(y) \/ (m = Capacity /\ m <= n + Change(y))
  PROVE  Tightest(m, Append(s, y))
<1> DEFINE change == Change(y)
           t == Append(s, y)
<1>0. change \in Int /\ Capacity \in Nat /\ Len(s) \in Nat
  BY RateAssumption, CostAssumption, BurstAssumption, LenProperties DEF Capacity, Change
<1>1. /\ \A i \in 0 .. Len(s) : Left(s, i) \in Int /\ Left(t, i) = Left(s, i) + change
      /\ Len(t) = Len(s) + 1
  BY LeftAppend DEF Change
<1>2. Left(t, Len(t)) = Capacity
  <2>1. t \in Seq(Events)
    BY AppendProperties
  <2>2. QED BY <2>1, LeftAppend
<1>3. m = n + change \/ (m = Capacity /\ m <= n + change)
  OBVIOUS
<1> HIDE DEF change, t
<1>4. \A i \in 0 .. Len(t) : m <= Left(t, i)
  <2>1. \A i \in 0 .. Len(s) : m <= Left(t, i)
    BY <1>0, <1>1, <1>3 DEF Tightest
  <2>2. QED BY <1>0, <1>1, <1>2, <2>1
<1>5. \E i \in 0 .. Len(t) : m = Left(t, i)
  <2>1. CASE m = n + change
    <3>1. PICK i \in 0 .. Len(s) : n = Left(s, i)
      BY DEF Tightest
    <3>2. i \in 0 .. Len(t) /\ m = Left(t, i)
      BY <1>0, <1>1, <2>1, <3>1
    <3>3. QED BY <3>2
  <2>2. CASE m = Capacity
    BY <1>0, <1>1, <1>2, <2>2
  <2>3. QED BY <1>3, <2>1, <2>2
<1>6. QED BY <1>4, <1>5 DEF t, Tightest

LEMMA LimiterInvariance ==
  /\ LimiterInit => LimiterInv
  /\ LimiterInv /\ [LimiterNext]_limiterVars => LimiterInv'
<1>0. Capacity \in Nat
  BY BurstAssumption, CostAssumption DEF Capacity
<1>1. ASSUME LimiterInit PROVE LimiterInv
  <2>1. \A c \in Clients : passage[c] = <<>> /\ tokens[c] = Capacity
    BY <1>1 DEF LimiterInit
  <2>2. LimiterTypeOK
    BY <1>0, <1>1 DEF LimiterInit, LimiterTypeOK
  <2>3. Len(<<>>) = 0 /\ <<>> \in Seq(Events)
    BY EmptySeq
  <2>4. Left(<<>>, 0) = Capacity
    <3>1. "tick" \in Events
      BY DEF Events
    <3>2. Left(<<>>, Len(<<>>)) = Capacity
      BY <2>3, <3>1, LeftAppend
    <3>3. QED BY <2>3, <3>2
  <2>5. QED BY <1>0, <2>1, <2>2, <2>3, <2>4 DEF LimiterInv, TightestWindow
<1>2. ASSUME LimiterInv, [LimiterNext]_limiterVars PROVE LimiterInv'
  <2> USE <1>2 DEF LimiterInv
  <2>0. \A c \in Clients : passage[c] \in Seq(Events) /\ tokens[c] \in 0 .. Capacity
    BY DEF LimiterTypeOK, Events
  <2>1. ASSUME NEW c \in Clients, Admit(c) PROVE LimiterInv'
    <3>1. tokens[c] - Cost \in 0 .. Capacity
      BY <1>0, <2>0, <2>1, CostAssumption DEF Admit, Affordable
    <3>2. LimiterTypeOK'
      BY <2>1, <3>1 DEF Admit, LimiterTypeOK
    <3>3. /\ tokens'[c] = tokens[c] + (-Cost)
          /\ passage'[c] = Append(passage[c], "request")
          /\ \A d \in Clients \ {c} : tokens'[d] = tokens[d] /\ passage'[d] = passage[d]
      BY <1>0, <2>0, <2>1, CostAssumption DEF Admit, LimiterTypeOK
    <3>4. tokens'[c] \in 0 .. Capacity /\ "request" \in Events
      BY <3>2 DEF LimiterTypeOK, Events
    <3>5. Tightest(tokens[c], passage[c])
      BY Zenon DEF TightestWindow, Tightest
    <3>6. Tightest(tokens'[c], passage'[c])
      <4>1. tokens'[c] = tokens[c] + Change("request")
        BY <3>3 DEF Change
      <4>2. Tightest(tokens'[c], Append(passage[c], "request"))
        BY <2>0, <3>4, <3>5, <4>1, WindowStep
      <4>3. QED BY <3>3, <4>2
    <3>7. TightestWindow'
      BY <3>3, <3>6 DEF TightestWindow, Tightest
    <3>8. QED BY <3>2, <3>7
  <2>2. ASSUME NEW c \in Clients, Refuse(c) PROVE LimiterInv'
    BY <2>2 DEF Refuse, limiterVars, LimiterTypeOK, TightestWindow
  <2>3. CASE Tick
    <3>1. ASSUME NEW c \in Clients
          PROVE  /\ tokens'[c] \in 0 .. Capacity
                 /\ passage'[c] = Append(passage[c], "tick")
                 /\ tokens'[c] = tokens[c] + Rate
                      \/ (tokens'[c] = Capacity /\ tokens'[c] <= tokens[c] + Rate)
      BY <1>0, <2>0, <2>3, RateAssumption DEF Tick, Refilled
    <3>2. LimiterTypeOK'
      BY <2>3, <3>1 DEF Tick, LimiterTypeOK
    <3>3. ASSUME NEW c \in Clients PROVE Tightest(tokens'[c], passage'[c])
      <4>1. Tightest(tokens[c], passage[c])
        BY Zenon DEF TightestWindow, Tightest
      <4>2. "tick" \in Events /\ Change("tick") = Rate
        BY DEF Events, Change
      <4>3. Tightest(tokens'[c], Append(passage[c], "tick"))
        BY <2>0, <3>1, <4>1, <4>2, WindowStep
      <4>4. QED BY <3>1, <4>3
    <3>4. TightestWindow'
      BY <3>3 DEF TightestWindow, Tightest
    <3>5. QED BY <3>2, <3>4
  <2>4. CASE UNCHANGED limiterVars
    BY <2>4 DEF limiterVars, LimiterTypeOK, TightestWindow
  <2>5. QED BY <2>1, <2>2, <2>3, <2>4 DEF LimiterNext
<1>3. QED BY <1>1, <1>2

\* A bucket is never overdrawn and never overflows.
THEOREM LimiterTypeCorrect == LimiterSpec => []LimiterTypeOK
BY LimiterInvariance, PTL DEF LimiterSpec, LimiterInv

\* A client gets a burst and what the rate allows in every window, and no less.
THEOREM LimiterIsExact == LimiterSpec => []TightestWindow
BY LimiterInvariance, PTL DEF LimiterSpec, LimiterInv

-----------------------------------------------------------------------------
(* Guardrails.                                                              *)

\* A check is a step of the limiter, and so is time.
LEMMA ChecksAreLimited ==
  ASSUME [Next]_vars
  PROVE  [LimiterNext]_limiterVars
BY DEF Next, CheckInput, TimePasses, Quiet, vars, LimiterNext

\* No way through check_input, and no audit write that fails, takes more or less from
\* a bucket than the limiter says.
THEOREM GuardrailsAreExact == Spec => []TightestWindow
<1>1. Init => LimiterInv
  BY LimiterInvariance DEF Init
<1>2. LimiterInv /\ [Next]_vars => LimiterInv'
  BY LimiterInvariance, ChecksAreLimited
<1>3. QED BY <1>1, <1>2, PTL DEF Spec, LimiterInv

Records == [request : Requests, client : Clients, verdict : Verdicts]

\* Who has not been checked has left nothing in the file, and AnswersAreFiled.
AuditInv ==
  /\ answer \in [Requests -> Verdicts \cup {"none", "error"}]
  /\ file \in Seq([record : Records, whole : BOOLEAN])
  /\ AnswersAreFiled

\* What was written for a request.
Traces(lines, r) == {i \in DOMAIN lines : lines[i].record.request = r}

LEMMA OneMoreWrite ==
  ASSUME AuditInv, NEW rec \in Records, NEW whole \in BOOLEAN,
         file' = Append(file, Written(rec, whole)), NEW r \in Requests
  PROVE  /\ rec.request # r => Traces(file', r) = Traces(file, r)
                               /\ \A i \in Traces(file, r) : file'[i] = file[i]
         /\ rec.request = r => Traces(file', r) = Traces(file, r) \cup {Len(file) + 1}
         /\ file'[Len(file) + 1] = Written(rec, whole)
         /\ file' \in Seq([record : Records, whole : BOOLEAN])
<1> DEFINE line == Written(rec, whole)
<1>1. line \in [record : Records, whole : BOOLEAN] /\ line.record = rec
  BY DEF Written
<1> HIDE DEF line
<1>2. /\ Len(file') = Len(file) + 1 /\ file'[Len(file) + 1] = line
      /\ \A i \in 1 .. Len(file) : file'[i] = file[i]
      /\ file' \in Seq([record : Records, whole : BOOLEAN])
  BY <1>1, AppendProperties DEF AuditInv, line
<1>3. DOMAIN file = 1 .. Len(file) /\ DOMAIN file' = 1 .. Len(file) + 1 /\ Len(file) \in Nat
  BY <1>2, LenProperties DEF AuditInv
<1>4. QED BY <1>1, <1>2, <1>3 DEF Traces, line

\* The file keeps what it has of every answer.
LEMMA FileStep == AuditInv /\ [Next]_vars => AuditInv'
<1> SUFFICES ASSUME AuditInv, [Next]_vars PROVE AuditInv'
  OBVIOUS
<1>1. ASSUME NEW r \in Requests, NEW c \in Clients, NEW verdict \in Verdicts,
             answer[r] = "none", Decide(r, c, verdict)
      PROVE  AuditInv'
  <2> DEFINE rec == [request |-> r, client |-> c, verdict |-> verdict]
             n == Len(file) + 1
  <2>1. rec \in Records /\ rec.request = r /\ rec.verdict = verdict
    BY DEF Records
  <2>2. PICK result \in {verdict, "error"} :
          /\ answer' = [answer EXCEPT ![r] = result]
          /\ \/ file' = Append(file, Written(rec, TRUE))
             \/ result = "error" /\ file' = Append(file, Written(rec, FALSE))
             \/ result = "error" /\ file' = file
    BY <1>1 DEF Decide, Audit, AuditFails
  <2>3. answer' \in [Requests -> Verdicts \cup {"none", "error"}]
    BY <2>2 DEF AuditInv
  <2>4. answer'[r] = result /\ \A q \in Requests : q # r => answer'[q] = answer[q]
    BY <2>2 DEF AuditInv
  <2>5. Traces(file, r) = {}
    BY <1>1 DEF AuditInv, AnswersAreFiled, Traces
  <2>6. file' \in Seq([record : Records, whole : BOOLEAN])
    BY <2>1, <2>2, OneMoreWrite DEF AuditInv
  <2>7. ASSUME NEW q \in Requests, q # r
        PROVE  Traces(file', q) = Traces(file, q)
               /\ \A i \in Traces(file, q) : file'[i] = file[i]
    BY <2>1, <2>2, <2>7, OneMoreWrite
  <2>8. ASSUME answer'[r] \in Verdicts
        PROVE  Traces(file', r) = {n} /\ file'[n] = Written(rec, TRUE)
    <3>1. result # "error"
      BY <2>4, <2>8 DEF Verdicts
    <3>2. QED BY <2>1, <2>2, <2>5, <3>1, OneMoreWrite
  <2>9. ASSUME NEW q \in Requests
        PROVE  /\ answer'[q] \in Verdicts =>
                    \E i \in Traces(file', q) : /\ Traces(file', q) = {i}
                                                /\ file'[i].whole
                                                /\ file'[i].record.verdict = answer'[q]
               /\ answer'[q] = "none" => Traces(file', q) = {}
    <3>1. CASE q = r
      <4>1. answer'[r] # "none"
        BY <2>4 DEF Verdicts
      <4>2. ASSUME answer'[r] \in Verdicts
            PROVE  n \in Traces(file', r) /\ Traces(file', r) = {n} /\ file'[n].whole
                   /\ file'[n].record.verdict = answer'[r]
        <5>1. result = verdict
          BY <2>4, <4>2 DEF Verdicts
        <5>2. QED BY <2>1, <2>4, <2>8, <4>2, <5>1 DEF Written
      <4>3. QED BY <3>1, <4>1, <4>2
    <3>2. CASE q # r
      <4>1. /\ answer[q] \in Verdicts =>
                 \E i \in Traces(file, q) : /\ Traces(file, q) = {i}
                                             /\ file[i].whole
                                             /\ file[i].record.verdict = answer[q]
            /\ answer[q] = "none" => Traces(file, q) = {}
        BY DEF AuditInv, AnswersAreFiled, Traces
      <4>2. QED BY <2>4, <2>7, <3>2, <4>1
    <3>3. QED BY <3>1, <3>2
  <2>10. AnswersAreFiled'
    BY <2>9 DEF AnswersAreFiled, Traces
  <2>11. QED BY <2>3, <2>6, <2>10 DEF AuditInv
<1>2. ASSUME NEW r \in Requests, NEW c \in Clients, NEW text \in Texts,
             CheckInput(r, c, text)
      PROVE  AuditInv'
  <2>1. Verdict(text) \in Verdicts /\ "rate_limited" \in Verdicts
    BY DEF Verdict, Verdicts
  <2>2. QED BY <1>1, <1>2, <2>1 DEF CheckInput
<1>3. CASE TimePasses \/ Quiet \/ UNCHANGED vars
  BY <1>3 DEF TimePasses, Quiet, vars, AuditInv, AnswersAreFiled
<1>4. QED BY <1>2, <1>3 DEF Next

\* The tail, extended and cut: what it holds and where its places were.
LEMMA KeptProperties ==
  ASSUME recent \in Seq(Records), Len(recent) <= TailSize, NEW rec \in Records
  PROVE  LET new  == Kept(Append(recent, rec))
             drop == IF Len(recent) = TailSize THEN 1 ELSE 0
             last == Len(recent) + 1 - drop
         IN  /\ new \in Seq(Records) /\ Len(new) = last /\ DOMAIN new = 1 .. last
             /\ last \in 1 .. TailSize /\ last - 1 + drop = Len(recent)
             /\ new[last] = rec
             /\ \A j \in 1 .. last - 1 : new[j] = recent[j + drop]
<1> DEFINE long == Append(recent, rec)
           n == Len(recent)
<1>1. n \in Nat /\ TailSize \in Nat \ {0}
  BY LenProperties, TailAssumption
<1>2. /\ long \in Seq(Records) /\ Len(long) = n + 1 /\ long[n + 1] = rec
      /\ \A j \in 1 .. n : long[j] = recent[j]
  BY AppendProperties
<1>3. DOMAIN long = 1 .. n + 1
  BY <1>2, LenProperties
<1> HIDE DEF long, n
<1>4. CASE n = TailSize
  <2>1. Kept(long) = SubSeq(long, 2, n + 1)
    <3>1. Len(long) > TailSize /\ Len(long) - TailSize + 1 = 2
      BY <1>1, <1>2, <1>4
    <3>2. QED BY <1>2, <3>1 DEF Kept
  <2>2. /\ SubSeq(long, 2, n + 1) \in Seq(Records)
        /\ Len(SubSeq(long, 2, n + 1)) = n
        /\ \A j \in 1 .. n : SubSeq(long, 2, n + 1)[j] = long[j + 1]
    <3>1. \A j \in 1 .. n : 2 + j - 1 = j + 1
      BY <1>1
    <3>2. 2 \in 1 .. Len(long) + 1 /\ n + 1 \in 0 .. Len(long) /\ n + 1 - 2 + 1 = n /\ 2 <= n + 2
      BY <1>1, <1>2, <1>4
    <3>3. QED BY <1>1, <1>2, <3>1, <3>2, SubSeqProperties
  <2>3. DOMAIN SubSeq(long, 2, n + 1) = 1 .. n
    BY <2>2, LenProperties
  <2>4. SubSeq(long, 2, n + 1)[n] = rec
    BY <1>1, <1>2, <1>4, <2>2
  <2>5. \A j \in 1 .. n - 1 : SubSeq(long, 2, n + 1)[j] = recent[j + 1]
    BY <1>1, <1>2, <2>2
  <2>6. QED BY <1>1, <1>4, <2>1, <2>2, <2>3, <2>4, <2>5 DEF long, n
<1>5. CASE n < TailSize
  <2>1. Kept(long) = long
    BY <1>1, <1>2, <1>5 DEF Kept
  <2>2. QED BY <1>1, <1>2, <1>3, <1>5, <2>1 DEF long, n
<1>6. QED BY <1>1, <1>4, <1>5 DEF n

\* at shows that the records kept are the end of those at the given places.
ShowsTheEnd(at, kept, lines, places) ==
  /\ at \in [DOMAIN kept -> places]
  /\ \A j \in DOMAIN kept : kept[j] = lines[at[j]].record
  /\ \A j, k \in DOMAIN kept : j < k => at[j] < at[k]
  /\ \A i \in places \ Range(at) :
       Len(kept) = TailSize /\ \A j \in DOMAIN kept : i < at[j]

TailInv ==
  /\ AuditInv
  /\ recent \in Seq(Records)
  /\ TailEndsTheFile

LEMMA WritesAreOfRequests ==
  ASSUME AuditInv
  PROVE  \A i \in DOMAIN file : file[i].record.request \in Requests
<1>1. ASSUME NEW i \in DOMAIN file
      PROVE  file[i] \in [record : Records, whole : BOOLEAN]
  BY <1>1, ElementOfSeq, LenProperties DEF AuditInv
<1>2. QED BY <1>1 DEF Records

\* A write that is not whole is that of a request which got no answer, and no answered
\* request has such a write.
LEMMA FailuresSpoil == AuditInv => SpoiltByFailures
<1> SUFFICES ASSUME AuditInv PROVE SpoiltByFailures
  OBVIOUS
<1>1. ASSUME NEW i \in DOMAIN file, ~file[i].whole
      PROVE  answer[file[i].record.request] = "error"
  <2> DEFINE q == file[i].record.request
  <2>1. q \in Requests
    BY WritesAreOfRequests
  <2>2. i \in {j \in DOMAIN file : file[j].record.request = q}
    OBVIOUS
  <2>3. answer[q] \notin Verdicts /\ answer[q] # "none"
    BY <1>1, <2>1, <2>2 DEF AuditInv, AnswersAreFiled
  <2>4. QED BY <2>1, <2>3 DEF AuditInv
<1>2. ASSUME NEW i \in Answered, ~OwnLine(i)
      PROVE  i > 1 /\ ~file[i - 1].whole /\ i - 1 \in DOMAIN file
  <2>1. i \in DOMAIN file /\ file[i].whole
    BY <1>1 DEF Answered
  <2>2. DOMAIN file = 1 .. Len(file) /\ Len(file) \in Nat
    BY LenProperties DEF AuditInv
  <2>3. QED BY <1>2, <2>1, <2>2 DEF OwnLine
<1>3. QED BY <1>1, <1>2 DEF SpoiltByFailures

\* An audited answer is one more record of an answer, and the end of the tail.
LEMMA AuditedStep ==
  ASSUME TailInv, AuditInv', NEW r \in Requests, NEW rec \in Records, rec.request = r,
         answer[r] = "none", NEW verdict \in Verdicts, Audit(rec),
         answer' = [answer EXCEPT ![r] = verdict]
  PROVE  TailInv'
<1> DEFINE n == Len(file) + 1
           drop == IF Len(recent) = TailSize THEN 1 ELSE 0
           last == Len(recent) + 1 - drop
           kept == Kept(Append(recent, rec))
<1>1. /\ kept \in Seq(Records) /\ Len(kept) = last /\ DOMAIN kept = 1 .. last
      /\ last \in 1 .. TailSize /\ last - 1 + drop = Len(recent)
      /\ kept[last] = rec
      /\ \A j \in 1 .. last - 1 : kept[j] = recent[j + drop]
  BY KeptProperties DEF TailInv, TailEndsTheFile
<1>2. recent' = kept
  BY DEF Audit
<1>3. /\ DOMAIN file = 1 .. Len(file) /\ DOMAIN file' = 1 .. n /\ Len(file) \in Nat
      /\ \A i \in 1 .. Len(file) : file'[i] = file[i]
      /\ file'[n].record = rec
  <2> DEFINE Lines == [record : Records, whole : BOOLEAN]
             line == Written(rec, TRUE)
  <2>1. file \in Seq(Lines) /\ line \in Lines /\ line.record = rec /\ file' = Append(file, line)
    BY DEF TailInv, AuditInv, Audit, Written
  <2> HIDE DEF Lines, line
  <2>2. Append(file, line) \in Seq(Lines) /\ Len(Append(file, line)) = n
        /\ Append(file, line)[n] = line
        /\ \A i \in 1 .. Len(file) : Append(file, line)[i] = file[i]
    BY <2>1, AppendProperties
  <2>3. QED BY <2>1, <2>2, LenProperties
<1>4. \A i \in DOMAIN file : file[i].record.request # r
  BY DEF TailInv, AuditInv, AnswersAreFiled
<1>5. \A q \in Requests : q # r => answer'[q] = answer[q]
  BY DEF TailInv, AuditInv
<1>6. answer'[r] = verdict /\ verdict # "error"
  BY DEF TailInv, AuditInv, Verdicts
<1>7. \A i \in DOMAIN file : file[i].record.request \in Requests
  BY WritesAreOfRequests DEF TailInv
<1>8. Answered' = Answered \cup {n}
  BY <1>3, <1>4, <1>5, <1>6, <1>7 DEF Answered
<1>9. PICK at : ShowsTheEnd(at, recent, file, Answered)
  BY DEF TailInv, TailEndsTheFile, ShowsTheEnd
<1>10. DOMAIN recent = 1 .. Len(recent) /\ Len(recent) \in Nat /\ Len(recent) <= TailSize
       /\ TailSize \in Nat
  BY LenProperties, TailAssumption DEF TailInv, TailEndsTheFile
<1>11. Answered \subseteq 1 .. Len(file) /\ n = Len(file) + 1
  BY <1>3 DEF Answered
<1> DEFINE now == [j \in 1 .. last |-> IF j = last THEN n ELSE at[j + drop]]
<1>12. drop \in {0, 1} /\ (drop = 1 => Len(recent) = TailSize)
       /\ (drop = 0 => Len(recent) # TailSize)
  OBVIOUS
<1> HIDE DEF drop, last, kept, n
<1> DEFINE m == Len(recent)
<1>sizes. last \in Nat /\ drop \in Nat /\ m \in Nat /\ last - 1 + drop = m
  <2>1. m \in Nat
    BY <1>10
  <2>2. drop \in Nat
    BY <1>12
  <2>3. last \in 1 .. TailSize
    BY <1>1
  <2>4. last - 1 + drop = m
    BY <1>1
  <2>5. QED BY <1>10, <2>1, <2>2, <2>3, <2>4
<1> HIDE DEF m
<1>13. \A j \in 1 .. last - 1 : j + drop \in 1 .. Len(recent) /\ at[j + drop] \in Answered
  <2>1. ASSUME NEW j \in 1 .. last - 1 PROVE j + drop \in 1 .. Len(recent)
    <3>1. j + drop \in 1 .. m
      BY <1>sizes
    <3>2. QED BY <3>1 DEF m
  <2>2. \A j \in 1 .. Len(recent) : at[j] \in Answered
    BY <1>9, <1>10 DEF ShowsTheEnd
  <2>3. QED BY <2>1, <2>2
<1>14. now \in [DOMAIN kept -> Answered \cup {n}]
  <2>1. ASSUME NEW j \in 1 .. last PROVE now[j] \in Answered \cup {n}
    <3>1. CASE j = last
      BY <3>1
    <3>2. CASE j # last
      <4>1. j \in 1 .. last - 1
        BY <1>1, <1>10, <3>2
      <4>2. now[j] = at[j + drop]
        BY <3>2
      <4>3. QED BY <1>13, <4>1, <4>2
    <3>3. QED BY <3>1, <3>2
  <2>2. QED BY <1>1, <2>1
<1>15. \A j \in DOMAIN kept : kept[j] = file'[now[j]].record
  <2>1. ASSUME NEW j \in 1 .. last - 1 PROVE kept[j] = file'[now[j]].record
    <3>0. j \in 1 .. last /\ j # last
      BY <1>1, <1>10, <2>1
    <3>1. now[j] = at[j + drop] /\ at[j + drop] \in 1 .. Len(file)
      BY <1>11, <1>13, <2>1, <3>0
    <3>2. kept[j] = recent[j + drop] /\ recent[j + drop] = file[at[j + drop]].record
      BY <1>1, <1>9, <1>10, <1>13, <2>1 DEF ShowsTheEnd
    <3>3. QED BY <1>3, <3>1, <3>2
  <2>2. now[last] = n /\ kept[last] = file'[n].record
    BY <1>1, <1>3, <1>10 DEF n
  <2>3. ASSUME NEW j \in 1 .. last, j # last PROVE j \in 1 .. last - 1
    BY <1>1, <1>10, <2>3
  <2> HIDE DEF now
  <2>4. QED BY <1>1, <2>1, <2>2, <2>3
<1>16. \A j, k \in DOMAIN kept : j < k => now[j] < now[k]
  <2> SUFFICES ASSUME NEW j \in 1 .. last, NEW k \in 1 .. last, j < k
               PROVE  now[j] < now[k]
    BY <1>1
  <2>1. j \in 1 .. last - 1 /\ now[j] = at[j + drop]
    BY <1>1, <1>10
  <2>2. at[j + drop] \in 1 .. Len(file)
    BY <1>11, <1>13, <2>1
  <2>3. CASE k = last
    BY <1>3, <1>11, <2>1, <2>2, <2>3
  <2>4. CASE k # last
    <3>1. k \in 1 .. last - 1 /\ now[k] = at[k + drop]
      BY <1>1, <1>10, <2>4
    <3>2. j + drop < k + drop
      BY <1>sizes
    <3>3. at[j + drop] < at[k + drop]
      <4>1. \A x, y \in 1 .. Len(recent) : x < y => at[x] < at[y]
        BY <1>9, <1>10 DEF ShowsTheEnd
      <4>2. QED BY <1>13, <2>1, <3>1, <3>2, <4>1
    <3>4. QED BY <2>1, <3>1, <3>3
  <2>5. QED BY <2>3, <2>4
<1>17. ASSUME NEW i \in (Answered \cup {n}) \ Range(now)
       PROVE  Len(kept) = TailSize /\ \A j \in DOMAIN kept : i < now[j]
  <2>1. now[last] = n /\ last \in DOMAIN now /\ DOMAIN now = 1 .. last
    BY <1>1, <1>10
  <2>2. i # n /\ \A j \in 1 .. last : now[j] # i
    BY <2>1 DEF Range
  <2>3. i \in Answered /\ i \in 1 .. Len(file)
    BY <1>11, <2>2
  <2>4. CASE i \in Range(at)
    <3>1. PICK k \in 1 .. Len(recent) : at[k] = i
      BY <1>9, <1>10, <2>4 DEF ShowsTheEnd, Range
    <3>2. drop = 1 /\ k = 1
      <4>1. ASSUME k - drop \in 1 .. last - 1 PROVE FALSE
        <5> DEFINE j == k - drop
        <5>1. j \in 1 .. last /\ j # last /\ j + drop = k
          BY <1>sizes, <3>1, <4>1
        <5>2. now[j] = at[k]
          <6>1. now[j] = at[j + drop]
            <7> HIDE DEF j
            <7>1. QED BY <5>1
          <6>2. QED BY <5>1, <6>1
        <5>3. QED BY <2>2, <3>1, <5>1, <5>2
      <4>2. QED BY <1>1, <1>10, <1>12, <4>1
    <3>3. Len(kept) = TailSize
      BY <1>1, <1>10, <1>12, <3>2
    <3>4. ASSUME NEW j \in 1 .. last PROVE i < now[j]
      <4>1. CASE j = last
        BY <1>3, <1>11, <2>1, <2>3, <4>1
      <4>2. CASE j # last
        <5>1. now[j] = at[j + 1] /\ j + 1 \in 1 .. Len(recent)
          BY <1>1, <1>10, <3>2, <4>2
        <5>2. at[1] < at[j + 1]
          <6>1. \A x, y \in 1 .. Len(recent) : x < y => at[x] < at[y]
            BY <1>9, <1>10 DEF ShowsTheEnd
          <6>2. 1 \in 1 .. Len(recent) /\ 1 < j + 1
            BY <3>1, <3>2, <1>1, <1>10
          <6>3. QED BY <5>1, <6>1, <6>2
        <5>3. QED BY <3>1, <3>2, <5>1, <5>2
      <4>3. QED BY <4>1, <4>2
    <3>5. QED BY <1>1, <3>3, <3>4
  <2>5. CASE i \notin Range(at)
    <3>1. Len(recent) = TailSize /\ \A j \in 1 .. Len(recent) : i < at[j]
      BY <1>9, <1>10, <2>3, <2>5 DEF ShowsTheEnd
    <3>2. Len(kept) = TailSize
      BY <1>1, <1>10, <1>12, <3>1
    <3>3. ASSUME NEW j \in 1 .. last PROVE i < now[j]
      <4>1. CASE j = last
        BY <1>3, <1>11, <2>1, <2>3, <4>1
      <4>2. CASE j # last
        <5>1. now[j] = at[j + drop] /\ j + drop \in 1 .. Len(recent)
          BY <1>1, <1>10, <1>13, <4>2
        <5>2. QED BY <3>1, <5>1
      <4>3. QED BY <4>1, <4>2
    <3>4. QED BY <1>1, <3>2, <3>3
  <2>6. QED BY <2>4, <2>5
<1> HIDE DEF now
<1>18. ShowsTheEnd(now, kept, file', Answered')
  BY <1>8, <1>14, <1>15, <1>16, <1>17 DEF ShowsTheEnd
<1>19. TailEndsTheFile'
  <2>1. Len(recent') <= TailSize
    BY <1>1, <1>2, <1>10
  <2>2. QED BY <1>2, <1>18, <2>1 DEF TailEndsTheFile, ShowsTheEnd
<1>20. QED BY <1>1, <1>2, <1>19 DEF TailInv

\* A write that fails changes neither the tail nor what it shows.
LEMMA UnauditedStep ==
  ASSUME TailInv, AuditInv', NEW r \in Requests, NEW rec \in Records, rec.request = r,
         answer[r] = "none", AuditFails(rec), answer' = [answer EXCEPT ![r] = "error"]
  PROVE  TailInv'
<1>1. \A i \in DOMAIN file : file[i].record.request # r
  BY DEF TailInv, AuditInv, AnswersAreFiled
<1>2. answer'[r] = "error" /\ \A q \in Requests : q # r => answer'[q] = answer[q]
  BY DEF TailInv, AuditInv
<1>3. \A i \in DOMAIN file : file[i].record.request \in Requests
  BY WritesAreOfRequests DEF TailInv
<1>4. /\ \A i \in DOMAIN file : i \in DOMAIN file' /\ file'[i] = file[i]
      /\ \A i \in DOMAIN file' : i \in DOMAIN file \/ file'[i].record.request = r
  <2>1. CASE file' = file
    BY <2>1
  <2>2. ASSUME NEW whole \in BOOLEAN, file' = Append(file, Written(rec, whole))
        PROVE  <1>4
    <3> DEFINE Lines == [record : Records, whole : BOOLEAN]
               line == Written(rec, whole)
    <3>1. file \in Seq(Lines) /\ line \in Lines /\ line.record = rec
          /\ file' = Append(file, line)
      BY <2>2 DEF TailInv, AuditInv, Written
    <3> HIDE DEF Lines, line
    <3>2. /\ Append(file, line) \in Seq(Lines) /\ Len(Append(file, line)) = Len(file) + 1
          /\ Append(file, line)[Len(file) + 1] = line
          /\ \A i \in 1 .. Len(file) : Append(file, line)[i] = file[i]
      BY <3>1, AppendProperties
    <3>3. /\ DOMAIN file = 1 .. Len(file) /\ Len(file) \in Nat
          /\ DOMAIN Append(file, line) = 1 .. Len(file) + 1
      BY <3>1, <3>2, LenProperties
    <3>4. QED BY <3>1, <3>2, <3>3
  <2>3. QED BY <2>1, <2>2 DEF AuditFails
<1>5. Answered' = Answered
  BY <1>1, <1>2, <1>3, <1>4 DEF Answered
<1>6. recent' = recent
  BY DEF AuditFails
<1>7. PICK at : ShowsTheEnd(at, recent, file, Answered)
  BY DEF TailInv, TailEndsTheFile, ShowsTheEnd
<1>8. \A i \in Answered : i \in DOMAIN file
  BY DEF Answered
<1>9. ShowsTheEnd(at, recent, file', Answered)
  BY <1>4, <1>7, <1>8 DEF ShowsTheEnd
<1>10. TailEndsTheFile'
  BY <1>5, <1>6, <1>9 DEF TailInv, TailEndsTheFile, ShowsTheEnd
<1>11. QED BY <1>6, <1>10 DEF TailInv

\* The record of every answer that was given is in the audit file, once, whole and as it was
\* given, spoilt at most by the failed write before it, and the memory is the end of
\* what was answered, whatever writes have failed.
THEOREM GuardrailsAudit == Spec => []AnswersAreAudited
<1>1. Init => TailInv
  <2> SUFFICES ASSUME Init PROVE TailInv
    OBVIOUS
  <2>1. AuditInv /\ recent \in Seq(Records)
    BY EmptySeq DEF Init, AuditInv, AnswersAreFiled, Verdicts
  <2>2. recent = <<>> /\ file = <<>> /\ Len(<<>>) = 0 /\ DOMAIN <<>> = {}
    BY DEF Init
  <2>3. Answered = {}
    BY <2>2 DEF Answered
  <2>4. TailEndsTheFile
    <3>1. Len(recent) <= TailSize
      BY <2>2, TailAssumption
    <3>2. recent \in [DOMAIN recent -> Answered]
      BY <2>2
    <3>3. QED BY <2>2, <2>3, <3>1, <3>2 DEF TailEndsTheFile
  <2>5. QED BY <2>1, <2>4 DEF TailInv
<1>2. TailInv /\ [Next]_vars => TailInv'
  <2> SUFFICES ASSUME TailInv, [Next]_vars PROVE TailInv'
    OBVIOUS
  <2>1. AuditInv'
    BY FileStep DEF TailInv
  <2>2. ASSUME NEW r \in Requests, NEW c \in Clients, NEW verdict \in Verdicts,
               answer[r] = "none", Decide(r, c, verdict)
        PROVE  TailInv'
    <3> DEFINE rec == [request |-> r, client |-> c, verdict |-> verdict]
    <3>1. rec \in Records /\ rec.request = r
      BY DEF Records
    <3>2. \/ Audit(rec) /\ answer' = [answer EXCEPT ![r] = verdict]
          \/ AuditFails(rec) /\ answer' = [answer EXCEPT ![r] = "error"]
      BY <2>2 DEF Decide
    <3> HIDE DEF rec
    <3>3. QED BY <2>1, <2>2, <3>1, <3>2, AuditedStep, UnauditedStep
  <2>3. ASSUME NEW r \in Requests, NEW c \in Clients, NEW text \in Texts,
               CheckInput(r, c, text)
        PROVE  TailInv'
    <3>1. Verdict(text) \in Verdicts /\ "rate_limited" \in Verdicts
      BY DEF Verdict, Verdicts
    <3>2. QED BY <2>2, <2>3, <3>1 DEF CheckInput
  <2>4. CASE TimePasses \/ Quiet \/ UNCHANGED vars
    BY <2>1, <2>4 DEF TimePasses, Quiet, vars, TailInv, TailEndsTheFile, Answered
  <2>5. QED BY <2>3, <2>4 DEF Next
<1>3. TailInv => AnswersAreAudited
  BY FailuresSpoil DEF TailInv, AuditInv, AnswersAreAudited
<1>4. QED BY <1>1, <1>2, <1>3, PTL DEF Spec
=============================================================================
