------------------------ MODULE ProviderRouter_proofs ------------------------
(***************************************************************************)
(* The safety properties of ProviderRouter, for any providers, fallback    *)
(* chain, threshold and recovery time and any number of executions.        *)
(***************************************************************************)
EXTENDS ProviderRouter, Lists_proofs

\* Whoever is called or has served belongs to the execution's chain.
CalledIsNamed ==
  \A e \in Executions : status[e] \in {"calling", "served"} =>
    at[e] \in Named(head[e], Registered(head[e]))

IInv == TypeOK /\ BreakerConsistent /\ CalledIsNamed /\ FailoverInOrder

-----------------------------------------------------------------------------
(* The chain.                                                               *)

\* The candidates are names, and the registered ones providers.
LEMMA CandidatesProperties ==
  ASSUME NEW h \in Names
  PROVE  /\ Candidates(h) \in Seq(Names)
         /\ Len(Candidates(h)) \in Nat
         /\ Registered(h) \in SUBSET (0 .. Len(Candidates(h)))
         /\ \A i \in Registered(h) : Candidates(h)[i] \in Providers
<1>1. <<h>> \in Seq(Names) /\ <<Mock>> \in Seq(Names) /\ Fallback \in Seq(Names)
  BY NamesAssumption
<1>2. Candidates(h) \in Seq(Names)
  BY <1>1, ConcatProperties DEF Candidates
<1>3. QED BY <1>2, LenProperties DEF Registered

\* The place of a provider of the chain is the first one that names it.
LEMMA PlaceProperties ==
  ASSUME NEW h \in Names, NEW p \in Named(h, Registered(h))
  PROVE  /\ Place(h, p) \in Registered(h)
         /\ Candidates(h)[Place(h, p)] = p
         /\ \A i \in Registered(h) : Candidates(h)[i] = p => Place(h, p) <= i
<1> DEFINE I == {i \in Registered(h) : Candidates(h)[i] = p}
<1>1. I \in SUBSET (0 .. Len(Candidates(h))) /\ Len(Candidates(h)) \in Nat /\ I # {}
  BY CandidatesProperties DEF Named
<1>2. Min(I) \in I /\ \A i \in I : Min(I) <= i
  BY <1>1, MinProperties
<1>3. QED BY <1>2 DEF Place

\* The next provider to be called is untried, its circuit is not open, and it is
\* named there for the first time.
LEMMA NextProperties ==
  ASSUME NEW h \in Names, NEW c, Admitted(h, c) # {}
  PROVE  LET next == Min(Admitted(h, c))
             p == Candidates(h)[next]
         IN  /\ next \in Left(h, c)
             /\ next \in Registered(h) /\ p \in Named(h, Registered(h))
             /\ ~IsOpen(p)
             /\ Place(h, p) = next
<1> DEFINE next == Min(Admitted(h, c))
           p == Candidates(h)[next]
<1>1. Admitted(h, c) \in SUBSET (0 .. Len(Candidates(h))) /\ Len(Candidates(h)) \in Nat
  BY CandidatesProperties DEF Admitted, Left
<1>2. next \in Admitted(h, c) /\ \A i \in Admitted(h, c) : next <= i
  BY <1>1, MinProperties
<1> HIDE DEF next
<1>3. next \in Left(h, c) /\ next \in Registered(h) /\ ~IsOpen(p)
      /\ p \in Named(h, Registered(h))
  BY <1>2 DEF Admitted, Left, Named
<1>4. Place(h, p) = next
  <2>1. /\ Place(h, p) \in Registered(h) /\ Candidates(h)[Place(h, p)] = p
        /\ Place(h, p) <= next
    BY <1>3, PlaceProperties
  <2>2. Place(h, p) \in Admitted(h, c)
    BY <1>2, <2>1 DEF Admitted, Left
  <2>3. next <= Place(h, p)
    BY <1>2, <2>2
  <2>4. next \in Int /\ Place(h, p) \in Int
    BY <1>1, <1>2, <2>2
  <2>5. QED BY <2>1, <2>3, <2>4
<1>5. QED BY <1>3, <1>4 DEF next

\* A chain that has been walked up to place n.
WalkedTo(h, c, n) ==
  \A p \in Named(h, Registered(h)) :
    IF Place(h, p) <= n THEN c[p] \in {"skipped", "failed"} ELSE c[p] = "untried"

\* The loop body keeps the order: from a chain walked up to n it goes on behind n.
LEMMA WalkOn ==
  ASSUME NEW h \in Names, NEW c \in [Providers -> Outcomes], NEW n \in Nat,
         WalkedTo(h, c, n), Admitted(h, c) # {}
  PROVE  LET next == Min(Admitted(h, c))
             d == Skipping(c, Named(h, {i \in Left(h, c) : i < next}))
         IN  \A p \in Named(h, Registered(h)) :
               p # Candidates(h)[next] =>
                 IF Place(h, p) < next THEN d[p] \in {"skipped", "failed"}
                                       ELSE d[p] = "untried"
<1> DEFINE next == Min(Admitted(h, c))
           passed == {i \in Left(h, c) : i < next}
           d == Skipping(c, Named(h, passed))
<1>1. /\ next \in Left(h, c) /\ next \in Registered(h)
      /\ Candidates(h)[next] \in Named(h, Registered(h))
      /\ Place(h, Candidates(h)[next]) = next
  BY NextProperties
<1>2. Registered(h) \in SUBSET (0 .. Len(Candidates(h))) /\ Len(Candidates(h)) \in Nat
  BY CandidatesProperties
<1>3. next \in Nat /\ n < next
  <2>1. next \in Nat
    BY <1>1, <1>2
  <2>2. c[Candidates(h)[next]] = "untried"
    BY <1>1 DEF Left
  <2> HIDE DEF next
  <2>3. QED BY <1>1, <2>1, <2>2 DEF WalkedTo
<1> HIDE DEF next
<1>4. ASSUME NEW p \in Named(h, Registered(h)), p # Candidates(h)[next]
      PROVE  IF Place(h, p) < next THEN d[p] \in {"skipped", "failed"}
                                   ELSE d[p] = "untried"
  <2> DEFINE k == Place(h, p)
  <2>1. /\ k \in Registered(h) /\ Candidates(h)[k] = p
        /\ \A i \in Registered(h) : Candidates(h)[i] = p => k <= i
    BY PlaceProperties
  <2>2. k \in Nat /\ p \in Providers
    BY <1>2, <2>1, CandidatesProperties
  <2> HIDE DEF k
  <2>3. CASE k < next
    <3>1. CASE c[p] = "untried"
      <4>1. k \in passed
        BY <2>1, <2>3, <3>1 DEF Left
      <4>2. p \in Named(h, passed)
        BY <2>1, <4>1 DEF Named
      <4>3. QED BY <2>2, <2>3, <4>2 DEF Skipping, k
    <3>2. CASE c[p] # "untried"
      <4>1. c[p] \in {"skipped", "failed"}
        BY <3>2 DEF WalkedTo
      <4>2. QED BY <2>2, <2>3, <4>1 DEF Skipping, k
    <3>3. QED BY <3>1, <3>2
  <2>4. CASE ~(k < next)
    <3>1. c[p] = "untried"
      BY <1>3, <2>2, <2>4 DEF WalkedTo, k
    <3>2. p \notin Named(h, passed)
      <4>1. \A i \in passed : i \in Registered(h) /\ i < next /\ i \in Nat
        BY <1>2 DEF Left
      <4>2. \A i \in passed : Candidates(h)[i] # p
        BY <1>3, <2>1, <2>2, <2>4, <4>1
      <4>3. QED BY <4>2 DEF Named
    <3>3. QED BY <2>2, <2>4, <3>1, <3>2 DEF Skipping, k
  <2>5. QED BY <2>3, <2>4
<1>5. QED BY <1>4 DEF next

\* What FailoverInOrder and CalledIsNamed say of one execution.
Truthful(h, st, a, c) ==
  /\ st \in {"calling", "served"} => a \in Named(h, Registered(h))
  /\ \A p \in Named(h, Registered(h)) :
       /\ st = "exhausted" => c[p] \in {"skipped", "failed"}
       /\ (st \in {"calling", "served"} /\ p # a) =>
            IF Place(h, p) < Place(h, a) THEN c[p] \in {"skipped", "failed"}
                                         ELSE c[p] = "untried"

\* The two invariants say this of every execution.
LEMMA TruthfulIsInvariant ==
  (CalledIsNamed /\ FailoverInOrder) <=>
    \A e \in Executions : Truthful(head[e], status[e], at[e], chain[e])
BY DEF CalledIsNamed, FailoverInOrder, Truthful

\* The loop leaves the execution with a truthful chain, and others alone.
LEMMA ProceedTruthfully ==
  ASSUME TypeOK, NEW e \in Executions, NEW h \in Names,
         NEW c \in [Providers -> Outcomes], NEW n \in Nat, WalkedTo(h, c, n),
         Proceed(e, h, c)
  PROVE  /\ status' \in [Executions -> {"idle", "calling", "served", "exhausted"}]
         /\ at' \in [Executions -> Providers \cup {None}]
         /\ chain' \in [Executions -> [Providers -> Outcomes]]
         /\ Truthful(h, status'[e], at'[e], chain'[e])
         /\ \A f \in Executions \ {e} :
              status'[f] = status[f] /\ at'[f] = at[f] /\ chain'[f] = chain[f]
<1>1. \A P : Skipping(c, P) \in [Providers -> Outcomes]
  BY DEF Skipping, Outcomes
<1>2. CASE CallNext(e, h, c)
  <2> DEFINE next == Min(Admitted(h, c))
             d == Skipping(c, Named(h, {i \in Left(h, c) : i < next}))
  <2>1. Admitted(h, c) # {}
    BY <1>2 DEF CallNext
  <2>2. /\ status' = [status EXCEPT ![e] = "calling"]
        /\ at' = [at EXCEPT ![e] = Candidates(h)[next]]
        /\ chain' = [chain EXCEPT ![e] = d]
    BY <1>2 DEF CallNext
  <2>3. /\ next \in Registered(h)
        /\ Candidates(h)[next] \in Named(h, Registered(h))
        /\ Place(h, Candidates(h)[next]) = next
    BY <2>1, NextProperties
  <2>4. Candidates(h)[next] \in Providers
    BY <2>3, CandidatesProperties
  <2>5. \A p \in Named(h, Registered(h)) :
          p # Candidates(h)[next] =>
            IF Place(h, p) < next THEN d[p] \in {"skipped", "failed"}
                                  ELSE d[p] = "untried"
    BY <2>1, WalkOn
  <2>6. d \in [Providers -> Outcomes]
    BY <1>1
  <2> HIDE DEF d, next
  <2>7. Truthful(h, "calling", Candidates(h)[next], d)
    BY <2>3, <2>5 DEF Truthful
  <2>8. QED BY <2>2, <2>4, <2>6, <2>7 DEF TypeOK
<1>3. CASE GiveUp(e, h, c)
  <2> DEFINE d == Skipping(c, Named(h, Left(h, c)))
  <2>1. /\ status' = [status EXCEPT ![e] = "exhausted"]
        /\ at' = [at EXCEPT ![e] = None]
        /\ chain' = [chain EXCEPT ![e] = d]
    BY <1>3 DEF GiveUp
  <2>2. ASSUME NEW p \in Named(h, Registered(h)) PROVE d[p] \in {"skipped", "failed"}
    <3>1. PICK i \in Registered(h) : Candidates(h)[i] = p
      BY DEF Named
    <3>2. p \in Providers
      BY <3>1, CandidatesProperties
    <3>3. CASE c[p] = "untried"
      BY <3>1, <3>2, <3>3 DEF Left, Named, Skipping
    <3>4. CASE c[p] # "untried"
      BY <3>2, <3>4 DEF WalkedTo, Skipping
    <3>5. QED BY <3>3, <3>4
  <2>3. d \in [Providers -> Outcomes]
    BY <1>1
  <2> HIDE DEF d
  <2>4. Truthful(h, "exhausted", None, d)
    BY <2>2 DEF Truthful
  <2>5. QED BY <2>1, <2>3, <2>4 DEF TypeOK
<1>4. QED BY <1>2, <1>3 DEF Proceed

-----------------------------------------------------------------------------
(* The breaker.                                                             *)

\* The breaker's part of TypeOK.
BreakerTyped ==
  /\ failures \in [Providers -> 0 .. Threshold]
  /\ openFor \in [Providers -> (0 .. Recovery) \cup {None}]

\* record_success resets opened_at and failures together.
LEMMA SuccessKeepsBreaker ==
  ASSUME BreakerTyped, BreakerConsistent, NEW p \in Providers, RecordSuccess(p)
  PROVE  BreakerTyped' /\ BreakerConsistent'
BY ThresholdAssumption DEF BreakerTyped, BreakerConsistent, RecordSuccess

\* record_failure sets opened_at in the step in which failures reach the threshold.
LEMMA FailureKeepsBreaker ==
  ASSUME BreakerTyped, BreakerConsistent, NEW p \in Providers, RecordFailure(p)
  PROVE  BreakerTyped' /\ BreakerConsistent'
BY ThresholdAssumption, RecoveryAssumption, NoneAssumption
   DEF BreakerTyped, BreakerConsistent, RecordFailure, Counted

\* Time opens and closes no circuit.
LEMMA TickKeepsBreaker ==
  ASSUME BreakerTyped, BreakerConsistent, Tick
  PROVE  BreakerTyped' /\ BreakerConsistent'
BY RecoveryAssumption, NoneAssumption DEF BreakerTyped, BreakerConsistent, Tick

-----------------------------------------------------------------------------
(* The steps.                                                               *)

\* An execution that starts has walked nowhere yet.
LEMMA ExecuteProceeds ==
  ASSUME TypeOK, NEW e \in Executions, NEW preferred \in Names \cup {None},
         Execute(e, preferred)
  PROVE  \E h \in Names : /\ head' = [head EXCEPT ![e] = h]
                          /\ WalkedTo(h, NoneTried, 0)
                          /\ Proceed(e, h, NoneTried)
<1> DEFINE h == IF preferred = None THEN default ELSE preferred
<1>1. h \in Names
  BY ProvidersAssumption DEF TypeOK
<1>2. head' = [head EXCEPT ![e] = h] /\ Proceed(e, h, NoneTried)
  BY DEF Execute
<1> HIDE DEF h
<1>3. ASSUME NEW p \in Named(h, Registered(h))
      PROVE  ~(Place(h, p) <= 0) /\ NoneTried[p] = "untried"
  <2>1. Place(h, p) \in Registered(h) /\ Candidates(h)[Place(h, p)] = p
    BY <1>1, PlaceProperties
  <2>2. Candidates(h) \in Seq(Names)
    BY <1>1, CandidatesProperties
  <2>3. Place(h, p) \in 1 .. Len(Candidates(h)) /\ Len(Candidates(h)) \in Nat
    BY <2>1, <2>2, LenProperties DEF Registered
  <2>4. p \in Providers
    BY <1>1, <2>1, CandidatesProperties
  <2>5. QED BY <2>3, <2>4 DEF NoneTried
<1>4. QED BY <1>1, <1>2, <1>3 DEF WalkedTo

\* An execution whose provider failed has walked up to it.
LEMMA FailProceeds ==
  ASSUME TypeOK, CalledIsNamed, FailoverInOrder, NEW e \in Executions, Fail(e)
  PROVE  LET c == [chain[e] EXCEPT ![at[e]] = "failed"]
             n == Place(head[e], at[e])
         IN  /\ at[e] \in Providers
             /\ c \in [Providers -> Outcomes]
             /\ n \in Nat
             /\ WalkedTo(head[e], c, n)
             /\ Proceed(e, head[e], c)
<1> DEFINE h == head[e]
           c == [chain[e] EXCEPT ![at[e]] = "failed"]
           n == Place(h, at[e])
<1>1. status[e] = "calling" /\ Proceed(e, h, c)
  BY DEF Fail
<1>2. h \in Names /\ chain[e] \in [Providers -> Outcomes]
  BY DEF TypeOK
<1>3. at[e] \in Named(h, Registered(h))
  BY <1>1 DEF CalledIsNamed
<1>4. n \in Registered(h) /\ Candidates(h)[n] = at[e]
  BY <1>2, <1>3, PlaceProperties
<1>5. n \in Nat /\ at[e] \in Providers
  BY <1>2, <1>4, CandidatesProperties
<1>6. ASSUME NEW p \in Named(h, Registered(h))
      PROVE  IF Place(h, p) <= n THEN c[p] \in {"skipped", "failed"}
                                 ELSE c[p] = "untried"
  <2>1. /\ Place(h, p) \in Registered(h) /\ Candidates(h)[Place(h, p)] = p
    BY <1>2, PlaceProperties
  <2>2. Place(h, p) \in Nat /\ p \in Providers
    BY <1>2, <2>1, CandidatesProperties
  <2>3. CASE p = at[e]
    BY <1>2, <1>5, <2>2, <2>3
  <2>4. CASE p # at[e]
    <3>1. IF Place(h, p) < n THEN chain[e][p] \in {"skipped", "failed"}
                             ELSE chain[e][p] = "untried"
      BY <1>1, <2>4 DEF FailoverInOrder
    <3>2. Place(h, p) # n
      BY <1>4, <2>1, <2>4
    <3>3. c[p] = chain[e][p]
      BY <1>2, <2>2, <2>4
    <3> HIDE DEF n, c
    <3>4. QED BY <1>5, <2>2, <3>1, <3>2, <3>3
  <2>5. QED BY <2>3, <2>4
<1>7. c \in [Providers -> Outcomes]
  BY <1>2 DEF Outcomes
<1>8. QED BY <1>1, <1>5, <1>6, <1>7 DEF WalkedTo

\* Every step keeps the breakers consistent and every chain truthful.
LEMMA Inductive == IInv /\ [Next]_vars => IInv'
<1> SUFFICES ASSUME IInv, [Next]_vars PROVE IInv'
  OBVIOUS
<1> USE DEF IInv
<1>0. BreakerTyped /\ \A e \in Executions : Truthful(head[e], status[e], at[e], chain[e])
  BY TruthfulIsInvariant DEF TypeOK, BreakerTyped
<1> DEFINE Walks == \A e \in Executions : Truthful(head[e], status[e], at[e], chain[e])
           Typed == /\ default \in Providers
                    /\ status \in [Executions -> {"idle", "calling", "served", "exhausted"}]
                    /\ head \in [Executions -> Names]
                    /\ at \in [Executions -> Providers \cup {None}]
                    /\ chain \in [Executions -> [Providers -> Outcomes]]
<1>1. ASSUME BreakerTyped', BreakerConsistent', Typed', Walks' PROVE IInv'
  BY <1>1 DEF TypeOK, BreakerTyped, CalledIsNamed, FailoverInOrder, Truthful
<1>2. ASSUME UNCHANGED breaker PROVE BreakerTyped' /\ BreakerConsistent'
  BY <1>0, <1>2 DEF breaker, BreakerTyped, BreakerConsistent
<1>3. ASSUME UNCHANGED <<status, head, at, chain>>, default' \in Providers
      PROVE  Typed' /\ Walks'
  BY <1>0, <1>3 DEF TypeOK
<1>4. ASSUME NEW name \in Names, SetDefault(name) PROVE IInv'
  <2>1. UNCHANGED breaker /\ UNCHANGED <<status, head, at, chain>> /\ default' \in Providers
    BY <1>4 DEF SetDefault, breaker
  <2>2. QED BY <1>1, <1>2, <1>3, <2>1
<1>5. ASSUME NEW e \in Executions, NEW preferred \in Names \cup {None},
             Execute(e, preferred)
      PROVE  IInv'
  <2>1. PICK h \in Names : /\ head' = [head EXCEPT ![e] = h]
                           /\ WalkedTo(h, NoneTried, 0)
                           /\ Proceed(e, h, NoneTried)
    BY <1>5, ExecuteProceeds
  <2>2. NoneTried \in [Providers -> Outcomes]
    BY DEF NoneTried, Outcomes
  <2>3. /\ status' \in [Executions -> {"idle", "calling", "served", "exhausted"}]
        /\ at' \in [Executions -> Providers \cup {None}]
        /\ chain' \in [Executions -> [Providers -> Outcomes]]
        /\ Truthful(h, status'[e], at'[e], chain'[e])
        /\ \A f \in Executions \ {e} :
             status'[f] = status[f] /\ at'[f] = at[f] /\ chain'[f] = chain[f]
    BY <2>1, <2>2, ProceedTruthfully
  <2>4. default' = default /\ UNCHANGED breaker
    BY <1>5 DEF Execute, breaker
  <2>5. Typed'
    BY <2>1, <2>3, <2>4 DEF TypeOK
  <2>6. Walks'
    BY <1>0, <2>1, <2>3 DEF TypeOK
  <2>7. QED BY <1>1, <1>2, <2>4, <2>5, <2>6
<1>6. ASSUME NEW e \in Executions, Succeed(e) PROVE IInv'
  <2>1. status[e] = "calling" /\ at[e] \in Named(head[e], Registered(head[e]))
    BY <1>6 DEF Succeed, CalledIsNamed
  <2>2. at[e] \in Providers
    BY <2>1, CandidatesProperties DEF Named, TypeOK
  <2>3. BreakerTyped' /\ BreakerConsistent'
    BY <1>0, <1>6, <2>2, SuccessKeepsBreaker DEF Succeed
  <2>4. Typed'
    BY <1>6, <2>2 DEF Succeed, TypeOK, Outcomes
  <2>5. Truthful(head[e], status[e], at[e], chain[e])
    BY <1>0
  <2>6. /\ status' = [status EXCEPT ![e] = "served"] /\ head' = head /\ at' = at
        /\ chain' = [chain EXCEPT ![e][at[e]] = "success"]
    BY <1>6 DEF Succeed
  <2>7. Truthful(head[e], "served", at[e], chain'[e])
    <3>1. \A p \in Named(head[e], Registered(head[e])) :
             p # at[e] => chain'[e][p] = chain[e][p]
      BY <2>6 DEF TypeOK
    <3>2. QED BY <2>1, <2>5, <3>1 DEF Truthful
  <2>8. Walks'
    BY <1>0, <2>6, <2>7 DEF TypeOK
  <2>9. QED BY <1>1, <2>3, <2>4, <2>8
<1>7. ASSUME NEW e \in Executions, Fail(e) PROVE IInv'
  <2> DEFINE c == [chain[e] EXCEPT ![at[e]] = "failed"]
             n == Place(head[e], at[e])
  <2>1. /\ at[e] \in Providers /\ c \in [Providers -> Outcomes] /\ n \in Nat
        /\ WalkedTo(head[e], c, n) /\ Proceed(e, head[e], c)
    BY <1>7, FailProceeds
  <2>2. head[e] \in Names
    BY DEF TypeOK
  <2> HIDE DEF c, n
  <2>3. /\ status' \in [Executions -> {"idle", "calling", "served", "exhausted"}]
        /\ at' \in [Executions -> Providers \cup {None}]
        /\ chain' \in [Executions -> [Providers -> Outcomes]]
        /\ Truthful(head[e], status'[e], at'[e], chain'[e])
        /\ \A f \in Executions \ {e} :
             status'[f] = status[f] /\ at'[f] = at[f] /\ chain'[f] = chain[f]
    BY <2>1, <2>2, ProceedTruthfully
  <2>4. default' = default /\ head' = head /\ RecordFailure(at[e])
    BY <1>7 DEF Fail
  <2>5. BreakerTyped' /\ BreakerConsistent'
    BY <1>0, <2>1, <2>4, FailureKeepsBreaker
  <2>6. Typed'
    BY <2>3, <2>4 DEF TypeOK
  <2>7. Walks'
    BY <1>0, <2>3, <2>4
  <2>8. QED BY <1>1, <2>5, <2>6, <2>7
<1>8. CASE Tick
  <2>1. BreakerTyped' /\ BreakerConsistent'
    BY <1>0, <1>8, TickKeepsBreaker
  <2>2. UNCHANGED <<status, head, at, chain>> /\ default' \in Providers
    BY <1>8 DEF Tick, TypeOK
  <2>3. QED BY <1>1, <1>3, <2>1, <2>2
<1>9. CASE UNCHANGED vars
  <2>1. UNCHANGED breaker /\ UNCHANGED <<status, head, at, chain>> /\ default' \in Providers
    BY <1>9 DEF vars, breaker, TypeOK
  <2>2. QED BY <1>1, <1>2, <1>3, <2>1
<1>10. QED
  BY <1>4, <1>5, <1>6, <1>7, <1>8, <1>9 DEF Next

\* No execution has begun, and no circuit is open.
LEMMA Initial == Init => IInv
BY ProvidersAssumption, ThresholdAssumption, RecoveryAssumption
   DEF Init, IInv, TypeOK, BreakerConsistent, CalledIsNamed, FailoverInOrder,
       NoneTried, Outcomes

\* Whenever an execution goes on, it calls a provider whose circuit is not open.
LEMMA ProceedShelters ==
  ASSUME TypeOK, BreakerConsistent, NEW e \in Executions, NEW h \in Names, NEW c,
         Proceed(e, h, c), status'[e] = "calling"
  PROVE  failures[at'[e]] < Threshold \/ openFor[at'[e]] = Recovery
<1> DEFINE p == Candidates(h)[Min(Admitted(h, c))]
<1>1. CallNext(e, h, c)
  <2>1. ~GiveUp(e, h, c)
    BY DEF GiveUp, TypeOK
  <2>2. QED BY <2>1 DEF Proceed
<1>2. Admitted(h, c) # {} /\ at' = [at EXCEPT ![e] = p]
  BY <1>1 DEF CallNext
<1>3. ~IsOpen(p) /\ p \in Named(h, Registered(h))
  BY <1>2, NextProperties
<1>4. p \in Providers
  BY <1>3, CandidatesProperties DEF Named
<1>5. at'[e] = p
  BY <1>2 DEF TypeOK
<1> HIDE DEF p
<1>6. failures[p] \in 0 .. Threshold /\ openFor[p] \in (0 .. Recovery) \cup {None}
  BY <1>4 DEF TypeOK
<1>7. openFor[p] # None <=> failures[p] >= Threshold
  BY <1>4 DEF BreakerConsistent
<1>8. failures[p] < Threshold \/ openFor[p] = Recovery
  BY <1>3, <1>6, <1>7, ThresholdAssumption, RecoveryAssumption, NoneAssumption DEF IsOpen
<1>9. QED BY <1>5, <1>8

\* What FailingProviderIsSheltered says of a step.
Shelters ==
  \A e \in Executions, p \in Providers :
    (at'[e] = p /\ status'[e] = "calling" /\ <<status[e], at[e]>> # <<"calling", p>>)
      => failures[p] < Threshold \/ openFor[p] = Recovery

\* An execution that goes on leaves every other where it is.
LEMMA ProceedAlone ==
  ASSUME NEW e, NEW h, NEW c, Proceed(e, h, c), NEW f \in Executions, f # e, TypeOK
  PROVE  status'[f] = status[f] /\ at'[f] = at[f]
BY DEF Proceed, CallNext, GiveUp, TypeOK

\* Every step shelters the providers whose circuits are open.
LEMMA StepShelters == IInv /\ [Next]_vars => Shelters
<1> SUFFICES ASSUME IInv, [Next]_vars,
                    NEW f \in Executions, NEW p \in Providers,
                    at'[f] = p, status'[f] = "calling",
                    <<status[f], at[f]>> # <<"calling", p>>
             PROVE  failures[p] < Threshold \/ openFor[p] = Recovery
  BY DEF Shelters
<1> USE DEF IInv
<1>1. CASE UNCHANGED <<status, at>>
  BY <1>1
<1>2. ASSUME NEW e \in Executions, NEW h \in Names, NEW c, Proceed(e, h, c)
      PROVE  failures[p] < Threshold \/ openFor[p] = Recovery
  <2>1. e = f
    BY <1>2, ProceedAlone
  <2>2. QED BY <1>2, <2>1, ProceedShelters
<1>3. ASSUME NEW e \in Executions, NEW preferred \in Names \cup {None},
             Execute(e, preferred)
      PROVE  failures[p] < Threshold \/ openFor[p] = Recovery
  <2>1. PICK h \in Names : Proceed(e, h, NoneTried)
    BY <1>3, ExecuteProceeds
  <2>2. QED BY <1>2, <2>1
<1>4. ASSUME NEW e \in Executions, Succeed(e) PROVE FALSE
  BY <1>4 DEF Succeed, TypeOK
<1>5. ASSUME NEW e \in Executions, Fail(e)
      PROVE  failures[p] < Threshold \/ openFor[p] = Recovery
  <2>1. Proceed(e, head[e], [chain[e] EXCEPT ![at[e]] = "failed"])
    BY <1>5 DEF Fail
  <2>2. head[e] \in Names
    BY DEF TypeOK
  <2>3. QED BY <1>2, <2>1, <2>2
<1>6. ASSUME NEW name \in Names, SetDefault(name) PROVE UNCHANGED <<status, at>>
  BY <1>6 DEF SetDefault
<1>7. CASE Tick
  BY <1>1, <1>7 DEF Tick
<1>8. CASE UNCHANGED vars
  BY <1>1, <1>8 DEF vars
<1>9. QED
  BY <1>1, <1>3, <1>4, <1>5, <1>6, <1>7, <1>8 DEF Next

-----------------------------------------------------------------------------
(* The theorems.                                                            *)

\* The inductive invariant holds all along.
LEMMA Invariance == Spec => []IInv
<1>1. IInv /\ [Next]_vars => IInv'
  BY Inductive
<1>2. QED BY <1>1, Initial, PTL DEF Spec

\* Whatever names requests and settings use, only registered providers are default
\* or called, and every variable keeps its type.
THEOREM RouterTypeCorrect == Spec => []TypeOK
BY Invariance, PTL DEF IInv

\* A circuit has an opening time exactly when its provider has reached the
\* threshold, however many executions report to it.
THEOREM RouterBreakerConsistent == Spec => []BreakerConsistent
BY Invariance, PTL DEF IInv

\* The fallback chain of an execution tells who was skipped, who failed and who
\* was not needed, in the order in which the providers are tried.
THEOREM RouterFailsOverInOrder == Spec => []FailoverInOrder
BY Invariance, PTL DEF IInv

\* A provider whose circuit is open gets no new call.
THEOREM RouterShelters == Spec => FailingProviderIsSheltered
<1>1. IInv /\ [Next]_vars => [Shelters]_vars
  BY StepShelters
<1>2. Spec => [][Shelters]_vars
  BY <1>1, Invariance, PTL DEF Spec
<1>3. QED BY <1>2 DEF FailingProviderIsSheltered, Shelters
=============================================================================
