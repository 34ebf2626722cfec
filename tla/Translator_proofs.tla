-------------------------- MODULE Translator_proofs --------------------------
(***************************************************************************)
(* Translator for any providers, chain, texts, cache and number of         *)
(* translations: what is cached under a key was made for it by a provider  *)
(* that served it.                                                         *)
(***************************************************************************)
EXTENDS Translator, Lists_proofs

Statuses == {"idle", "calling", "served", "exhausted"}
Chains == [Providers -> Router!Outcomes]
MayHold == Cache!Entries \cup {Absent}

RouterTypes ==
  /\ default \in Providers
  /\ status \in [Executions -> Statuses]
  /\ head \in [Executions -> Names]
  /\ at \in [Executions -> Providers \cup {None}]
  /\ chain \in [Executions -> Chains]
  /\ want \in [Executions -> CacheKeys \cup {None}]

StoreTyped == store \in [CacheKeys -> MayHold]

\* An execution that is suspended at a provider, behind head h: its chain is not
\* empty, and whoever leads it was skipped or has failed before anybody else was
\* called.
Underway(h, s, a, c) ==
  s = "calling" =>
    /\ Router!Registered(h) # {}
    /\ a \in Providers
    /\ a # Primary(h) => c[Primary(h)] \in {"skipped", "failed"}

\* It is for a key that names the head of its chain.
Wanted(h, s, k) == s = "calling" => k \in CacheKeys /\ k[1] = h

Calls ==
  \A e \in Executions :
    /\ Underway(head[e], status[e], at[e], chain[e])
    /\ Wanted(head[e], status[e], want[e])

\* What CachedAnswersAreTrue says of one entry.
True(payload, k) ==
  /\ Fits(payload, k)
  /\ payload.provider # payload.primary => payload.primaryFate \in {"skipped", "failed"}

IInv == RouterTypes /\ StoreTyped /\ Calls /\ CachedAnswersAreTrue

-----------------------------------------------------------------------------
(* The chain.                                                               *)

LEMMA RegisteredProperties ==
  ASSUME NEW h \in Names
  PROVE  /\ Len(Router!Candidates(h)) \in Nat
         /\ Router!Registered(h) \in SUBSET (0 .. Len(Router!Candidates(h)))
         /\ \A i \in Router!Registered(h) : Router!Candidates(h)[i] \in Providers
<1>1. <<h>> \in Seq(Names) /\ <<Mock>> \in Seq(Names) /\ Fallback \in Seq(Names)
  BY NamesAssumption
<1>2. Router!Candidates(h) \in Seq(Names)
  BY <1>1, ConcatProperties DEF Router!Candidates
<1>3. QED BY <1>2, LenProperties DEF Router!Registered

\* Who leads a chain that is not empty.
LEMMA PrimaryProperties ==
  ASSUME NEW h \in Names, Router!Registered(h) # {}
  PROVE  /\ Primary(h) \in Providers
         /\ Min(Router!Registered(h)) \in Router!Registered(h)
         /\ \A i \in Router!Registered(h) : Min(Router!Registered(h)) <= i
BY RegisteredProperties, MinProperties DEF Primary

\* The loop over the chain keeps the types, leaves other executions alone, and passes
\* over the one who leads only if its circuit is open.
LEMMA ProceedCalls ==
  ASSUME RouterTypes, NEW e \in Executions, NEW h \in Names, NEW c \in Chains,
         Router!Registered(h) # {} => c[Primary(h)] \in {"untried", "skipped", "failed"},
         Router!Proceed(e, h, c)
  PROVE  /\ status' \in [Executions -> Statuses]
         /\ at' \in [Executions -> Providers \cup {None}]
         /\ chain' \in [Executions -> Chains]
         /\ status'[e] \in {"calling", "exhausted"}
         /\ Underway(h, status'[e], at'[e], chain'[e])
         /\ \A f \in Executions \ {e} :
              status'[f] = status[f] /\ at'[f] = at[f] /\ chain'[f] = chain[f]
<1>1. ASSUME NEW P PROVE Router!Skipping(c, P) \in Chains
  BY DEF Router!Skipping, Chains, Router!Outcomes
<1>2. CASE Router!GiveUp(e, h, c)
  BY <1>1, <1>2 DEF Router!GiveUp, RouterTypes, Statuses, Underway
<1>3. CASE Router!CallNext(e, h, c)
  <2> DEFINE next == Min(Router!Admitted(h, c))
             first == Min(Router!Registered(h))
             passed == {i \in Router!Left(h, c) : i < next}
             d == Router!Skipping(c, Router!Named(h, passed))
             p == Router!Candidates(h)[next]
  <2>1. /\ Router!Admitted(h, c) # {}
        /\ at' = [at EXCEPT ![e] = p]
        /\ chain' = [chain EXCEPT ![e] = d]
        /\ status' = [status EXCEPT ![e] = "calling"]
    <3>1. next = Router!Min(Router!Admitted(h, c))
      BY DEF Min, Router!Min
    <3> HIDE DEF next
    <3>2. QED BY <1>3, <3>1 DEF Router!CallNext
  <2>2. /\ Router!Admitted(h, c) \subseteq Router!Registered(h)
        /\ Router!Left(h, c) \subseteq Router!Registered(h)
    BY DEF Router!Admitted, Router!Left
  <2>3. next \in Router!Registered(h) /\ p \in Providers
    BY <2>1, <2>2, RegisteredProperties, MinProperties
  <2>4. first \in Router!Registered(h) /\ first <= next /\ Primary(h) \in Providers
    BY <2>3, PrimaryProperties
  <2>5. first \in Int /\ next \in Int
    BY <2>3, <2>4, RegisteredProperties
  <2>6. d \in Chains
    BY <1>1
  <2>7. Primary(h) = Router!Candidates(h)[first]
    BY DEF Primary
  <2>8. p # Primary(h) => d[Primary(h)] \in {"skipped", "failed"}
    <3> SUFFICES ASSUME p # Primary(h) PROVE d[Primary(h)] \in {"skipped", "failed"}
      OBVIOUS
    <3>1. first < next
      BY <2>4, <2>5, <2>7
    <3>2. CASE c[Primary(h)] = "untried"
      <4>1. first \in passed
        BY <2>4, <2>7, <3>1, <3>2 DEF Router!Left
      <4>2. Primary(h) \in Router!Named(h, passed)
        BY <2>7, <4>1 DEF Router!Named
      <4>3. QED BY <2>4, <4>2 DEF Router!Skipping
    <3>3. CASE c[Primary(h)] \in {"skipped", "failed"}
      BY <2>4, <3>3 DEF Router!Skipping
    <3>4. QED BY <2>3, <3>2, <3>3
  <2> HIDE DEF next, first, d, p
  <2>9. QED BY <2>1, <2>3, <2>6, <2>8 DEF RouterTypes, Statuses, Underway
<1>4. QED BY <1>2, <1>3 DEF Router!Proceed

\* An execution that has gone on, for a key that names the head of its chain.
LEMMA WentOn ==
  ASSUME RouterTypes, Calls, NEW e \in Executions, NEW h \in Names, NEW c \in Chains,
         Router!Registered(h) # {} => c[Primary(h)] \in {"untried", "skipped", "failed"},
         Router!Proceed(e, h, c),
         head' = [head EXCEPT ![e] = h], UNCHANGED default,
         NEW k \in CacheKeys, k[1] = h, For(e, k)
  PROVE  RouterTypes' /\ Calls'
<1>1. /\ status' \in [Executions -> Statuses]
      /\ at' \in [Executions -> Providers \cup {None}]
      /\ chain' \in [Executions -> Chains]
      /\ Underway(h, status'[e], at'[e], chain'[e])
      /\ \A f \in Executions \ {e} :
           status'[f] = status[f] /\ at'[f] = at[f] /\ chain'[f] = chain[f]
  BY ProceedCalls
<1>2. head' \in [Executions -> Names] /\ head'[e] = h
      /\ \A f \in Executions \ {e} : head'[f] = head[f]
  BY DEF RouterTypes
<1>3. want' \in [Executions -> CacheKeys \cup {None}]
      /\ (status'[e] = "calling" => want'[e] = k)
      /\ \A f \in Executions \ {e} : want'[f] = want[f]
  BY DEF RouterTypes, For
<1>4. RouterTypes'
  BY <1>1, <1>2, <1>3 DEF RouterTypes
<1>5. ASSUME NEW f \in Executions
      PROVE  /\ Underway(head'[f], status'[f], at'[f], chain'[f])
             /\ Wanted(head'[f], status'[f], want'[f])
  <2>1. CASE f = e
    BY <1>1, <1>2, <1>3, <2>1 DEF Wanted
  <2>2. CASE f # e
    <3>1. /\ head'[f] = head[f] /\ status'[f] = status[f] /\ at'[f] = at[f]
          /\ chain'[f] = chain[f] /\ want'[f] = want[f]
      BY <1>1, <1>2, <1>3, <2>2
    <3>2. QED BY <3>1 DEF Calls
  <2>3. QED BY <2>1, <2>2
<1>6. QED BY <1>4, <1>5 DEF Calls

\* A translation that was not found is looked for under its key.
LEMMA Executed ==
  ASSUME RouterTypes, Calls, NEW e \in Executions, NEW preferred \in Names \cup {None},
         NEW t \in Texts, Router!Execute(e, preferred), For(e, CacheKey(preferred, t))
  PROVE  RouterTypes' /\ Calls'
<1> DEFINE h == IF preferred = None THEN default ELSE preferred
           k == CacheKey(preferred, t)
<1>1. h \in Names /\ k = <<h, t>>
  BY NamesAssumption DEF RouterTypes, CacheKey
<1>2. k \in CacheKeys /\ k[1] = h
  BY <1>1 DEF CacheKeys
<1>3. /\ head' = [head EXCEPT ![e] = h] /\ UNCHANGED default
      /\ Router!Proceed(e, h, Router!NoneTried)
  BY DEF Router!Execute
<1> HIDE DEF h, k
<1>4. Router!NoneTried \in Chains
  BY DEF Router!NoneTried, Chains, Router!Outcomes
<1>5. Router!Registered(h) # {} => Router!NoneTried[Primary(h)] = "untried"
  BY <1>1, PrimaryProperties DEF Router!NoneTried
<1>6. For(e, k)
  BY DEF k
<1>7. QED BY <1>1, <1>2, <1>3, <1>4, <1>5, <1>6, WentOn

\* A provider that was called fails.
LEMMA WentOnAfterFailure ==
  ASSUME RouterTypes, Calls, NEW e \in Executions, Failed(e)
  PROVE  RouterTypes' /\ Calls'
<1> DEFINE c == [chain[e] EXCEPT ![at[e]] = "failed"]
<1>1. /\ status[e] = "calling" /\ Router!Proceed(e, head[e], c)
      /\ UNCHANGED <<default, head>> /\ For(e, want[e])
  BY DEF Failed, Router!Fail
<1>2. /\ want[e] \in CacheKeys /\ want[e][1] = head[e] /\ head[e] \in Names
      /\ Router!Registered(head[e]) # {} /\ at[e] \in Providers
      /\ at[e] # Primary(head[e]) => chain[e][Primary(head[e])] \in {"skipped", "failed"}
  BY <1>1 DEF Calls, Underway, Wanted, RouterTypes
<1>3. chain[e] \in Chains /\ Primary(head[e]) \in Providers
  BY <1>2, PrimaryProperties DEF RouterTypes
<1>4. c \in Chains /\ c[Primary(head[e])] \in {"skipped", "failed"}
  BY <1>2, <1>3 DEF Chains, Router!Outcomes
<1>5. head' = [head EXCEPT ![e] = head[e]]
  BY <1>1 DEF RouterTypes
<1> HIDE DEF c
<1>6. QED BY <1>1, <1>2, <1>4, <1>5, WentOn

\* A provider answers.
LEMMA Finished ==
  ASSUME RouterTypes, Calls, NEW e \in Executions, Served(e)
  PROVE  RouterTypes' /\ Calls'
<1>1. /\ status' = [status EXCEPT ![e] = "served"] /\ UNCHANGED <<default, head, at>>
      /\ chain' = [chain EXCEPT ![e][at[e]] = "success"]
  BY DEF Served, Router!Succeed
<1>2. status'[e] = "served" /\ want' = [want EXCEPT ![e] = None]
  BY <1>1 DEF Served, For, RouterTypes
<1>3. chain' \in [Executions -> Chains] /\ \A f \in Executions \ {e} : chain'[f] = chain[f]
  BY <1>1 DEF RouterTypes, Chains, Router!Outcomes
<1>4. RouterTypes'
  BY <1>1, <1>2, <1>3 DEF RouterTypes, Statuses
<1>5. ASSUME NEW f \in Executions
      PROVE  /\ Underway(head'[f], status'[f], at'[f], chain'[f])
             /\ Wanted(head'[f], status'[f], want'[f])
  <2>1. CASE f = e
    BY <1>2, <2>1 DEF Underway, Wanted
  <2>2. CASE f # e
    <3>1. /\ head'[f] = head[f] /\ status'[f] = status[f] /\ at'[f] = at[f]
          /\ chain'[f] = chain[f] /\ want'[f] = want[f]
      BY <1>1, <1>2, <1>3, <2>2 DEF RouterTypes
    <3>2. QED BY <3>1 DEF Calls
  <2>3. QED BY <2>1, <2>2
<1>6. QED BY <1>4, <1>5 DEF Calls

-----------------------------------------------------------------------------
(* The cache.                                                               *)

\* What is put into the cache.
LEMMA PayloadProperties ==
  ASSUME RouterTypes, Calls, NEW e \in Executions, status[e] = "calling"
  PROVE  /\ want[e] \in CacheKeys
         /\ Payload(e) \in Payloads
         /\ Payload(e).provider = at[e]
         /\ True(Payload(e), want[e])
<1>1. /\ want[e] \in CacheKeys /\ want[e][1] = head[e] /\ head[e] \in Names
      /\ Router!Registered(head[e]) # {} /\ at[e] \in Providers
      /\ at[e] # Primary(head[e]) => chain[e][Primary(head[e])] \in {"skipped", "failed"}
  BY DEF Calls, Underway, Wanted, RouterTypes
<1>2. want[e][2] \in Texts /\ Primary(head[e]) \in Providers
  BY <1>1, PrimaryProperties DEF CacheKeys
<1>3. Payload(e) \in Payloads
  BY <1>1, <1>2 DEF Payload, Payloads
<1>4. True(Payload(e), want[e])
  BY <1>1 DEF Payload, True, Fits
<1>5. QED BY <1>1, <1>3, <1>4 DEF Payload

\* A lookup changes an entry only by dropping it.
LEMMA LookedUp ==
  ASSUME StoreTyped, NEW k \in CacheKeys, Cache!Get(k)
  PROVE  /\ StoreTyped'
         /\ \A j \in CacheKeys :
              store'[j] = store[j] \/ (store'[j] = Absent /\ ~Cache!Live(j))
BY DEF StoreTyped, Cache!Get, MayHold, Cache!Live

\* What is stored stands under its key, and at most one other entry goes.
LEMMA Stored ==
  ASSUME StoreTyped, NEW k \in CacheKeys, NEW v \in Payloads, Cache!Set(k, v)
  PROVE  /\ StoreTyped'
         /\ store'[k].value = v
         /\ \A j \in CacheKeys \ {k} : store'[j] \in {store[j], Absent}
<1>1. Cache!Stored(v) \in MayHold /\ Cache!Stored(v).value = v
  BY CacheAssumption DEF Cache!Stored, Cache!Entries, Cache!Expired, MayHold
<1>2. CASE store' = [store EXCEPT ![k] = Cache!Stored(v)]
  BY <1>1, <1>2 DEF StoreTyped
<1>3. ASSUME NEW old \in CacheKeys,
             store' = [store EXCEPT ![old] = Absent, ![k] = Cache!Stored(v)]
      PROVE  /\ StoreTyped'
             /\ store'[k].value = v
             /\ \A j \in CacheKeys \ {k} : store'[j] \in {store[j], Absent}
  BY <1>1, <1>3 DEF StoreTyped, MayHold
<1>4. QED BY <1>2, <1>3 DEF Cache!Set, Cache!Evictable, Cache!Held

\* Entries grow older, and nothing else.
LEMMA Aged ==
  ASSUME StoreTyped, Cache!Tick
  PROVE  /\ StoreTyped'
         /\ \A j \in CacheKeys :
              \/ store'[j] = store[j]
              \/ /\ store[j] # Absent /\ Cache!Live(j)
                 /\ store'[j].value = store[j].value /\ store'[j].left < store[j].left
<1>1. ASSUME NEW j \in CacheKeys
      PROVE  /\ store'[j] \in MayHold
             /\ \/ store'[j] = store[j]
                \/ /\ store[j] # Absent /\ Cache!Live(j)
                   /\ store'[j].value = store[j].value /\ store'[j].left < store[j].left
  <2>1. CASE ~Cache!Live(j)
    BY <2>1 DEF StoreTyped, Cache!Tick
  <2>2. CASE Cache!Live(j)
    <3>1. store[j] \in Cache!Entries /\ store[j].left > -1 /\ store[j] # Absent
      BY <2>2 DEF StoreTyped, MayHold, Cache!Live, Cache!Expired
    <3>2. store'[j] = [store[j] EXCEPT !.left = store[j].left - 1]
      BY <2>2 DEF Cache!Tick
    <3>3. QED BY <2>2, <3>1, <3>2, CacheAssumption DEF Cache!Entries, Cache!Expired, MayHold
  <2>3. QED BY <2>1, <2>2
<1>2. store' = [j \in CacheKeys |-> store'[j]]
  BY DEF Cache!Tick
<1>3. QED BY <1>1, <1>2 DEF StoreTyped

-----------------------------------------------------------------------------
(* The steps.                                                               *)

\* The cache is left alone, loses entries, or is given one that is true of its key.
LEMMA StoreStep ==
  ASSUME RouterTypes, StoreTyped, Calls, [Next]_vars
  PROVE  /\ StoreTyped'
         /\ \A k \in CacheKeys :
              \/ store'[k] = store[k]
              \/ store'[k] = Absent
              \/ /\ store[k] # Absent /\ Cache!Live(k)
                 /\ store'[k].value = store[k].value /\ store'[k].left < store[k].left
              \/ \E e \in Executions :
                   /\ want[e] = k /\ status[e] = "calling" /\ status'[e] = "served"
                   /\ store'[k].value.provider = at[e]
                   /\ True(store'[k].value, k)
<1> DEFINE Made(k) == \E e \in Executions :
                   /\ want[e] = k /\ status[e] = "calling" /\ status'[e] = "served"
                   /\ store'[k].value.provider = at[e]
                   /\ True(store'[k].value, k)
<1>1. ASSUME NEW preferred \in Names \cup {None}, NEW t \in Texts,
             Cache!Get(CacheKey(preferred, t))
      PROVE  StoreTyped' /\ \A k \in CacheKeys : store'[k] \in {store[k], Absent}
  <2>1. CacheKey(preferred, t) \in CacheKeys
    BY NamesAssumption DEF RouterTypes, CacheKey, CacheKeys
  <2>2. QED BY <1>1, <2>1, LookedUp
<1>2. ASSUME NEW e \in Executions, Served(e)
      PROVE  StoreTyped' /\ \A k \in CacheKeys : store'[k] \in {store[k], Absent} \/ Made(k)
  <2>1. /\ status[e] = "calling" /\ status'[e] = "served"
        /\ Cache!Set(want[e], Payload(e))
    BY <1>2 DEF Served, Remember, Router!Succeed, RouterTypes
  <2>2. /\ want[e] \in CacheKeys /\ Payload(e) \in Payloads
        /\ Payload(e).provider = at[e] /\ True(Payload(e), want[e])
    BY <2>1, PayloadProperties
  <2>3. /\ StoreTyped' /\ store'[want[e]].value = Payload(e)
        /\ \A j \in CacheKeys \ {want[e]} : store'[j] \in {store[j], Absent}
    BY <2>1, <2>2, Stored
  <2>4. Made(want[e])
    BY <2>1, <2>2, <2>3
  <2> HIDE DEF Made
  <2>5. QED BY <2>3, <2>4
<1>3. CASE CacheTick
  BY <1>3, Aged DEF CacheTick
<1>4. CASE UNCHANGED store
  BY <1>4 DEF StoreTyped
<1>5. QED
  BY <1>1, <1>2, <1>3, <1>4
     DEF Next, Hit, Miss, Failed, Switch, RouterTick, vars

LEMMA Inductive == IInv /\ [Next]_vars => IInv'
<1> SUFFICES ASSUME IInv, [Next]_vars PROVE IInv'
  OBVIOUS
<1> USE DEF IInv
<1>1. RouterTypes' /\ Calls'
  <2>1. ASSUME NEW preferred \in Names \cup {None}, NEW t \in Texts, NEW e \in Executions,
               Miss(e, preferred, t)
        PROVE  RouterTypes' /\ Calls'
    BY <2>1, Executed DEF Miss
  <2>2. ASSUME NEW e \in Executions, Served(e) PROVE RouterTypes' /\ Calls'
    BY <2>2, Finished
  <2>3. ASSUME NEW e \in Executions, Failed(e) PROVE RouterTypes' /\ Calls'
    BY <2>3, WentOnAfterFailure
  <2>4. CASE default' \in Providers /\ UNCHANGED <<status, head, at, chain, want>>
    BY <2>4 DEF RouterTypes, Calls
  <2>5. ASSUME NEW name \in Names, Switch(name) PROVE RouterTypes' /\ Calls'
    BY <2>4, <2>5 DEF Switch, Router!SetDefault
  <2>6. CASE RouterTick \/ CacheTick \/ UNCHANGED vars
    BY <2>4, <2>6 DEF RouterTick, Router!Tick, CacheTick, routerVars, vars, RouterTypes
  <2>7. ASSUME NEW preferred, NEW t, Hit(preferred, t) PROVE RouterTypes' /\ Calls'
    BY <2>4, <2>7 DEF Hit, routerVars, RouterTypes
  <2>8. QED BY <2>1, <2>2, <2>3, <2>5, <2>6, <2>7 DEF Next
<1>2. StoreTyped'
  BY StoreStep
<1>3. ASSUME NEW k \in CacheKeys, store'[k] # Absent PROVE True(store'[k].value, k)
  <2>1. store[k] # Absent => True(store[k].value, k)
    BY DEF CachedAnswersAreTrue, Cache!Held, True
  <2>2. QED BY <1>3, <2>1, StoreStep
<1>4. CachedAnswersAreTrue'
  BY <1>3 DEF CachedAnswersAreTrue, Cache!Held, True
<1>5. QED BY <1>1, <1>2, <1>4

LEMMA Initial == Init => IInv
<1> SUFFICES ASSUME Init PROVE IInv
  OBVIOUS
<1>1. RouterTypes /\ Calls
  BY NamesAssumption
     DEF Init, Router!Init, RouterTypes, Calls, Underway, Wanted, Statuses, Chains,
         Router!NoneTried, Router!Outcomes
<1>2. StoreTyped /\ Cache!Held = {}
  BY DEF Init, Cache!Init, StoreTyped, MayHold, Cache!Held
<1>3. QED BY <1>1, <1>2 DEF IInv, CachedAnswersAreTrue

LEMMA Invariance == Spec => []IInv
BY Inductive, Initial, PTL DEF Spec

\* A hit returns words for its key, from the provider the key names or from a
\* fallback after that one was skipped or had failed, for any number of concurrent
\* translations, switches of the default, failures and evictions.
THEOREM TranslatorTellsTheTruth == Spec => []CachedAnswersAreTrue
BY Invariance, PTL DEF IInv

\* Only a provider that has answered puts anything into the cache.
THEOREM TranslatorCachesAnswers == Spec => OnlyAnswersAreCached
<1> DEFINE Shown ==
      \A k \in CacheKeys :
        (/\ Cache!Live(k)'
         /\ Cache!Live(k) =>
              \/ store'[k].value # store[k].value
              \/ store'[k].left > store[k].left)
          => \E e \in Executions :
               /\ want[e] = k
               /\ status[e] = "calling" /\ status'[e] = "served"
               /\ store'[k].value.provider = at[e]
<1>1. IInv /\ [Next]_vars => [Shown]_vars
  <2> SUFFICES ASSUME IInv, [Next]_vars, NEW k \in CacheKeys, Cache!Live(k)',
                      Cache!Live(k) =>
                        \/ store'[k].value # store[k].value
                        \/ store'[k].left > store[k].left
               PROVE  \E e \in Executions :
                        /\ want[e] = k
                        /\ status[e] = "calling" /\ status'[e] = "served"
                        /\ store'[k].value.provider = at[e]
    OBVIOUS
  <2>1. store'[k] # Absent /\ (store'[k] = store[k] => Cache!Live(k))
    BY DEF Cache!Live
  <2>2. store'[k] # store[k]
    BY <2>1 DEF IInv, StoreTyped, MayHold, Cache!Entries, Cache!Live, Cache!Expired
  <2>3. ~(/\ store[k] # Absent /\ Cache!Live(k)
          /\ store'[k].value = store[k].value /\ store'[k].left < store[k].left)
    <3>1. store[k] # Absent => store[k].left \in Int
      BY CacheAssumption DEF IInv, StoreTyped, MayHold, Cache!Entries, Cache!Expired
    <3>2. store'[k].left \in Int
      BY <2>1, StoreStep, CacheAssumption
         DEF IInv, StoreTyped, MayHold, Cache!Entries, Cache!Expired
    <3>3. QED BY <3>1, <3>2
  <2>4. QED BY <2>1, <2>2, <2>3, StoreStep DEF IInv
<1>2. QED BY <1>1, Invariance, PTL DEF Spec, OnlyAnswersAreCached
=============================================================================
