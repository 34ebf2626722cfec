----------------------------- MODULE Translator -----------------------------
(***************************************************************************)
(* Translator.translate of backend/services/translator.py: the provider    *)
(* router behind the response cache.                                       *)
(*                                                                         *)
(* A translation looks its key up and calls the router without an await in *)
(* between; it stores the answer when the awaited provider has served it,  *)
(* however much later, while other translations of the same text run, the  *)
(* default provider is switched and circuits open and close.               *)
(***************************************************************************)
EXTENDS SequencesExt

CONSTANTS
  Names, Providers, Mock, Fallback, Executions, Threshold, Recovery, None,
  Texts,      \* a text with its source and target language
  MaxEntries, Ttl, Absent

VARIABLES
  default, failures, openFor, status, head, at, chain, \* the router's
  store,      \* the cache's
  want        \* cache_key of the translation an execution in the router is for

routerVars == <<default, failures, openFor, status, head, at, chain>>
vars == <<routerVars, store, want>>

CacheKeys == Names \X Texts

\* What is cached: whose words they are, and the router's metadata.
Payloads == [text : Texts, provider : Providers, primary : Providers,
             primaryFate : {"untried", "skipped", "failed", "success"}]

Router == INSTANCE ProviderRouter
Cache == INSTANCE TtlCache WITH Keys <- CacheKeys, Values <- Payloads

ASSUME NoneAssumption == None \notin CacheKeys /\ None \notin Names
ASSUME NamesAssumption ==
  Providers \subseteq Names /\ Mock \in Names /\ Fallback \in Seq(Names)
ASSUME CacheAssumption == Ttl \in Nat /\ Absent \notin Cache!Entries

Init ==
  /\ Router!Init
  /\ Cache!Init
  /\ want = [e \in Executions |-> None]

\* The key names the provider that is asked for, or the default of the moment.
CacheKey(preferred, t) ==
  <<IF preferred = None THEN default ELSE preferred, t>>

\* attempt_order[0].
Primary(h) == Router!Candidates(h)[Min(Router!Registered(h))]

\* A hit: the caller gets what is cached and the router is not asked.
Hit(preferred, t) ==
  /\ Cache!Live(CacheKey(preferred, t))
  /\ Cache!Get(CacheKey(preferred, t))
  /\ UNCHANGED <<routerVars, want>>

\* What an execution is for is forgotten with the execution.
For(e, key) == want' = [want EXCEPT ![e] = IF status'[e] = "calling" THEN key ELSE None]

\* A miss: an expired entry is dropped and the router executes, and may have nobody
\* to call.
Miss(e, preferred, t) ==
  /\ ~Cache!Live(CacheKey(preferred, t))
  /\ Cache!Get(CacheKey(preferred, t))
  /\ Router!Execute(e, preferred)
  /\ For(e, CacheKey(preferred, t))

\* The payload of a served translation.
Payload(e) ==
  [text |-> want[e][2], provider |-> at[e], primary |-> Primary(head[e]),
   primaryFate |-> IF at[e] = Primary(head[e]) THEN "success"
                                               ELSE chain[e][Primary(head[e])]]

\* Mutant of Remember: the key is built anew when the answer is there.
RememberLate(e) == Cache!Set(<<default, want[e][2]>>, Payload(e))

\* The payload is stored under the key of the lookup.
Remember(e) == Cache!Set(want[e], Payload(e))

Served(e) ==
  /\ Router!Succeed(e)
  /\ Remember(e)
  /\ For(e, None)

\* Mutant of Failed: the failure of a translation is remembered too.
FailedRemembering(e) ==
  /\ Router!Fail(e)
  /\ For(e, want[e])
  /\ IF status'[e] = "exhausted"
     THEN Remember(e)
     ELSE UNCHANGED store

\* A provider fails: the router goes on, or AllProvidersFailedError passes through.
Failed(e) == Router!Fail(e) /\ For(e, want[e]) /\ UNCHANGED store

Switch(name) == Router!SetDefault(name) /\ UNCHANGED <<store, want>>

\* The windows of the breaker and of the cache are not measured against each other:
\* time passes for either.
RouterTick == Router!Tick /\ UNCHANGED <<store, want>>
CacheTick == Cache!Tick /\ UNCHANGED <<routerVars, want>>

Next ==
  \/ \E preferred \in Names \cup {None}, t \in Texts :
       \/ Hit(preferred, t)
       \/ \E e \in Executions : Miss(e, preferred, t)
  \/ \E e \in Executions : Served(e) \/ Failed(e)
  \/ \E name \in Names : Switch(name)
  \/ RouterTick
  \/ CacheTick

Spec == Init /\ [][Next]_vars

-----------------------------------------------------------------------------
(* Properties.                                                              *)

\* A payload fits a key: it translates the key's text and was made by an attempt
\* that began with the provider the key names.
Fits(payload, k) == payload.text = k[2] /\ payload.primary = Primary(k[1])

\* Whoever asked, whatever the default was when the answer came, what is cached under
\* a key, and so what a hit returns, was made for that key; and if it is not from its
\* primary provider, the primary was skipped or failed in that attempt.
CachedAnswersAreTrue ==
  \A k \in Cache!Held :
    LET payload == store[k].value
    IN  /\ Fits(payload, k)
        /\ payload.provider # payload.primary =>
             payload.primaryFate \in {"skipped", "failed"}

\* Only an answer is cached: a value appears under a key in the step in which a
\* provider serves a translation with this key, never because one failed.
OnlyAnswersAreCached ==
  [][\A k \in CacheKeys :
       (/\ Cache!Live(k)'
        /\ Cache!Live(k) =>
             \/ store'[k].value # store[k].value
             \/ store'[k].left > store[k].left)
         => \E e \in Executions :
              /\ want[e] = k
              /\ status[e] = "calling" /\ status'[e] = "served"
              /\ store'[k].value.provider = at[e]]_vars
=============================================================================
