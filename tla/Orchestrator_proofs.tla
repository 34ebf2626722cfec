------------------------ MODULE Orchestrator_proofs ------------------------
(***************************************************************************)
(* Orchestrator for any sessions, time to live and requests, and any       *)
(* number of threads of the speech model.                                  *)
(***************************************************************************)
EXTENDS Orchestrator, FiniteSetTheorems, SequenceTheorems, TLAPS

-----------------------------------------------------------------------------
(* The speech model.                                                        *)

\* The thread that loads is the one that holds the lock, and the load it has begun is
\* the only one there ever was.
SttInv ==
  /\ at \in [Threads -> {"unborn", "waiting", "loading", "hearing", "over"}]
  /\ holder \subseteq Threads
  /\ model \in {"unloaded", "loaded", "failed", "mute"}
  /\ \A t \in Threads : at[t] = "loading" <=> holder = {t}
  /\ \A t \in holder : at[t] = "loading"
  /\ holder # {} => model = "unloaded" /\ loads = 1
  /\ holder = {} => loads = IF model = "unloaded" THEN 0 ELSE 1
  /\ \A t \in Threads : at[t] = "hearing" => model = "loaded"

LEMMA SttStep ==
  ASSUME SttInv,
         UNCHANGED sttVars \/ (\E t \in Threads : ThreadStep(t) \/ Start(t))
  PROVE  SttInv'
<1> USE DEF SttInv, Go
<1>1. CASE UNCHANGED sttVars
  BY <1>1 DEF sttVars
<1>2. ASSUME NEW t \in Threads, Enter(t) PROVE SttInv'
  <2>1. CASE model = "unloaded"
    BY <1>2, <2>1 DEF Enter
  <2>2. CASE model # "unloaded"
    BY <1>2, <2>2 DEF Enter, Onward
  <2>3. QED BY <2>1, <2>2
<1>3. ASSUME NEW t \in Threads, Load(t) PROVE SttInv'
  <2>1. holder = {t} /\ holder' = {} /\ loads' = 1 /\ model' # "unloaded"
    BY <1>3 DEF Load
  <2>2. at'[t] \in {"hearing", "over"} /\ at' = [at EXCEPT ![t] = at'[t]]
    BY <1>3 DEF Load, Onward
  <2>3. at'[t] = "hearing" => model' = "loaded"
    BY <1>3 DEF Load, Onward
  <2>4. \A u \in Threads : u # t => at'[u] = at[u] /\ at[u] # "loading" /\ at[u] # "hearing"
    BY <1>3, <2>1, <2>2 DEF Load
  <2>5. QED BY <1>3, <2>1, <2>2, <2>3, <2>4 DEF Load
<1>4. ASSUME NEW t \in Threads, Hear(t) \/ Start(t) PROVE SttInv'
  BY <1>4 DEF Hear, Start
<1>5. QED BY <1>1, <1>2, <1>3, <1>4 DEF ThreadStep

\* What a step of the system is to the threads.
LEMMA SttOfNext ==
  ASSUME [Next]_vars
  PROVE  UNCHANGED sttVars \/ (\E t \in Threads : ThreadStep(t) \/ Start(t))
BY ThreadsAssumption
   DEF Next, vars, Recognition, Listen, Heard, GiveUp, Thread, Tick, Quiet, Threads

\* The model is loaded at most once and never used before, for any number of threads
\* and of callers that have given up.
THEOREM OrchestratorLoadsOnce == Spec => []OneModel
<1>1. Init => SttInv
  BY DEF Init, SttInit, SttInv
<1>2. SttInv /\ [Next]_vars => SttInv'
  BY SttStep, SttOfNext
<1>3. SttInv => OneModel
  BY DEF SttInv, OneModel
<1>4. QED BY <1>1, <1>2, <1>3, PTL DEF Spec

-----------------------------------------------------------------------------
(* Sessions and their turns.                                                *)

Statuses == {"new", "transcribing", "listening", "translating", "routing", "speaking"}
              \cup Ended

\* Whose turn has been kept.
Answering == {"speaking", "done"}

Types ==
  /\ turns \in [Sessions -> Seq(Requests)]
  /\ idle \in [Sessions -> Int]
  /\ status \in [Requests -> Statuses]
  /\ session \in [Requests -> Sessions]
  /\ history \in [Requests -> Seq(Requests)]
  /\ seen \in [Requests -> SUBSET Requests]
  /\ forgotten \subseteq Requests

\* A step changes one session, by a lookup or a turn, or none.
Kinds(s, r) ==
  \/ UNCHANGED <<turns, forgotten>>
  \/ Lookup(s) /\ Forgetting(s)
  \/ /\ AppendTurn(s, r) /\ Forgetting(s)
     /\ status[r] \notin Answering /\ status'[r] \in Answering
     /\ s = session[r]

\* The status of r is all that changes of the statuses, and it does not come back to
\* an earlier one.
Moves(r) ==
  /\ status' = [status EXCEPT ![r] = status'[r]]
  /\ status'[r] \in Statuses
  /\ session' = session /\ voice' = voice
  /\ status[r] \notin Ended
  /\ status[r] = "speaking" => status'[r] = "done"
  /\ status'[r] = "routing" => history'[r] = Kept(session[r]) /\ Lookup(session[r])
                               /\ Forgetting(session[r])
  /\ \A q \in Requests : q # r => history'[q] = history[q]
  /\ status'[r] \in Answering =>
       status[r] = "speaking" \/ (AppendTurn(session[r], r) /\ Forgetting(session[r]))

LEMMA KeptType ==
  ASSUME Types, NEW s \in Sessions
  PROVE  Kept(s) \in Seq(Requests)
BY DEF Types, Kept

LEMMA RequestMoves ==
  ASSUME Types, NEW r \in Requests, Step(r) \/ Recognition(r)
  PROVE  /\ Moves(r)
         /\ Kinds(session[r], r)
         /\ history' \in [Requests -> Seq(Requests)]
         /\ seen' = seen \/ (status[r] = "new" /\ seen' = [seen EXCEPT ![r] =
                 {q \in Requests : status[q] = "done" /\ session[q] = session[r]}])
<1> USE DEF Types, At, Statuses, Ended, ErrorCodes, Answering, setting, sessionVars
<1>1. Kept(session[r]) \in Seq(Requests)
  BY KeptType
<1> DEFINE Claim == Moves(r) /\ Kinds(session[r], r) /\ history' \in [Requests -> Seq(Requests)]
<1>0. seen' = seen \/ (status[r] = "new" /\ seen' = [seen EXCEPT ![r] =
                 {q \in Requests : status[q] = "done" /\ session[q] = session[r]}])
  BY DEF Step, Recognition, ArriveByText, ArriveByVoice, IsRefused, AudioIsUnusable, Arrives,
         Transcribed, Translated, NoProviderLeft, Answered, AgentFails, Spoken, Listen, GiveUp, Heard
<1> SUFFICES Claim
  BY <1>0
<1>2. ASSUME Reply(r), UNCHANGED setting, UNCHANGED history,
             status[r] \in {"new", "transcribing", "listening", "translating", "routing"}
      PROVE  Claim
  BY <1>2 DEF Reply, KeepTurn, Respond, Moves, Kinds
<1>3. ASSUME RouteHttp(r), UNCHANGED setting,
             status[r] \in {"new", "transcribing", "listening", "translating"}
      PROVE  Claim
  BY <1>1, <1>3 DEF RouteHttp, Moves, Kinds
<1>4. ASSUME CallAgent(r), UNCHANGED setting,
             status[r] \in {"new", "transcribing", "listening", "translating"}
      PROVE  Claim
  BY <1>2, <1>3, <1>4 DEF CallAgent, RouteMock
<1>5. ASSUME Analyze(r), UNCHANGED setting, status[r] \in {"new", "transcribing", "listening"}
      PROVE  Claim
  <2>1. CASE CallAgent(r)
    BY <1>4, <1>5, <2>1
  <2>2. CASE At(r, "translating") /\ UNCHANGED <<sessionVars, history, requests, forgotten>>
    BY <1>5, <2>2 DEF Moves, Kinds
  <2>3. QED BY <1>5, <2>1, <2>2 DEF Analyze
<1>6. ASSUME NEW code \in ErrorCodes, Fails(r, code),
             status[r] \in {"new", "transcribing", "translating", "routing"}
      PROVE  Claim
  BY <1>6 DEF Fails, Moves, Kinds
<1>7. CASE ArriveByText(r)
  BY <1>5, <1>7 DEF ArriveByText, Arrives
<1>8. CASE ArriveByVoice(r) \/ IsRefused(r)
  BY <1>8 DEF ArriveByVoice, IsRefused, Arrives, Moves, Kinds
<1>9. CASE AudioIsUnusable(r)
  BY <1>6, <1>9 DEF AudioIsUnusable, Arrives
<1>10. CASE Transcribed(r)
  BY <1>5, <1>10 DEF Transcribed
<1>11. CASE Translated(r)
  BY <1>4, <1>11 DEF Translated
<1>12. CASE NoProviderLeft(r)
  BY <1>6, <1>12 DEF NoProviderLeft
<1>13. CASE Answered(r)
  BY <1>2, <1>13 DEF Answered
<1>14. CASE AgentFails(r)
  BY <1>6, <1>14 DEF AgentFails
<1>15. CASE Spoken(r)
  BY <1>15 DEF Spoken, Respond, Moves, Kinds
<1>16. CASE Listen(r) \/ GiveUp(r)
  BY <1>16 DEF Listen, GiveUp, Moves, Kinds
<1>17. CASE Heard(r)
  BY <1>5, <1>17 DEF Heard
<1>18. QED
  BY <1>7, <1>8, <1>9, <1>10, <1>11, <1>12, <1>13, <1>14, <1>15, <1>16, <1>17
     DEF Step, Recognition

\* The other steps leave the turns and the requests alone.
LEMMA OtherSteps ==
  ASSUME Types, [Next]_vars,
         \A r \in Requests : ~Step(r) /\ ~Recognition(r)
  PROVE  /\ UNCHANGED <<turns, status, setting, history, seen, forgotten, counters>>
         /\ idle' \in [Sessions -> Int]
BY DEF Next, Thread, Tick, SessionTick, Quiet, vars, sessionVars, setting, counters, Types

LEMMA TypesStep ==
  ASSUME Types, [Next]_vars
  PROVE  Types'
<1>1. ASSUME NEW r \in Requests, Step(r) \/ Recognition(r) PROVE Types'
  <2> DEFINE s == session[r]
  <2>1. s \in Sessions /\ Kept(s) \in Seq(Requests) /\ Append(Kept(s), r) \in Seq(Requests)
    BY KeptType, AppendProperties DEF Types
  <2>2. Kinds(s, r) /\ Moves(r) /\ history' \in [Requests -> Seq(Requests)]
    BY <1>1, RequestMoves
  <2>3. seen' \in [Requests -> SUBSET Requests]
    <3>1. CASE seen' = seen
      BY <3>1 DEF Types
    <3>2. CASE seen' = [seen EXCEPT ![r] =
                 {q \in Requests : status[q] = "done" /\ session[q] = session[r]}]
      BY <3>2 DEF Types
    <3>3. QED BY <1>1, <3>1, <3>2, RequestMoves
  <2>4. idle' \in [Sessions -> Int]
    BY <1>1, <2>1
       DEF Types, Step, Recognition, ArriveByText, ArriveByVoice, IsRefused, AudioIsUnusable, Transcribed,
           Translated, NoProviderLeft, Answered, AgentFails, Spoken, Listen, Heard, GiveUp,
           Analyze, CallAgent, RouteMock, RouteHttp, Reply, Fails, KeepTurn, Lookup,
           AppendTurn, sessionVars
  <2>5. turns' \in [Sessions -> Seq(Requests)] /\ forgotten' \subseteq Requests
    <3> HIDE DEF s
    <3>1. CASE UNCHANGED <<turns, forgotten>>
      BY <3>1 DEF Types
    <3>2. forgotten' \subseteq Requests \/ UNCHANGED forgotten
      BY <2>1, <2>2 DEF Types, Kinds, Forgetting, ToSet
    <3>3. turns' \in [Sessions -> Seq(Requests)]
      BY <2>1, <2>2 DEF Types, Kinds, Lookup, AppendTurn
    <3>4. QED BY <3>2, <3>3 DEF Types
  <2>6. QED BY <2>2, <2>3, <2>4, <2>5 DEF Types, Moves
<1>2. CASE \A r \in Requests : ~Step(r) /\ ~Recognition(r)
  <2>1. UNCHANGED <<turns, status, setting, history, seen, forgotten>>
        /\ idle' \in [Sessions -> Int]
    BY <1>2, OtherSteps
  <2>2. QED BY <2>1 DEF Types, setting
<1>3. QED BY <1>1, <1>2

\* TurnsAreAnswered, and what the history of the next question needs: an answered
\* request has its turn, unless it was forgotten with its session.
Remembered ==
  /\ \A q \in Requests : status[q] \in Answering =>
       q \in ToSet(turns[session[q]]) \cup forgotten
  /\ \A r \in Requests : \A q \in seen[r] :
       status[q] = "done" /\ session[q] = session[r]

SessionsInv == Types /\ TurnsAreAnswered /\ Remembered /\ AgentRemembers

\* A turn more at the end of a list of turns.
LEMMA TurnAppended ==
  ASSUME NEW s \in Seq(Requests), NEW r \in Requests
  PROVE  /\ ToSet(Append(s, r)) = ToSet(s) \cup {r}
         /\ IsInjective(s) /\ r \notin ToSet(s) => IsInjective(Append(s, r))
         /\ IsPrefix(s, Append(s, r))
<1>1. /\ Append(s, r) \in Seq(Requests)
      /\ Len(Append(s, r)) = Len(s) + 1
      /\ Append(s, r)[Len(s) + 1] = r
      /\ \A i \in 1 .. Len(s) : Append(s, r)[i] = s[i]
  BY AppendProperties
<1>2. DOMAIN s = 1 .. Len(s) /\ DOMAIN Append(s, r) = 1 .. Len(s) + 1 /\ Len(s) \in Nat
  BY <1>1, LenProperties
<1> DEFINE t == Append(s, r)
           n == Len(s)
<1>3. SubSeq(t, 1, n) = s /\ SubSeq(s, 1, n) = s
  OBVIOUS
<1> HIDE DEF t
<1>4. ToSet(t) = ToSet(s) \cup {r}
  BY <1>1, <1>2 DEF ToSet, t
<1>5. ASSUME IsInjective(s), r \notin ToSet(s) PROVE IsInjective(t)
  BY <1>1, <1>2, <1>5 DEF IsInjective, ToSet, t
<1>6. IsPrefix(s, t)
  BY <1>1, <1>2, <1>3 DEF IsPrefix, t
<1>7. QED BY <1>4, <1>5, <1>6 DEF t

\* What is kept of a session: its turns, or none of them.
LEMMA KeptTurns ==
  ASSUME Types, NEW s \in Sessions, Forgetting(s)
  PROVE  /\ Kept(s) \in Seq(Requests)
         /\ ToSet(Kept(s)) \subseteq ToSet(turns[s])
         /\ ToSet(turns[s]) \subseteq ToSet(Kept(s)) \cup forgotten'
         /\ forgotten \subseteq forgotten'
         /\ IsInjective(turns[s]) => IsInjective(Kept(s))
BY DEF Types, Kept, Forgetting, ToSet, IsInjective

LEMMA TurnsStep ==
  ASSUME SessionsInv, Types', NEW r \in Requests, Step(r) \/ Recognition(r)
  PROVE  TurnsAreAnswered'
<1> DEFINE s == session[r]
<1>1. Types /\ s \in Sessions
  BY DEF SessionsInv, Types
<1>2. Moves(r) /\ Kinds(s, r)
  BY <1>1, RequestMoves
<1>3. \A q \in Requests : status[q] \in Answering => status'[q] \in Answering
  BY <1>1, <1>2 DEF Moves, Answering, Types, Statuses, Ended
<1> HIDE DEF s
<1>4. ASSUME NEW u \in Sessions, turns'[u] = turns[u]
      PROVE  /\ IsInjective(turns'[u])
             /\ \A q \in ToSet(turns'[u]) : session'[q] = u /\ status'[q] \in Answering
  <2>1. ToSet(turns[u]) \subseteq Requests
    BY <1>1 DEF Types, ToSet
  <2>2. IsInjective(turns[u])
        /\ \A q \in ToSet(turns[u]) : session[q] = u /\ status[q] \in Answering
    BY DEF SessionsInv, TurnsAreAnswered, Answering
  <2>3. QED BY <1>2, <1>3, <1>4, <2>1, <2>2 DEF Moves
<1>5. ASSUME Forgetting(s), turns' = [turns EXCEPT ![s] = turns'[s]],
             turns'[s] = Kept(s) \/
             (turns'[s] = Append(Kept(s), r) /\ status[r] \notin Answering
              /\ status'[r] \in Answering /\ s = session[r])
      PROVE  TurnsAreAnswered'
  <2>1. /\ Kept(s) \in Seq(Requests) /\ ToSet(Kept(s)) \subseteq ToSet(turns[s])
        /\ IsInjective(Kept(s))
        /\ ToSet(turns[s]) \subseteq Requests
        /\ \A q \in ToSet(Kept(s)) : session[q] = s /\ status[q] \in Answering
    <3>1. IsInjective(turns[s])
          /\ \A q \in ToSet(turns[s]) : session[q] = s /\ status[q] \in Answering
      BY <1>1 DEF SessionsInv, TurnsAreAnswered, Answering
    <3>2. ToSet(turns[s]) \subseteq Requests
      BY <1>1 DEF Types, ToSet
    <3>3. QED BY <1>1, <1>5, <3>1, <3>2, KeptTurns
  <2>2. /\ IsInjective(turns'[s])
        /\ \A q \in ToSet(turns'[s]) : session'[q] = s /\ status'[q] \in Answering
    <3>1. CASE turns'[s] = Kept(s)
      BY <1>2, <1>3, <2>1, <3>1 DEF Moves
    <3>2. CASE turns'[s] = Append(Kept(s), r) /\ status[r] \notin Answering
               /\ status'[r] \in Answering /\ s = session[r]
      <4>1. r \notin ToSet(Kept(s))
        BY <2>1, <3>2
      <4>2. ToSet(turns'[s]) = ToSet(Kept(s)) \cup {r} /\ IsInjective(turns'[s])
        BY <2>1, <3>2, <4>1, TurnAppended
      <4>3. QED BY <1>2, <1>3, <2>1, <3>2, <4>2 DEF Moves
    <3>3. QED BY <1>5, <3>1, <3>2
  <2>3. \A u \in Sessions : u # s => turns'[u] = turns[u]
    BY <1>1, <1>5 DEF Types
  <2>4. QED BY <1>4, <2>2, <2>3 DEF TurnsAreAnswered, Answering
<1>6. CASE UNCHANGED <<turns, forgotten>>
  BY <1>4, <1>6 DEF TurnsAreAnswered, Answering
<1>7. CASE Lookup(s) /\ Forgetting(s)
  BY <1>1, <1>5, <1>7 DEF Lookup, Types
<1>8. CASE AppendTurn(s, r) /\ Forgetting(s) /\ status[r] \notin Answering
           /\ status'[r] \in Answering /\ s = session[r]
  BY <1>1, <1>5, <1>8 DEF AppendTurn, Types
<1>9. QED BY <1>2, <1>6, <1>7, <1>8 DEF Kinds

\* A step takes no turn from a session without forgetting it.
LEMMA Retained ==
  ASSUME Types, NEW s \in Sessions, NEW r \in Requests, Kinds(s, r), NEW u \in Sessions
  PROVE  ToSet(turns[u]) \subseteq ToSet(turns'[u]) \cup forgotten' /\ forgotten \subseteq forgotten'
<1>1. CASE UNCHANGED <<turns, forgotten>>
  BY <1>1
<1>2. CASE Forgetting(s) /\ (Lookup(s) \/ AppendTurn(s, r))
  <2>1. /\ Kept(s) \in Seq(Requests) /\ forgotten \subseteq forgotten'
        /\ ToSet(turns[s]) \subseteq ToSet(Kept(s)) \cup forgotten'
    BY <1>2, KeptTurns
  <2>2. turns' = [turns EXCEPT ![s] = Kept(s)] \/ turns' = [turns EXCEPT ![s] = Append(Kept(s), r)]
    BY <1>2 DEF Lookup, AppendTurn
  <2>3. ToSet(Append(Kept(s), r)) = ToSet(Kept(s)) \cup {r}
    BY <2>1, TurnAppended
  <2>4. CASE u = s
    BY <2>1, <2>2, <2>3, <2>4 DEF Types
  <2>5. CASE u # s
    BY <2>1, <2>2, <2>5 DEF Types
  <2>6. QED BY <2>4, <2>5
<1>3. QED BY <1>1, <1>2 DEF Kinds

LEMMA RememberedStep ==
  ASSUME SessionsInv, Types', NEW r \in Requests, Step(r) \/ Recognition(r)
  PROVE  Remembered' /\ AgentRemembers'
<1> DEFINE s == session[r]
           known == {q \in Requests : status[q] = "done" /\ session[q] = s}
<1>1. Types /\ s \in Sessions /\ Remembered /\ AgentRemembers
  BY DEF SessionsInv, Types
<1>2. Moves(r) /\ Kinds(s, r)
  BY <1>1, RequestMoves
<1>3. seen' = seen \/ (status[r] = "new" /\ seen' = [seen EXCEPT ![r] = known])
  BY <1>1, RequestMoves
<1>4. \A u \in Sessions : ToSet(turns[u]) \subseteq ToSet(turns'[u]) \cup forgotten'
  BY <1>1, <1>2, Retained
<1>5. forgotten \subseteq forgotten'
  BY <1>1, <1>2, Retained
<1>6. \A q \in Requests : q # r => status'[q] = status[q]
  BY <1>1, <1>2 DEF Moves, Types
<1>7. session' = session /\ \A q \in Requests : session[q] \in Sessions
  BY <1>1, <1>2 DEF Moves, Types
<1>8. ASSUME NEW q \in Requests, status'[q] \in Answering
      PROVE  q \in ToSet(turns'[session'[q]]) \cup forgotten'
  <2>1. CASE status[q] \in Answering
    <3>1. q \in ToSet(turns[session[q]]) \cup forgotten
      BY <1>1, <2>1 DEF Remembered
    <3>2. QED BY <1>4, <1>5, <1>7, <3>1
  <2>2. CASE status[q] \notin Answering
    <3>1. q = r /\ AppendTurn(s, r) /\ Forgetting(s)
      BY <1>2, <1>6, <1>8, <2>2 DEF Moves, Answering
    <3>2. Kept(s) \in Seq(Requests)
      BY <1>1, KeptType
    <3>3. turns'[s] = Append(Kept(s), r)
      BY <1>1, <3>1 DEF AppendTurn, Types
    <3>4. r \in ToSet(turns'[s])
      BY <3>2, <3>3, TurnAppended
    <3>5. QED BY <1>7, <3>1, <3>4
  <2>3. QED BY <2>1, <2>2
<1>9. ASSUME NEW x \in Requests, NEW q \in seen'[x]
      PROVE  q \in Requests /\ status[q] = "done" /\ status'[q] = "done" /\ session[q] = session[x]
  <2>1. q \in Requests /\ status[q] = "done" /\ session[q] = session[x]
    <3>1. CASE q \in seen[x]
      BY <1>1, <3>1 DEF Remembered, Types
    <3>2. CASE q \notin seen[x]
      <4>1. seen' = [seen EXCEPT ![r] = known]
        BY <1>3, <1>9, <3>2
      <4>2. x = r /\ q \in known
        BY <1>1, <1>9, <3>2, <4>1 DEF Types
      <4>3. QED BY <4>2
    <3>3. QED BY <3>1, <3>2
  <2>2. q # r
    BY <1>2, <2>1 DEF Moves, Ended
  <2>3. QED BY <1>6, <2>1, <2>2
<1>10. Remembered'
  BY <1>7, <1>8, <1>9 DEF Remembered
<1>11. ASSUME NEW x \in Requests, status'[x] = "routing", NEW q \in seen'[x]
       PROVE  q \in ToSet(history'[x]) \cup forgotten'
  <2>1. CASE x = r
    <3>1. history'[r] = Kept(s) /\ Forgetting(s)
      BY <1>2, <1>11, <2>1 DEF Moves
    <3>2. q \in ToSet(turns[s]) \cup forgotten
      BY <1>1, <1>9, <1>11, <2>1 DEF Remembered, Answering
    <3>3. ToSet(turns[s]) \subseteq ToSet(Kept(s)) \cup forgotten'
      BY <1>1, <3>1, KeptTurns
    <3>4. QED BY <1>5, <2>1, <3>1, <3>2, <3>3
  <2>2. CASE x # r
    <3>1. status[x] = "routing" /\ history'[x] = history[x]
      BY <1>2, <1>6, <1>11, <2>2 DEF Moves
    <3>2. seen'[x] = seen[x]
      BY <1>1, <1>3, <2>2 DEF Types
    <3>3. q \in ToSet(history[x]) \cup forgotten
      BY <1>1, <1>11, <3>1, <3>2 DEF AgentRemembers
    <3>4. QED BY <1>5, <3>1, <3>3
  <2>3. QED BY <2>1, <2>2
<1>12. AgentRemembers'
  BY <1>11 DEF AgentRemembers
<1>13. QED BY <1>10, <1>12

LEMMA SessionsInvariance == Spec => []SessionsInv
<1>1. Init => SessionsInv
  <2> SUFFICES ASSUME Init PROVE SessionsInv
    OBVIOUS
  <2>1. ToSet(<<>>) = {} /\ IsInjective(<<>>) /\ <<>> \in Seq(Requests)
    BY DEF ToSet, IsInjective
  <2>2. \A s \in Sessions : turns[s] = <<>>
    BY DEF Init, SessionsInit
  <2>3. Types
    BY <2>1 DEF Init, SessionsInit, Types, Statuses
  <2>4. TurnsAreAnswered
    BY <2>1, <2>2 DEF TurnsAreAnswered
  <2>5. Remembered /\ AgentRemembers
    BY DEF Init, Remembered, AgentRemembers, Answering
  <2>6. QED BY <2>3, <2>4, <2>5 DEF SessionsInv
<1>2. SessionsInv /\ [Next]_vars => SessionsInv'
  <2> SUFFICES ASSUME SessionsInv, [Next]_vars PROVE SessionsInv'
    OBVIOUS
  <2>1. Types'
    BY TypesStep DEF SessionsInv
  <2>2. ASSUME NEW r \in Requests, Step(r) \/ Recognition(r) PROVE SessionsInv'
    BY <2>1, <2>2, TurnsStep, RememberedStep DEF SessionsInv
  <2>3. CASE \A r \in Requests : ~Step(r) /\ ~Recognition(r)
    <3>1. UNCHANGED <<turns, status, setting, history, seen, forgotten>>
      BY <2>3, OtherSteps DEF SessionsInv
    <3>2. QED BY <2>1, <3>1 DEF SessionsInv, setting, TurnsAreAnswered, Remembered, AgentRemembers
  <2>4. QED BY <2>2, <2>3
<1>3. QED BY <1>1, <1>2, PTL DEF Spec

\* What was answered before a request came is in the history that its agent gets,
\* unless the session expired.
THEOREM OrchestratorRemembers == Spec => []AgentRemembers
BY SessionsInvariance, PTL DEF SessionsInv

\* The turns of a session are those of its own answered requests, each once.
THEOREM OrchestratorKeepsAnswered == Spec => []TurnsAreAnswered
BY SessionsInvariance, PTL DEF SessionsInv

\* No request overwrites the turns of another.
THEOREM OrchestratorOnlyAppends == Spec => SessionsGrow
<1> DEFINE Grows == \A s \in Sessions : Expired(s) \/ IsPrefix(turns[s], turns'[s])
<1>1. SessionsInv /\ [Next]_vars => [Grows]_vars
  <2> SUFFICES ASSUME Types, [Next]_vars PROVE Grows
    BY DEF SessionsInv
  <2> SUFFICES ASSUME NEW u \in Sessions, ~Expired(u) PROVE IsPrefix(turns[u], turns'[u])
    OBVIOUS
  <2>1. turns[u] \in Seq(Requests) /\ IsPrefix(turns[u], turns[u]) /\ Kept(u) = turns[u]
    BY DEF Types, IsPrefix, Kept
  <2>2. ASSUME NEW r \in Requests, Step(r) \/ Recognition(r)
        PROVE  turns'[u] \in {turns[u], Append(turns[u], r)}
    <3> DEFINE s == session[r]
    <3>1. s \in Sessions /\ Kinds(s, r)
      BY <2>2, RequestMoves DEF Types
    <3> HIDE DEF s
    <3>2. CASE UNCHANGED <<turns, forgotten>>
      BY <3>2
    <3>3. CASE Lookup(s)
      BY <2>1, <3>1, <3>3 DEF Lookup, Types
    <3>4. CASE AppendTurn(s, r)
      BY <2>1, <3>1, <3>4 DEF AppendTurn, Types
    <3>5. QED BY <3>1, <3>2, <3>3, <3>4 DEF Kinds
  <2>3. CASE \A r \in Requests : ~Step(r) /\ ~Recognition(r)
    BY <2>1, <2>3, OtherSteps
  <2>4. QED BY <2>1, <2>2, <2>3, TurnAppended
<1>2. QED BY <1>1, SessionsInvariance, PTL DEF Spec, SessionsGrow

-----------------------------------------------------------------------------
(* What is counted.                                                         *)

\* The requests that ended in one way, those that ended well by their endpoint.
EndedAs(how, e) == {r \in Requests : status[r] = how /\ (how = "done" => Endpoint(r) = e)}

EndsInv ==
  /\ Types
  /\ requests \in [Endpoints -> Nat] /\ errors \in [ErrorCodes -> Nat]
  /\ \A e \in Endpoints :
       IsFiniteSet(EndedAs("done", e)) /\ requests[e] = Cardinality(EndedAs("done", e))
  /\ \A code \in ErrorCodes : \A e \in Endpoints :
       IsFiniteSet(EndedAs(code, e)) /\ errors[code] = Cardinality(EndedAs(code, e))

\* A request that ends is counted where it belongs.
LEMMA CountedOnce ==
  ASSUME Types, NEW r \in Requests, Step(r) \/ Recognition(r)
  PROVE  /\ requests' = IF status'[r] = "done" THEN [requests EXCEPT ![Endpoint(r)] = @ + 1]
                        ELSE requests
         /\ errors' = IF status'[r] \in ErrorCodes
                      THEN [errors EXCEPT ![status'[r]] = @ + 1]
                      ELSE errors
<1> USE DEF Types, At, ErrorCodes, setting, counters
<1> DEFINE Claim ==
      /\ requests' = IF status'[r] = "done" THEN [requests EXCEPT ![Endpoint(r)] = @ + 1]
                     ELSE requests
      /\ errors' = IF status'[r] \in ErrorCodes THEN [errors EXCEPT ![status'[r]] = @ + 1]
                   ELSE errors
<1> SUFFICES Claim
  OBVIOUS
<1>1. ASSUME Reply(r), UNCHANGED errors PROVE Claim
  BY <1>1 DEF Reply, Respond
<1>2. ASSUME CallAgent(r), UNCHANGED errors PROVE Claim
  BY <1>1, <1>2 DEF CallAgent, RouteMock, RouteHttp
<1>3. ASSUME Analyze(r), UNCHANGED errors PROVE Claim
  BY <1>2, <1>3 DEF Analyze
<1>4. ASSUME NEW code \in ErrorCodes, Fails(r, code) PROVE Claim
  BY <1>4 DEF Fails
<1>5. CASE ArriveByText(r) \/ Transcribed(r) \/ Heard(r)
  BY <1>3, <1>5 DEF ArriveByText, Transcribed, Heard
<1>6. CASE ArriveByVoice(r) \/ IsRefused(r)
  BY <1>6 DEF ArriveByVoice, IsRefused
<1>7. CASE AudioIsUnusable(r) \/ NoProviderLeft(r) \/ AgentFails(r)
  BY <1>4, <1>7 DEF AudioIsUnusable, NoProviderLeft, AgentFails
<1>8. CASE Translated(r)
  BY <1>2, <1>8 DEF Translated
<1>9. CASE Answered(r)
  BY <1>1, <1>9 DEF Answered
<1>10. CASE Spoken(r)
  BY <1>10 DEF Spoken, Respond
<1>11. CASE Listen(r) \/ GiveUp(r)
  BY <1>11 DEF Listen, GiveUp
<1>12. QED
  BY <1>5, <1>6, <1>7, <1>8, <1>9, <1>10, <1>11 DEF Step, Recognition

\* The requests that have ended in one way, after a step of one of them.
LEMMA OneMoreEnd ==
  ASSUME Types, NEW r \in Requests, Moves(r), NEW how \in Ended, NEW e \in Endpoints,
         IsFiniteSet(EndedAs(how, e))
  PROVE  /\ IsFiniteSet(EndedAs(how, e)')
         /\ Cardinality(EndedAs(how, e)') =
              Cardinality(EndedAs(how, e)) +
                IF status'[r] = how /\ (how = "done" => Endpoint(r) = e) THEN 1 ELSE 0
         /\ Cardinality(EndedAs(how, e)) \in Nat
<1> DEFINE S == EndedAs(how, e)
           Belongs(q) == how = "done" => Endpoint(q) = e
           T == {q \in Requests : status'[q] = how /\ Belongs(q)}
<1>1. EndedAs(how, e)' = T
  BY DEF EndedAs, Moves, Endpoint
<1>2. ~(status'[r] = how /\ Belongs(r)) => T = S
  BY DEF Moves, Types, EndedAs
<1>3. status'[r] = how /\ Belongs(r) => T = S \cup {r} /\ r \notin S
  BY DEF Moves, Types, EndedAs
<1> HIDE DEF S, T
<1>4. IsFiniteSet(S) /\ Cardinality(S) \in Nat
  BY FS_CardinalityType DEF S
<1>5. status'[r] = how /\ Belongs(r) => IsFiniteSet(T) /\ Cardinality(T) = Cardinality(S) + 1
  BY <1>3, <1>4, FS_AddElement
<1>6. QED BY <1>1, <1>2, <1>4, <1>5 DEF S

\* Every end is counted exactly once.
THEOREM OrchestratorCountsEnds == Spec => []EndsAreCounted
<1>1. Init => EndsInv
  <2> SUFFICES ASSUME Init PROVE EndsInv
    OBVIOUS
  <2>1. Types
    <3>1. <<>> \in Seq(Requests)
      OBVIOUS
    <3>2. QED BY <3>1 DEF Init, SessionsInit, Types, Statuses
  <2>2. \A how \in Ended : \A e \in Endpoints : EndedAs(how, e) = {}
    BY DEF Init, EndedAs, Ended, ErrorCodes
  <2>3. requests = [e \in Endpoints |-> 0] /\ errors = [code \in ErrorCodes |-> 0]
    BY DEF Init
  <2>4. QED BY <2>1, <2>2, <2>3, FS_EmptySet DEF EndsInv, Ended
<1>2. EndsInv /\ [Next]_vars => EndsInv'
  <2> SUFFICES ASSUME EndsInv, [Next]_vars PROVE EndsInv'
    OBVIOUS
  <2>1. Types'
    BY TypesStep DEF EndsInv
  <2>2. ASSUME NEW r \in Requests, Step(r) \/ Recognition(r) PROVE EndsInv'
    <3>1. Types /\ Moves(r)
      BY <2>2, RequestMoves DEF EndsInv
    <3>2. Endpoint(r) \in Endpoints
      BY DEF Endpoint, Endpoints
    <3>3. requests' \in [Endpoints -> Nat] /\ errors' \in [ErrorCodes -> Nat]
      BY <2>2, <3>1, <3>2, CountedOnce DEF EndsInv
    <3>4. ASSUME NEW e \in Endpoints
          PROVE  /\ IsFiniteSet(EndedAs("done", e)')
                 /\ requests'[e] = Cardinality(EndedAs("done", e)')
      <4>1. /\ IsFiniteSet(EndedAs("done", e)')
            /\ Cardinality(EndedAs("done", e)') =
                 requests[e] + IF status'[r] = "done" /\ Endpoint(r) = e THEN 1 ELSE 0
            /\ requests[e] \in Nat
        BY <3>1, OneMoreEnd DEF EndsInv, Ended
      <4>2. requests'[e] = requests[e] + IF status'[r] = "done" /\ Endpoint(r) = e THEN 1 ELSE 0
        BY <2>2, <3>1, <3>2, <4>1, CountedOnce DEF EndsInv
      <4>3. QED BY <4>1, <4>2
    <3>5. ASSUME NEW code \in ErrorCodes, NEW e \in Endpoints
          PROVE  /\ IsFiniteSet(EndedAs(code, e)')
                 /\ errors'[code] = Cardinality(EndedAs(code, e)')
      <4>1. /\ IsFiniteSet(EndedAs(code, e)')
            /\ Cardinality(EndedAs(code, e)') =
                 errors[code] + IF status'[r] = code THEN 1 ELSE 0
            /\ errors[code] \in Nat
        BY <3>1, OneMoreEnd DEF EndsInv, Ended, ErrorCodes
      <4>2. errors'[code] = errors[code] + IF status'[r] = code THEN 1 ELSE 0
        BY <2>2, <3>1, <4>1, CountedOnce DEF EndsInv
      <4>3. QED BY <4>1, <4>2
    <3>6. QED BY <2>1, <3>3, <3>4, <3>5 DEF EndsInv
  <2>3. CASE \A r \in Requests : ~Step(r) /\ ~Recognition(r)
    <3>1. UNCHANGED <<status, setting, counters>>
      BY <2>3, OtherSteps DEF EndsInv
    <3>2. \A how \in Ended : \A e \in Endpoints : EndedAs(how, e)' = EndedAs(how, e)
      BY <3>1 DEF EndedAs, Endpoint, setting
    <3>3. requests' = requests /\ errors' = errors
      BY <3>1 DEF counters
    <3>4. ASSUME NEW e \in Endpoints
          PROVE  /\ IsFiniteSet(EndedAs("done", e)')
                 /\ requests'[e] = Cardinality(EndedAs("done", e)')
      BY <3>2, <3>3 DEF EndsInv, Ended
    <3>5. ASSUME NEW code \in ErrorCodes, NEW e \in Endpoints
          PROVE  /\ IsFiniteSet(EndedAs(code, e)')
                 /\ errors'[code] = Cardinality(EndedAs(code, e)')
      <4>1. EndedAs(code, e)' = EndedAs(code, e)
        BY <3>2 DEF Ended
      <4>2. IsFiniteSet(EndedAs(code, e)) /\ errors[code] = Cardinality(EndedAs(code, e))
        BY DEF EndsInv
      <4>3. QED BY <3>3, <4>1, <4>2
    <3>6. QED BY <2>1, <3>3, <3>4, <3>5 DEF EndsInv
  <2>4. QED BY <2>2, <2>3
<1>3. EndsInv => EndsAreCounted
  <2> SUFFICES ASSUME EndsInv PROVE EndsAreCounted
    OBVIOUS
  <2>1. \A e \in Endpoints :
          EndedAs("done", e) = {r \in Requests : status[r] = "done" /\ Endpoint(r) = e}
    BY DEF EndedAs
  <2>2. \A code \in ErrorCodes : \A e \in Endpoints :
          EndedAs(code, e) = {r \in Requests : status[r] = code}
    BY DEF EndedAs, ErrorCodes
  <2>3. "text" \in Endpoints
    BY DEF Endpoints
  <2>4. ASSUME NEW e \in Endpoints
        PROVE  requests[e] = Cardinality({r \in Requests : status[r] = "done" /\ Endpoint(r) = e})
    BY <2>1 DEF EndsInv
  <2>5. ASSUME NEW code \in ErrorCodes
        PROVE  errors[code] = Cardinality({r \in Requests : status[r] = code})
    BY <2>2, <2>3 DEF EndsInv
  <2>6. QED BY <2>4, <2>5 DEF EndsAreCounted
<1>4. QED BY <1>1, <1>2, <1>3, PTL DEF Spec
=============================================================================
