---------------------------- MODULE Orchestrator ----------------------------
(***************************************************************************)
(* process_text and process_voice of backend/services/orchestrator.py over *)
(* the session store, with the agent client and the counters of the        *)
(* gateway.  A request is a coroutine that is suspended while it awaits    *)
(* speech recognition, a translation, the service of the agent or speech   *)
(* synthesis (Translator and ProviderRouter model what happens there: an   *)
(* answer or AllProvidersFailedError; LocalStt the threads behind the mock *)
(* provider).  Between awaits it runs alone; it reads the session's        *)
(* history before it asks the agent and adds its turn after.               *)
(***************************************************************************)
EXTENDS SessionStore, LocalStt, SequencesExt

CONSTANT Requests

ASSUME ThreadsAssumption == Workers = Requests /\ Warmer \notin Requests

VARIABLES
  status,   \* where a request is suspended, or how it ended
  session,  \* its session_id
  voice,    \* the requests of the voice endpoint
  agent,    \* settings.USE_MOCK_AGENT: "mock" or "http"
  history,  \* what the service of the agent was given
  requests, \* metrics.by_endpoint, whose sum is metrics.requests_total
  errors,   \* metrics.errors_by_code
  seen,     \* history variable: the session's requests answered before it came
  forgotten \* history variable: requests whose turns expired

setting == <<session, voice, agent>>
counters == <<requests, errors>>
vars == <<sessionVars, sttVars, status, setting, history, counters, seen, forgotten>>

\* A request that failed ended with one of these, which are counted, or with the
\* VALIDATION_ERROR of a body that was refused, which is not.
ErrorCodes == {"ALL_PROVIDERS_FAILED", "INTERNAL_ERROR"}
Ended == {"done", "VALIDATION_ERROR"} \cup ErrorCodes

Endpoints == {"text", "voice"}
Endpoint(r) == IF r \in voice THEN "voice" ELSE "text"

Init ==
  /\ SessionsInit /\ SttInit
  /\ status = [r \in Requests |-> "new"]
  /\ session \in [Requests -> Sessions]
  /\ voice \in SUBSET Requests
  /\ agent \in {"mock", "http"}
  /\ history = [r \in Requests |-> <<>>]
  /\ requests = [e \in Endpoints |-> 0]
  /\ errors = [code \in ErrorCodes |-> 0]
  /\ seen = [r \in Requests |-> {}]
  /\ forgotten = {}

At(r, where) == status' = [status EXCEPT ![r] = where]

\* What expiry takes from a session that is looked up or appended to.
Forgetting(s) ==
  forgotten' = forgotten \cup (IF Expired(s) THEN ToSet(turns[s]) ELSE {})

\* Mutant of KeepTurn: the session is written back as it was read.
KeepTurnStale(r) ==
  /\ turns' = [turns EXCEPT ![session[r]] = Append(history[r], r)]
  /\ idle' = [idle EXCEPT ![session[r]] = 0]

\* Mutant of KeepTurn: only the voice endpoint keeps the turn.
KeepTurnOfVoice(r) ==
  IF r \in voice THEN AppendTurn(session[r], r) ELSE UNCHANGED sessionVars

KeepTurn(r) == AppendTurn(session[r], r)

\* The response, counted by record_request.
Respond(r) ==
  /\ At(r, "done")
  /\ requests' = [requests EXCEPT ![Endpoint(r)] = @ + 1]

\* The agent has answered: its turn is kept.  Audio is returned only by the voice
\* endpoint, if it is asked for.
Reply(r) ==
  /\ KeepTurn(r)
  /\ Forgetting(session[r])
  /\ \/ Respond(r)
     \/ r \in voice /\ At(r, "speaking") /\ UNCHANGED requests

\* The mock agent awaits nothing and cannot fail; what it says depends on the
\* question alone.
RouteMock(r) == agent = "mock" /\ Reply(r) /\ UNCHANGED history

\* Mutant of RouteHttp: the turn is kept before the agent has answered.
RouteHttpKeeping(r) ==
  /\ agent = "http"
  /\ AppendTurn(session[r], r)
  /\ Forgetting(session[r])
  /\ history' = [history EXCEPT ![r] = Kept(session[r])]
  /\ At(r, "routing")
  /\ UNCHANGED requests

\* The service of the agent is sent the history, and awaited.
RouteHttp(r) ==
  /\ agent = "http"
  /\ Lookup(session[r])
  /\ Forgetting(session[r])
  /\ history' = [history EXCEPT ![r] = Kept(session[r])]
  /\ At(r, "routing")
  /\ UNCHANGED requests

CallAgent(r) == RouteMock(r) \/ RouteHttp(r)

\* _analyze: English is not translated, and nothing is awaited for it.
Analyze(r) ==
  \/ CallAgent(r)
  \/ /\ At(r, "translating")
     /\ UNCHANGED <<sessionVars, history, requests, forgotten>>

\* Mutant of Fails: an error that is raised is counted as a request, too.
FailsCountedTwice(r, code) ==
  /\ At(r, code)
  /\ errors' = [errors EXCEPT ![code] = @ + 1]
  /\ requests' = [requests EXCEPT ![Endpoint(r)] = @ + 1]
  /\ UNCHANGED <<sessionVars, setting, history, forgotten>>

\* The handlers of AllProvidersFailedError and of any other exception.
Fails(r, code) ==
  /\ At(r, code)
  /\ errors' = [errors EXCEPT ![code] = @ + 1]
  /\ UNCHANGED <<sessionVars, setting, history, requests, forgotten>>

\* What a request finds answered when it comes in.
Arrives(r) ==
  /\ status[r] = "new"
  /\ seen' = [seen EXCEPT ![r] =
                {q \in Requests : status[q] = "done" /\ session[q] = session[r]}]

ArriveByText(r) ==
  /\ Arrives(r) /\ r \notin voice
  /\ Analyze(r)
  /\ UNCHANGED <<setting, errors>>

ArriveByVoice(r) ==
  /\ Arrives(r) /\ r \in voice
  /\ At(r, "transcribing")
  /\ UNCHANGED <<sessionVars, setting, history, counters, forgotten>>

\* The body or the form of a request is not what its endpoint declares.
IsRefused(r) ==
  /\ Arrives(r)
  /\ At(r, "VALIDATION_ERROR")
  /\ UNCHANGED <<sessionVars, setting, history, counters, forgotten>>

\* validate_audio raises AudioValidationError, which has no handler of its own.
AudioIsUnusable(r) ==
  /\ Arrives(r) /\ r \in voice
  /\ Fails(r, "INTERNAL_ERROR")

Transcribed(r) ==
  /\ status[r] = "transcribing"
  /\ Analyze(r)
  /\ UNCHANGED <<setting, errors, seen>>

\* The turn of the mock provider: MockProvider.speech_to_text awaits a thread.
Listen(r) ==
  /\ status[r] = "transcribing" /\ Available
  /\ Start(r)
  /\ At(r, "listening")
  /\ UNCHANGED <<sessionVars, setting, history, counters, seen, forgotten>>

\* The thread ends; without a text from it the mock has a sample.
Heard(r) ==
  /\ status[r] = "listening" /\ at[r] = "over"
  /\ Analyze(r)
  /\ UNCHANGED <<sttVars, setting, errors, seen>>

\* The router's wait_for gives up; a provider that comes later in the chain may answer.
GiveUp(r) ==
  /\ status[r] = "listening" /\ at[r] # "over"
  /\ At(r, "transcribing")
  /\ UNCHANGED <<sttVars, sessionVars, setting, history, counters, seen, forgotten>>

Translated(r) ==
  /\ status[r] = "translating"
  /\ CallAgent(r)
  /\ UNCHANGED <<setting, errors, seen>>

\* No provider is left to transcribe or to translate.
NoProviderLeft(r) ==
  /\ status[r] \in {"transcribing", "translating"}
  /\ Fails(r, "ALL_PROVIDERS_FAILED")
  /\ UNCHANGED seen

\* The service of the agent answers.
Answered(r) ==
  /\ status[r] = "routing"
  /\ Reply(r)
  /\ UNCHANGED <<setting, history, errors, seen>>

\* It does not answer in time, or answers with an error or with no JSON.
AgentFails(r) ==
  /\ status[r] = "routing"
  /\ Fails(r, "INTERNAL_ERROR")
  /\ UNCHANGED seen

\* Speech is synthesised, or every provider fails and it is left out.
Spoken(r) ==
  /\ status[r] = "speaking"
  /\ Respond(r)
  /\ UNCHANGED <<sessionVars, setting, history, errors, seen, forgotten>>

Thread ==
  /\ \E t \in Threads : ThreadStep(t)
  /\ UNCHANGED <<sessionVars, status, setting, history, counters, seen, forgotten>>

Tick ==
  /\ SessionTick
  /\ UNCHANGED <<sttVars, status, setting, history, counters, seen, forgotten>>

Quiet ==
  /\ \A r \in Requests : status[r] \in Ended
  /\ \A t \in Threads : at[t] \in {"unborn", "over"}
  /\ UNCHANGED vars

Step(r) ==
  \/ ArriveByText(r) \/ ArriveByVoice(r) \/ IsRefused(r) \/ AudioIsUnusable(r)
  \/ Transcribed(r) \/ Translated(r) \/ NoProviderLeft(r)
  \/ Answered(r) \/ AgentFails(r) \/ Spoken(r)

Recognition(r) == Listen(r) \/ Heard(r) \/ GiveUp(r)

Next ==
  \/ \E r \in Requests : Step(r) /\ UNCHANGED sttVars
  \/ \E r \in Requests : Recognition(r)
  \/ Thread \/ Tick \/ Quiet

Spec == Init /\ [][Next]_vars

-----------------------------------------------------------------------------
(* Properties.                                                              *)

\* Concurrent requests of a session do not overwrite each other's turns: a session
\* grows at its end, and is forgotten only as a whole and after its time to live.
SessionsGrow ==
  [][\A s \in Sessions : Expired(s) \/ IsPrefix(turns[s], turns'[s])]_vars

\* A user who has an answer finds its turn in the history of the next question, for
\* the agent to resolve it, unless the session fell idle.
AgentRemembers ==
  \A r \in Requests : status[r] = "routing" =>
    \A q \in seen[r] : q \in ToSet(history[r]) \cup forgotten

\* A session has the turns of its own requests, each once, and only of those the
\* agent has answered.
TurnsAreAnswered ==
  \A s \in Sessions :
    /\ IsInjective(turns[s])
    /\ \A q \in ToSet(turns[s]) :
         session[q] = s /\ status[q] \in {"speaking", "done"}

\* Every request that an endpoint took up is counted once when it has ended, under its
\* endpoint or under its error, and nothing else is counted.
EndsAreCounted ==
  /\ \A e \in Endpoints :
       requests[e] = Cardinality({r \in Requests : status[r] = "done" /\ Endpoint(r) = e})
  /\ \A code \in ErrorCodes :
       errors[code] = Cardinality({r \in Requests : status[r] = code})
=============================================================================
