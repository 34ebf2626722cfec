# Specifications of Tax Agent

TLA+ models of the Tax Agent backend (`src/backend`) and of its page, the TLC runs that check
them on small instances, and proofs, checked by TLAPS, of their main safety
properties for every instance. Paths below are relative to `src/`.

Tax Agent is two services in one process: a chat assistant that streams answers
grounded in a tax corpus, and an older voice and text gateway that sends
requests through interchangeable cloud providers. The process is one asyncio
event loop (uvicorn). Code between two awaits or yields runs alone; at every
await or yield any other request may run. Threads are used only to run local
speech recognition. All state is in memory, except for one JSON file per
conversation and an append-only audit file.

## 1. The system

| Component | State | Operations | Interacts with |
| --- | --- | --- | --- |
| Conversation store, `backend/chat/conversation_store.py` | dictionary of conversations, one snapshot file each | create, get, list, delete, add_message, truncate_after, history; load at start | called by the endpoints and the engine |
| Chat engine and endpoints, `backend/chat/engine.py`, `backend/chat_api.py` | none of its own: suspended generators | stream, regenerate, edit, create, delete; `stream_reply` | store, guardrails, retriever, language model, the client's connection |
| Guardrails, `backend/security/guardrails.py` with detectors, PII masking | none | `check_input`, `sanitize_output` | rate limiter, audit log |
| Rate limiter, `backend/security/rate_limiter.py` | a token bucket per client | `check` | guardrails |
| Audit log, `backend/security/audit.py` | last 500 records, a file | `record`, `recent`, `security_events` | guardrails, admin endpoint |
| Language models, `backend/llm/` | none | `stream_chat`, health | engine |
| Retrieval, `backend/rag/` | index, built once | `retrieve`, chunking, ingestion | engine |
| Provider router, `backend/providers/provider_router.py` | default provider, failures and opening time per provider | `execute`, `set_default`, `health_all` | providers, translator, orchestrator, switch endpoint |
| Providers, `backend/providers/*_provider.py` | none | speech, translation, synthesis, health | cloud services |
| Translator, `backend/services/translator.py` | none of its own | `translate` | router, response cache |
| Response cache and session store, `backend/cache/in_memory.py` | entries with expiry; turns per session with sliding expiry | get, set, clear; append_turn, history | translator, orchestrator |
| Orchestrator, `backend/services/orchestrator.py`, `agent_client.py` | none of its own | `process_text`, `process_voice` | translator, router, agent, session store |
| Gateway endpoints, `backend/main.py` | none | text, voice, provider switch, health, metrics | all of the gateway |
| Local speech recognition, `backend/services/local_stt.py` | the loaded model, behind a lock | warm, transcribe | mock provider, worker threads |
| Metrics, `backend/middlewares/metrics.py` | counters, a bounded window | record, snapshot | every request |
| User interface, `frontend/app.js` | the page's conversation, messages, streaming flag | send, edit, regenerate, stop, dictate | chat endpoints |
| Configuration, schemas, text and audio utilities, corpus ingestion, demo, deployment | none | | |

What is hard in it, and what makes each component correct:

* *Chat.* Several requests may stream into the same conversation (two tabs, a
  regeneration or an edit while an answer is under way), the conversation may be
  deleted under them, the client may go away, the model or a save may fail.
  Correct means: answers are saved once, in the right conversation, below their
  question; whoever asks the model tells it every answer there is; clients with one
  stream at a time have the model see what they see; `done` means saved; deleted
  stays deleted; every request ends.
* *Store.* The dictionary changes before the file, the file is emptied before it
  is rewritten, and the process may stop anywhere. Correct means: a restart finds
  what callers were shown, except where a file operation was cut short.
* *Router.* Executions share the circuit breaker and are suspended while they
  wait for a provider. Correct means: failing providers are spared, the chain
  reported is what happened, executions end, providers come back.
* *Cache, sessions, translator, orchestrator, switch.* State read before an
  await and used after it; expiry and eviction at their boundaries.
* *Rate limiter, guardrails, audit.* The bound on what a client can send in any
  window, without refusing it early; every answer has its record in the audit
  file, whatever writes fail.
* *Retrieval and models.* Chunks share their ends and are cut at lengths that
  interact; citations are numbered in one component, sent by another and saved by
  a third; models fail at any event, in ways the engine expects or not. Correct
  means: no text is lost between two chunks or indexed twice; a mark is backed by
  the source saved under its number; what is saved is what was shown; a model
  ends every call as its contract says.
* *Local speech recognition.* Threads that nobody can stop want one model.
  Correct means: it is loaded at most once, and never used before.
* *User interface.* One page with several streams and a conversation switch,
  whose handlers interleave with late events. Correct means: the stop button
  stops a stream that is being read; an id on the page is that of the saved
  answer it stands on; a user who waits sees what the model sees; everything comes
  to rest.

## 2. The modules

| Module | Models | Role |
| --- | --- | --- |
| `Conversation` | message lists: find, truncate, user turns | operators of the next three |
| `ConversationStore` | the store with its files | component |
| `ConversationLog` | what the store promises | abstract specification |
| `ChatEngine` | chat endpoints and `stream_reply`, many requests | component |
| `ChatClients` | `ChatEngine` with clients that keep to `docs/API.md`, beside free ones | composition |
| `ChatUi` | one page of `app.js` over `ChatEngine` | composition |
| `ChatUsers` | `ChatUi` with users of three habits | composition |
| `Chunker` | `chunk_document` | component |
| `Retrieval` | the index and the search over `Chunker` | composition |
| `ModelStream` | `stream_chat` of the three language models over `Retrieval` | component |
| `LlmContract` | what `llm/base.py` promises of a model | abstract specification |
| `Answers` | one question through retrieval, model and engine | composition |
| `ProviderRouter` | router and circuit breaker | component |
| `TtlCache` | the response cache | component |
| `RecentValues` | what a cache with expiry promises | abstract specification |
| `Translator` | `translate` over `ProviderRouter` and `TtlCache` | composition |
| `RateLimiter` | the token buckets | component |
| `Guardrails` | `check_input` over `RateLimiter`, with the audit log | composition |
| `SessionStore` | the sessions with their sliding expiry | component |
| `LocalStt` | the speech model, its lock and its threads | component |
| `Orchestrator` | `process_text` and `process_voice` over `SessionStore` and `LocalStt` | composition |
| `MC...` | instances of the above | symmetry sets, chains, kinds of clients and users |
| `..._proofs` | | theorems |

The operators named "Mutant of ..." are plausible wrong versions of the operator
they stand before. No specification uses them; substituting one for its operator
makes the property it is listed with in `PROJECT.json` fail, which shows that the
property depends on that code.

### ConversationStore

`cache` is `_cache`; `disk` maps an id to the conversation its file spells out,
to `Absent`, or to `Torn`, a file that `_load_all` rejects. An operation
(`Create`, `AddMessage`, `TruncateAfter`, `Delete`) changes the dictionary and
leaves a `job`, the file operation it still has to do. `OpenSnapshot` and
`FinishSnapshot` are `write_text`: open for writing, which truncates the file,
then the content. `FileOperationFails` is any `OSError`; what it leaves behind is
remembered in the history variable `unsaved`. No operation starts while another
has a job, because the store's lock is held and the operation has no await.
`Stop` may come between any two of these steps; `Boot` is
`ConversationStore.__init__` on the same directory. A message is its id and its
role; a title is named by the message it was derived from. `get`, `list` and
`history` only read.

`ConversationLog` is the store without files: conversations are born once, grow
by a message, lose messages at their end or are dropped, and a restart leaves
alone every conversation that is not `atRisk`. `LogSpec` in `ConversationStore`
instantiates it with what a caller sees (the dictionary, or what a start would
load) and with the conversations whose file operation is under way or failed.

### ChatEngine

One HTTP request is one coroutine; an action is the code between two suspension
points. `pc` says where the request is suspended: `opened` (response returned,
generator not yet run), `started` (the `start` event yielded), `asking` (the
model's reply awaited and passed on), `fallback` (the words for a failed reply
yielded), or how it ended. `OpenStream`, `OpenStreamOnNew`, `OpenRegenerate` and
`OpenEdit` are the endpoints up to the response they return, `Begin` is the
guardrails' decision with the user turn, `Ask` the history and the call of the
model, `Save` the last turn with `done`. The branches for a deleted conversation
(a `KeyError`), a failing save (an `OSError` after the dictionary was changed),
a failing audit line, `LLMError` and any other exception of a model are actions
of their own. `Disconnect` closes a generator wherever it is suspended.

A request writes at most one message of each role, so its name and the role are
the id of the message. `asks` is the request whose question a regeneration
answers. `turns` is what was handed to `stream_chat`, each turn with the message
its text came from and whether it was the message or the prompt (the question
with attachments and translation folded in). Left out: the text of notices, the
language step (it changes the prompt's words only), sanitizing; what is retrieved
and answered is in `Answers`. The guardrails' decision is any decision; `flag`
passes like `allow`. Endpoints accept any conversation and any message id, null
included (`SentIds`). `OpenEdit` takes any id, as the code does: an unknown id
truncates nothing. Snapshots are left to `ConversationStore`; the stop of the
process is too.

### ChatUi

The page's variables are `current` (`state.conversationId`), `streaming`, `abort`
(whose controller is `state.abort`), `page` (the elements of `#messages` with
their `dataset.mid`) and `reading`, how far `streamRequest` has come for each
request. Handlers run to completion, so an action is the code from one event to
the next await: `Send`, `Edit`, `Regenerate` with the part of `streamRequest`
before its fetch (`StreamRequest`); `ReadConversation`, `ReadDone`, `ReadFailure`
for what arrives; `Stop`; `OpenConversation`, `NewChat`, `Delete`. Every request
of this module is a stream of the page, and the server under it is `ChatEngine`
as it stands: the page's actions take its actions (`OpenStream`, ...), and
`Server` is any step of a request there. `Unknown` is a request for a
conversation or an answer the server does not know.

Abstractions: a request reaches its endpoint in the step that sends it, so what
is delayed is only the response. `openConversation` changes the page and
`deleteConversation` compares `state.conversationId` after an await
(`app.js:77-78`, `app.js:83-87`); here both do it in the step that asks the server,
so a page that changes during these two awaits is left out. The `done` event and the end of its stream are read
in one step, since between them the answer has no buttons. There is one page;
other clients are what `ChatEngine` alone is checked with. Dictation, attachments,
the theme and rendering are left out.

### Chunker, Retrieval, ModelStream, Answers

`Chunker` is `chunk_document` as a program: `Pack` takes the next paragraph into
the buffer, behind a chunk if the buffer is full, `Cut` is a turn of the while
loop that cuts a long buffer, `EndSection` makes the last chunk of a section. A
text is the sequence of its paragraphs' lengths, 0 being a heading; a character is
its paragraph and its place there, and the breaks put between paragraphs are
the only thing `strip` can remove; that it also drops spaces within a paragraph where
one is cut (`chunker.py:69`, `chunker.py:86`) is left out. Chunks carry the characters they hold, so
that what a boundary loses or doubles can be seen. `InOrder` puts a set of numbers
into its order; the library's `SetToSortSeq` does the same by an operator of TLC
that has no definition a proof could use.

`Retrieval` indexes the chunks by words and searches them. A word is a line of
the document that holds it (a paragraph, a heading, or the title), and every piece
of that paragraph holds it. Scores are floating point
arithmetic; all that is kept of them is that they put the candidates into some
order, so a search returns any sequence of at most k candidates.

`ModelStream` has one server with one of the three models, chosen at the start
as `build_llm` does, and one call. `stage` is where the generator is suspended,
`event` what it yielded last, `end` whether it is open, has returned or what it
raised. The words of an answer are left out, except for the sentences the mock
takes from its sources with their citation marks. The ranking is any order, and
picking from any order the first sentence of each key until there are enough gives
any sentences with keys of their own (`Picks`); the key, the number of sentences and
the fallback are the code's. A question is the figures in it (`Questions`), with or
without a unit, and `CalculatorIntent` the first of them that is an income, those with
a unit before the bare ones; a bare figure of nothing but commas raises `ValueError`
(`MockMisreads`). The mock's tax calculator is the code's loop over the slabs, with
amounts in thousands of rupees and taxes as exact fractions of them; the final
rounding is left out. `SlabSums` is that loop, a recursive function of six turns.
Groq and Anthropic are modelled from what their code makes of the answers of the
services, which are any answers. Groq maps a `RequestError` of httpx to an
`LLMError`; Anthropic maps four classes of its SDK (`anthropic_llm.py:94-103`) and lets any
other exception, such as a connection that breaks within the stream, through
(`AnthropicFails`).

`Answers` is lines 143 to 218 of `engine.py` for one question over these: `Ask`
retrieves and calls the model, `Model` lets it go on, `Handle` passes an event on
and collects it, `Fail`, `Complete`, `Crash` and `Leave` are the ways out.
`LlmContract` is the sentence of `base.py` about streams that a provider keeps;
`ContractSpec` instantiates it with the events of the call. It requires in
addition that nothing follows `done`, which the code keeps.

### ProviderRouter

`failures` and `openFor` are the breaker: the count is cut off at the threshold,
above which no code tells counts apart, and `openFor` is the time since
`opened_at` in ticks, cut off at the recovery time. An execution waits only for
a provider's answer, so `Execute`, `Succeed` and `Fail` take it from one call to
the next or to its end: `Proceed` is the loop over the remaining providers, with
`CallNext` for the first one whose circuit is not open, and `GiveUp` for
`AllProvidersFailedError`. Skipping a provider does not await, so it is part of
these actions. `Candidates` is the list `order` draws from; a provider counts
where it occurs first. `chain` is the `fallback_chain`. A timeout, a
`ProviderError` and any other exception have the same effect and are `Fail`. The
caller's preference is any name, registered or not. `Mock` is the literal
"mock". Latencies and reasons are left out. `health_all` only reads.

### TtlCache and Translator

`store` is `_store`: each key's value with the ticks left until it expires. An
entry is valid up to and including its expiry and is dropped only by a lookup;
until then it takes up room. Which of several expired entries is evicted first
is left open. `RecentValues` is the cache its callers see, values with their
age; `RecentSpec` in `TtlCache` instantiates it with the entries that have not
expired. The counts of hits and misses are left out.

`Translator` has the variables of both and `want`, the key for which an
execution in the router was begun. `Miss` is the lookup with the call of the
router up to its first await, `Served` the router's answer with the storing of
the payload; `Hit` does not reach the router. A payload is the text, the
provider and what the router's metadata says of the primary one. Speech
operations of the voice endpoint, which act on the breaker as translations do
and leave the cache alone, are left out. The time of the breaker and the time of
the cache pass independently, which allows any ratio of their windows.

### RateLimiter and Guardrails

`tokens` is what `check` finds in a client's bucket. The code computes a refill
when it looks, from the time since it last looked; the model refills every
bucket at every tick, which comes to the same because both cut off at the
capacity. Amounts are in units of which a request costs `Cost` and a tick brings
`Rate`, so that a token may come in parts. `passage` remembers the requests
admitted and the ticks. The hints `remaining` and `retry_after` are left out.

`check_input` does not await, so one action, `CheckInput`, is a whole check: the
limiter, then validation, then the decision on the scores of the detectors, of
which a text keeps only what they decide, and the audit record. `file` is the
audit file write by write, `recent` the tail kept in memory. A write may fail
(`AuditFails`) and leave nothing, a part of its line, or all of it: `check_input`
raises, the client has paid, and the tail does not change. The file is opened for
appending, so the next record is written behind a part without a newline, on the
same line (`audit.py:34`). What `AnswersAreAudited` promises is therefore not a line
of its own for every answer. It is that the record of every answer is in the file,
whole and once; that it shares its line, if at all, with failed writes right
before it, whose requests got no answer, so that no two answers share one; and that
the tail shows the end of the file.

### SessionStore, LocalStt and Orchestrator

`turns` and `idle` are a session's entry: its turns and the time since the last
of them. `Lookup` is `history`, which drops an expired session, `AppendTurn`
starts it anew. A turn is named by its request.

`LocalStt` has a thread for each transcription and the one that `main.py` starts
to warm the model. `at` is where a thread is, `holder` the threads within
`with _lock`, `model` stands for `_model` and `_load_failed` ("mute" is a load that
failed with an empty message, which `available` does not take for a failure),
`loads` counts the loads begun. The read of `available` takes no lock. Local recognition is enabled
and installed.

`Orchestrator` has one coroutine per request. `status` says what it awaits:
`transcribing`, `listening` (the mock provider's thread), `translating`,
`routing` (the service of the agent) or `speaking`. `agent` is the mode of
`agent_client.py`: the mock answers within the step that asks it (`RouteMock`) and
looks at no history, the HTTP client reads the history, sends it and waits
(`RouteHttp`), and may fail (`AgentFails`). `Listen`, `Heard` and `GiveUp` are the mock
provider's turn in the transcription: it starts a thread of `LocalStt`, and the
router's `wait_for` may give up while the thread goes on. The history is read in
the action that calls the agent and the turn is added in the action
that takes its answer (`Reply`). What is awaited answers, or every provider fails
(`NoProviderLeft`); `Translator` and `ProviderRouter` model how. An upload that
`validate_audio` refuses is `AudioIsUnusable`. A synthesis for which every provider
failed is left out of the response (`Spoken`). `requests` and `errors` are the
metrics' counters by endpoint and by error code; `Fails` is the exception handlers
that count the second, and `IsRefused` the one that counts nothing: a body that
does not validate is answered with 400 and appears in no counter
(`main.py:121-138`). Whether a text needs a translation is
nondeterministic; texts, timings and the blocks of the response are left out.
`seen` and `forgotten` are history variables: the requests of the session that
were answered when a request arrived, and those whose turns expired.

## 3. The runs

| Run | Instance | Shows |
| --- | --- | --- |
| `store` | 2 conversations, 3 messages, symmetric ids | types, `SnapshotsFollowCache`, `TitleNamesFirstQuestion`, refinement of `LogSpec` |
| `store_torn` | 1 conversation, 2 messages | finding: a stop during a write loses the conversation |
| `chat` | 3 requests, 1 conversation, free or documented clients, symmetric requests | types, `AnswersAreTold`, `AnswersInPlace`, `LostOnlyWhenDeleted`, `DeletedStaysDeleted`, `DoneMeansSaved`; `DocumentedClientsAreServed` |
| `ui` | 3 streams of a patient user or 2 of a careful or a hasty one, 2 conversations | `StopStopsAStream`, `NamesAreSaved`, `UsersAreServed`; `AllComesToRest` under fairness |
| `ui_edit` | 2 streams | finding: an edit of the page truncates nothing |
| `router` | 2 executions, a chain with a repetition and an unregistered name, threshold 2, recovery 2 | types, breaker and chain, `FailingProviderIsSheltered`; `ExecutionsEnd`, `CircuitsRecover` under fairness |
| `router_persistent` | 1 execution | finding: no shelter after the first recovery |
| `cache` | 4 keys, 2 values, 3 places, time to live 5, symmetric keys and values | types, `SizeBounded`, refinement of `RecentSpec` |
| `translator` | 2 executions, 2 providers and an unregistered name, 1 text, 1 place, time to live 1, threshold 1 | `CachedAnswersAreTrue`, `OnlyAnswersAreCached` |
| `guardrails` | 3 requests, 2 clients, burst 1, half a token per tick, 3 ticks, a tail of 2, symmetric | `TightestWindow`, `AnswersAreAudited` |
| `orchestrator` | 3 requests of which at most 2 by voice, 2 sessions, time to live 1, the warm-up thread, symmetric | `AgentRemembers`, `TurnsAreAnswered`, `EndsAreCounted`, `SessionsGrow`, `OneModel` |
| `answers` | 985 documents in chunks of 8 that share 2, questions on 4 of them, 3 models | `BoundariesAreCovered`, `ChunksAreSound`, `SavedIsShown`, `MarksAreBacked`, `TaxIsBySlab`, refinement of `ContractSpec`; `AnswersEnd` under fairness |

The clients of `chat` (`client` in `ChatClients`): a free one asks for anything
at any time. A documented one uses the endpoints as `docs/API.md` describes them: it
regenerates assistant messages and edits user messages it can see. That it also waits
for one stream of a conversation to end before it starts the next is an assumption
of this module, which `docs/API.md` does not state. Endpoints refuse it as usual,
streams fail, disconnect and lose their conversation as usual. What the documented one is owed
(`DocumentedClientsAreServed`: answers directly below their questions, the model
given what the user sees) does not hold of the free one. What holds of all is
`AnswersAreTold`: the prompt overwrites the user turn that is last, whosever it is
(`engine.py:161-162`), but never an answer or the question of an answer.

The users of `ui` (`habit` in `ChatUsers`): a hasty one presses whatever can be
pressed. A careful one does not edit while a stream is read; it can stop every
stream and regenerates in the right conversation. A patient one edits nothing,
regenerates only answers that have an id and turns to another conversation only
when the server is done with every stream; nothing is hidden from it.
`UsersAreServed` states what each is owed, and the weaker habits do not have the
stronger guarantees (see below). With three streams (the patient user), a
blocked request, the step between a failed reply and its saving, and an audit
failure are left out, because the page tells none of them from an answer or from
a stream that breaks elsewhere; with two streams they are in.

Bounds. Three requests are enough for one request to be overtaken by another
between each of its steps while a third truncates or asks again. Two
conversations are enough to see a write of one harm the other, or a page taken
from one to the other, and three messages for a truncation in the middle, at the
first message and at the last. A threshold
of two distinguishes the first failure from the one that opens the circuit (the
setting is five), a recovery of two ticks an elapsed window from a fresh one and
from one under way (the setting is 300 seconds), and two executions are enough
for a late answer. Three places are enough to hold expired and young entries at
once with a fourth key outside, and a time to live of five for all of them to
have different ages. In `translator` keys differ in the provider they name, so
that several compete for the one place. In `guardrails` three ticks (`Horizon`)
bring a whole token and a half, three requests overfill a tail of two, and a
bucket meets every boundary: full, exactly affordable, short by a part. In
`orchestrator` three requests are enough for two turns to be kept between another
request's read and its append; a time to live of one tick distinguishes a session
that is fresh, at its limit and expired; two voice requests and the warm-up
thread are three threads that want the model. In `answers` the documents are all
texts of one and two lines with paragraphs of every length up to 14 (a chunk and
a half is 12 characters), and of 18 and 24, which are cut twice and more, besides
longer texts of the lengths at which packing and cutting differ; the questions
that are asked of four of them meet a paragraph in two chunks, short paragraphs
that are carried on, two sections, and an empty index. The figures of the questions
are those at and beside the limits of the slabs and of the rebate, several at once,
and figures that are none. `MaxTexts` bounds the
texts of Groq and Anthropic: two are enough for one to be blank at either end.
`KeyLength`, `MinSentence`, `MaxPicked` and `MaxFallback` stand for 60, 30, 6 and 3,
scaled down like the chunks (700 characters that share 120). The counts of
requests, conversations and messages are the constants themselves: each
identifier is used once, as the uuids of the code are. Symmetry is used only for
identifiers that are compared for equality alone, and only in runs without
liveness.

Deadlock is checked in every run. The store can always stop or boot, the router
can always execute, the page can always open a new chat; `ChatEngine`,
`Guardrails`, `Orchestrator` and `MCAnswers` have a step that changes nothing
once everything is over.

Fairness. `UiFairness` assumes weak fairness of each request's next step on the
server (the event loop runs every coroutine that can run, and the clients of the
language models are built with `LLM_TIMEOUT_SECONDS`, `backend/llm/groq_llm.py:92`,
`backend/llm/anthropic_llm.py:66`, so a reply ends or raises) and of the reading of
what has arrived (the event loop of the browser). `Answers` assumes the same of
its one request, of the generator below it and of the chunking loop.
`ProviderRouter` assumes it of each waiting execution, because `wait_for` ends
every call, and of the clock. Nothing is assumed of users, clients or
connections: no fairness makes anybody call, stay, stop or leave.

### Findings

Each is a run TLC finds violated, with the sentence it contradicts.

1. `store_torn`: `_persist` rewrites a snapshot in place. A stop after the file
   was emptied loses the conversation with its earlier, saved turns
   (`conversation_store.py:4`, "history survives a restart").
2. `ui_edit`: the page learns an id only from the `done` event of an answer, so
   the edit of a user message sends none. The server finds no such message,
   truncates nothing and appends the new question below all that the page has
   just removed (`docs/API.md:39`, "truncates everything after it"; `app.js:220`).
3. `router_persistent`: `opened_at` is not renewed by a failed trial, so a
   provider that goes on failing is called, and waited for, by every later
   execution (`provider_router.py:8`, "skipped quickly").

Seen while modelling, without a run:

* Router: `order` appends mock only if it is not in the chain yet, so with the
  default settings mock comes first and the configured cloud providers after it
  (`provider_router.py:93`, "guaranteed last"). After the recovery window every
  execution tries the provider (`provider_router.py:44`, "allow a single trial").
  Voice requests that wait for the speech model time out and count as failures
  of mock, whose circuit the text translations share (`provider_router.py:127`).
  The blocking SDK call at `gcp_provider.py:40` holds up the event loop.
* Chat: a conversation deleted under a stream ends it with a `KeyError` instead
  of `done` (`docs/API.md:27`, "terminal event"). A stream that is under way when
  its question is edited away still appends its answer, and part of the removed
  turns returns (`engine.py:217`). An empty or oversized message is rejected
  after the rate limit has charged for it (`SECURITY.md:11`, "before any
  processing"). `sanitize_output` sees one piece of a streamed text at a time
  (`engine.py:181`), so what is split between two pieces is not masked. If two
  streams of a conversation have begun before one of them asks, that one tells the
  model its own question twice, as the message and as the prompt, and the other's
  question not at all (`engine.py:161-162`). The question of a blocked request is
  saved (`engine.py:88`) and told to the model with the history of every later one
  (`engine.py:144`).
* Audit: after a write that broke off, the next record stands behind the fragment
  on one line, which is no JSON then (`audit.py:34`; `audit.py:3`, "Every request
  writes one JSON line").
* Page: the end of one stream clears the button and the controller of another
  (`app.js:331`). A slow stream's `conversation` event takes the page back after
  the user has turned to another conversation (`app.js:304`). Regenerating an
  answer without an id removes it from the page although the server refuses and
  keeps it (`app.js:198`). Regenerating an answer in the middle keeps the
  elements below it, which the server has dropped.
* Models: an error inside a Groq stream with status 200 is skipped like an empty
  line and the answer saved as complete (`groq_llm.py:121`); a line that is JSON of
  another shape raises an exception nobody catches (`groq_llm.py:63`). The
  calculator has no marginal relief: one rupee above the rebate costs the whole
  tax (`mock_llm.py:74`). A bare figure counts as an income from 50,000 on
  (`mock_llm.py:250`, ">= 1,00,000"), and six commas raise `ValueError`
  (`mock_llm.py:252`), which no handler of the engine catches. Nor does any catch an
  error of Anthropic's transport in mid-stream (`anthropic_llm.py:94-103`).
* Metrics: an error is counted without its request, so that `error_rate_percent`
  may pass a hundred (`metrics.py:80`), and every provider's `success` is counted
  as true, because only responses are recorded.
* Chunker: an overlap of at least the chunk size is accepted by the settings and
  never ends (`chunker.py:72`); `OverlapAssumption` excludes it. An overlap that
  leaves less than five characters of a chunk makes chunks that hold nothing new: TLC
  finds `ChunksAreSound` violated with chunks of 8 that share 6. The theorem about it
  therefore assumes `Overlap + 4 < MaxChars`; the settings are 150 and 900
  (`settings.py:141`).

## 4. The proofs

All theorems hold for every value of the constants that satisfies the modules'
assumptions: any sets of conversations, messages, requests, sessions and threads;
any providers, fallback list, threshold of at least one and recovery time; any
burst, cost and rate; any documents, questions, chunk size and smaller overlap (one
theorem, `ChunksSound`, needs the overlap to be smaller by five). `ThreadsAssumption`
says that each request has its thread and the warm-up thread is another;
`QuestionsAssumption` that a figure with a unit has a digit, as the regular expression
demands; the other assumptions only keep the sentinel values (`Absent`, `Torn`,
`None`, ...) apart from real ones. Every invariant of the passing runs is the
conclusion of one of them, and so is every action property.

* `Lists_proofs`: a set of positions in a list has a least and a greatest
  element, and `Min` and `Max` of the library are these; what truncation returns,
  that the cut of a list keeps the first question or has none, that a message
  appended to a list keeps it, and what remains of a list without one of its places.
* `ConversationStore_proofs`: `StoreTypeCorrect`, `StoreSnapshots`,
  `StoreTitles`, `StoreImplementsLog`. The strengthening (`Bookkeeping`,
  `TitlesRight`) says that every id in the dictionary or on disk was given out,
  which keeps `create` from meeting an old file, that the conversation whose file
  is about to be unlinked is out of the dictionary, that a stopped process has no
  file operation under way, and that titles are right in the files too, since
  `Boot` brings them back. In the refinement every step is a birth, a rewrite, a
  drop, a settling, a restart or a stutter of the log.
* `Chat_proofs`, for the server: `EngineTypeCorrect`, `EngineTellsAnswers`,
  `EngineKeepsAnswersInPlace`, `EngineLosesOnlyDeleted`, `EngineNeverResurrects`,
  `EngineSavesBeforeDone`. The strengthening says where the messages in a
  conversation come from (`Written`: who wrote one, at which stage its request is)
  and what a request that has begun knows (`Bookkeeping`). A cut keeps every order
  between messages; an append puts a message below all others, and the message is
  new because its request has not reached its end before. For `EngineTellsAnswers` the
  turns of the history stand where the messages stand, once each by `Written`; the one
  turn the prompt takes the place of is the last and a user's, so it is no answer,
  and it is no answer's question either, because answers stand below their questions.
* `Chat_proofs`, for documented clients: `DocumentedClientsServed`. The
  strengthening (`Served`) is that a conversation has one stream at a time
  (`OneStream`), that a request which will write its question answers that one
  (`OwnWords`), and that from the time when the question stands in the conversation
  until it is answered it is the last message (`UnderItsQuestion`). A client's own
  steps are steps of `ChatEngine` (`DocumentedIsNext`), so what is proved of the free
  one is at hand.
* `Chat_proofs`, for the page: `PageStopsAStream`, `PageNamesAreSaved`. Under any
  step of the page the server takes a step of its own specification or refuses a
  request (`ServerStep`), so it keeps its types and what is done stays done
  (`DoneStays`). `PageInv` adds that an element has no id, or that of the answer
  it stands on, whose request is done; a user's element never gets one, so an
  edit, which gives its element another question, keeps the names right.
* `Chat_proofs`, for the users: `UsersServed`. For those who do not edit while a
  stream is read, `NamesInv` says that a stream whose conversation the page was told
  is in the page's conversation while the page shows its answer, and that a page
  waiting to be told has no name of another conversation. For the patient one,
  `PatientInv` says that the page shows all of the conversation it is in, or is about
  to be in, and every message that a stream of it will add (`Visible`), and that
  conversations begin with a question, which no regeneration cuts off
  (`QuestionsFirst`).
* `ProviderRouter_proofs`: `RouterTypeCorrect`, `RouterBreakerConsistent`,
  `RouterFailsOverInOrder`, `RouterShelters`. The strengthening is that whoever
  is called belongs to the chain (`CalledIsNamed`). The loop is one lemma: if
  everybody up to a place was skipped or failed and nobody after it touched, then
  after `Proceed` this holds up to the next place.
* `Contracts_proofs`, for the cache: `CacheTypeCorrect`, `CacheBounded`,
  `CacheKeepsRecentValues`. The strengthening is that the entries held are finitely
  many, whatever the keys, since one is added at a time. In the refinement an eviction
  is invisible if the entry evicted had expired; if it had not, it is the closest to
  expiry, so no entry held has expired, and the cache is full of values that can be
  seen.
* `Contracts_proofs`, for the chunks: `BoundariesCovered`, `ChunksSound`.
  `DistinctInv` says that no character is twice in the buffer or in a chunk and that
  the buffer has only paragraphs of its section that were packed. `CoverInv` follows
  every stretch of text of at most the overlap: it stands in a chunk or is still whole
  in the buffer, and a cut that takes it out of the buffer leaves it in the chunk or
  in what is carried on. `SoundInv` says that the end of the buffer is in no chunk yet,
  and that where the buffer is to be cut only `Overlap + 4` characters at its beginning
  may be in one; these four are the breaks put behind what is carried on.
* `Contracts_proofs`, for the answers: `AnswersKeepContract`, `AnswersSavedIsShown`,
  `AnswersMarksAreBacked`, `AnswersTaxIsBySlab`. `CallInv` ties the stage of a call to
  the event it yielded last, and with it every step of a model is a step of
  `LlmContract` or none. `KeptInv` says that what is collected mirrors the texts that
  were shown, in their order, and that the citations are the sources or still to come;
  stripping then only drops blank texts at the ends. `MarksInv` says of the texts that
  are collected, being handed over and still to be told that their marks are backed
  and that no two of them tell the same; `IndexInv` that the sources are chunks, each
  once. `TaxInv` says that every result was computed from its income, which is a
  number; that the loop of the calculator is the sum over the slabs is a lemma about
  one turn (`TurnAddsPart`), applied six times. The loop stops, or stands where the next
  slab begins.
* `Translator_proofs`: `TranslatorTellsTheTruth`, `TranslatorCachesAnswers`. The
  strengthening says of every execution that is suspended at a provider that its
  key names the head of its chain (`Wanted`), and that whoever leads the chain was
  skipped or has failed before anybody else was called (`Underway`). The router's
  loop keeps that for the execution it moves and leaves the others alone
  (`ProceedCalls`); the cache drops, ages, or is given entries that are true of
  their keys (`StoreStep`).
* `Guardrails_proofs`: `LimiterTypeCorrect`, `LimiterIsExact`,
  `GuardrailsAreExact`, `GuardrailsAudit`. A bucket holds at
  most what each window leaves, and exactly what one of them leaves. A request
  takes its cost from every window that contains it; a refill below the capacity
  adds to every window; a refill that is cut off makes the empty window at the end
  the tightest. Both halves are needed, since the first alone would allow a
  limiter that refuses everybody. The counting is `OccursAppend`: one event more
  is one occurrence more in every window. Every step of `check_input` is a step of
  the limiter (`ChecksAreLimited`), so its theorem carries over. For the audit log,
  `AuditInv` adds that who has not been checked left nothing in the file, and `TailInv`
  keeps the places of the tail's records in it: an answer puts its record below all
  others and pushes out the first place, a failed write changes neither. What is not
  whole belongs to a request that failed (`FailuresSpoil`), so an answer's record can
  be spoilt only by what stands before it.
* `Orchestrator_proofs`: `OrchestratorLoadsOnce`, `OrchestratorRemembers`,
  `OrchestratorKeepsAnswered`, `OrchestratorOnlyAppends`,
  `OrchestratorCountsEnds`. `SttInv` says who holds the lock and what the model is
  then: the holder is the one thread that loads, and a load begins only while there
  was none. `Remembered` strengthens the memory to all requests the agent has
  answered, not only those a request has seen: their turns are in the session or
  forgotten. The counters are cardinalities of finite sets of ended requests, and
  each step ends at most one.

Only model-checked: the liveness properties `AllComesToRest`, `AnswersEnd`,
`ExecutionsEnd` and `CircuitsRecover`, which need fairness and `ENABLED`, outside
the prover's reach.

Four properties are stated so that a proof can use them. Sorting, filtering and
folding of lists are recursive in the library and need induction over data, which the
provers cannot do. `SavedIsShown` and `TailEndsTheFile` therefore speak of an order
preserving map between the two lists instead of filtering one of them;
`MarksAreBacked` speaks of the sentences that may be picked (`Picks`) instead of a
loop; `TaxIsBySlab` writes out the sum of the six slabs.

## 5. Not modelled, and what may come next

Not modelled: providers' and models' network clients, detectors and PII masking,
language detection and normalisation (text classification by regular expressions
and word lists), audio validation, attachments, PDF ingestion, configuration and
data classes, the demo script, deployment files, vendored assets. They keep no
state that these properties depend on; what the models need of them is a
nondeterministic input. Of `main.py`, the health check that `api_switch` awaits
before it sets the default is left out, because only the text of its response
depends on it; of the metrics, the counters by language and provider and the bounded
window of latencies, which record and nothing reads back but a report.

Next: `api_switch` with its await; `openConversation` and `deleteConversation` with
theirs; the metrics' window; two pages on one conversation; dictation and
attachments of the page.
