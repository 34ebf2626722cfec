------------------------------- MODULE ChatUi -------------------------------
(***************************************************************************)
(* The page of frontend/app.js over the server of ChatEngine: what one     *)
(* page shows, which conversation it takes itself to be in, and the        *)
(* streams it reads.  Every request of this module is a stream of the page.*)
(*                                                                         *)
(* Handlers run to completion, so an action is the code from one event to  *)
(* the next await.  A request reaches its endpoint in the step that sends  *)
(* it; what the server answers is read later, when other handlers have run.*)
(* The done event and the end of its stream are read in one step: between  *)
(* them the answer has no buttons yet.                                     *)
(***************************************************************************)
EXTENDS ChatEngine

VARIABLES
  current,   \* state.conversationId
  streaming, \* state.streaming: the button says Stop
  abort,     \* the request whose controller is state.abort
  page,      \* the elements of #messages
  reading    \* how far streamRequest has come for each request

ASSUME NoRequestAssumption == Absent \notin Requests

uiVars == <<current, streaming, abort, page, reading>>
allVars == <<vars, uiVars>>

\* No response yet; the conversation event handled; an answer that is no stream.
Reading == {"waiting", "told", "failed"}

\* A message element: what it shows, its dataset.mid, and whether it is the
\* element that a streamRequest of this page made.
Element(id) == [id |-> id, mid |-> Absent, live |-> FALSE]

\* The element a stream writes its answer to, wherever the page has gone.
IsOf(el, r) == el.live /\ el.id = Answer(r).id

UiInit ==
  /\ Init
  /\ current = Absent
  /\ streaming = FALSE
  /\ abort = Absent
  /\ page = <<>>
  /\ reading = [r \in Requests |-> "none"]

-----------------------------------------------------------------------------
(* Streams.                                                                 *)

\* streamRequest up to its fetch, below what is kept of the page.
StreamRequest(r, kept) ==
  /\ streaming' = TRUE
  /\ abort' = r
  /\ page' = Append(kept, [id |-> Answer(r).id, mid |-> Absent, live |-> TRUE])
  /\ reading' = [reading EXCEPT
       ![r] = IF pc'[r] \in Streaming THEN "waiting" ELSE "failed"]
  /\ UNCHANGED current

\* An endpoint does not know the conversation, or is given none.
Unknown(r, endpoint) ==
  /\ pc[r] = "idle"
  /\ kind' = [kind EXCEPT ![r] = endpoint]
  /\ GoTo(r, "rejected")
  /\ UNCHANGED <<conv, born, target, asks, decision, turns>>

Known(c) == c # Absent /\ Exists(c)

\* Mutant of Send: the button does not look whether a stream is read.
SendUnguarded(r) ==
  /\ IF Known(current)
     THEN OpenStream(r, current)
     ELSE \E c \in Convs : OpenStreamOnNew(r, c)
  /\ StreamRequest(r, Append(page, Element(Question(r).id)))

\* The composer is submitted with something in it.
Send(r) ==
  /\ ~streaming
  /\ IF Known(current)
     THEN OpenStream(r, current)
     ELSE \E c \in Convs : OpenStreamOnNew(r, c)
  /\ StreamRequest(r, Append(page, Element(Question(r).id)))

\* Save & submit of an edit box: everything below the edited element goes, and
\* the element shows the new words.  The button works while a stream is read.
Edit(r, i) ==
  /\ page[i].id[2] = "user"
  /\ IF Known(current)
     THEN OpenEdit(r, current, page[i].mid)
     ELSE Unknown(r, "edit")
  /\ StreamRequest(r, Append(SubSeq(page, 1, i - 1),
                             [page[i] EXCEPT !.id = Question(r).id]))

\* An answer gets its buttons when its stream has been read.
Finalized(el) == el.live => reading[el.id[1]] = "over"

\* The button below an answer: its element goes, those below it stay.
Regenerate(r, i) ==
  /\ ~streaming
  /\ page[i].id[2] = "assistant"
  /\ Finalized(page[i])
  /\ IF Known(current) /\ CanRegenerate(current, page[i].mid)
     THEN OpenRegenerate(r, current, page[i].mid)
     ELSE Unknown(r, "regenerate")
  /\ StreamRequest(r, RemoveAt(page, i))

\* The first event of a reply to a message: whatever the page has become, it now
\* is in that conversation.
ReadConversation(r) ==
  /\ reading[r] = "waiting"
  /\ kind[r] = "stream"
  /\ current' = target[r]
  /\ reading' = [reading EXCEPT ![r] = "told"]
  /\ UNCHANGED <<vars, streaming, abort, page>>

\* Mutant of Named: the last element gets the name.
NamedLast(els, r, mid) ==
  IF els = <<>> THEN els ELSE [els EXCEPT ![Len(els)].mid = mid]

\* dataset.mid of the stream's own element.
Named(els, r, mid) ==
  [i \in DOMAIN els |->
     IF IsOf(els[i], r) THEN [els[i] EXCEPT !.mid = mid] ELSE els[i]]

\* Mutant of Finish: the controller of another stream is left alone, the button
\* is not.
FinishKeepingAbort(r, mid) ==
  /\ reading[r] \in Reading
  /\ reading' = [reading EXCEPT ![r] = "over"]
  /\ page' = Named(page, r, mid)
  /\ streaming' = FALSE
  /\ abort' = IF abort = r THEN Absent ELSE abort
  /\ UNCHANGED <<vars, current>>

\* Mutant of Finish: what follows the loop is not reached when the stream failed.
FinishUnlessFailed(r, mid) ==
  /\ reading[r] \in Reading
  /\ reading' = [reading EXCEPT ![r] = "over"]
  /\ page' = Named(page, r, mid)
  /\ streaming' = (streaming /\ mid = Absent)
  /\ abort' = IF mid = Absent THEN abort ELSE Absent
  /\ UNCHANGED <<vars, current>>

\* The end of streamRequest, which takes every other stream to have ended too.
Finish(r, mid) ==
  /\ reading[r] \in Reading
  /\ reading' = [reading EXCEPT ![r] = "over"]
  /\ page' = Named(page, r, mid)
  /\ streaming' = FALSE
  /\ abort' = Absent
  /\ UNCHANGED <<vars, current>>

\* The stream ends with done.
ReadDone(r) ==
  /\ pc[r] = "done"
  /\ kind[r] = "stream" => reading[r] = "told"
  /\ Finish(r, Answer(r).id)

\* The stream ends without it, is cut off, or was none.
ReadFailure(r) == pc[r] \in Ended /\ Finish(r, Absent)

\* The button says Stop: the page is done with the stream, the server finds out
\* later, if at all.
Stop == streaming /\ abort # Absent /\ Finish(abort, Absent)

-----------------------------------------------------------------------------
(* The sidebar.                                                             *)

\* What openConversation makes of the messages it has fetched: the elements get no
\* name.
Rendered(msgs) == [i \in DOMAIN msgs |-> Element(msgs[i].id)]

\* A conversation is fetched and replaces what the page shows.
OpenConversation(c) ==
  /\ Exists(c)
  /\ current' = c
  /\ page' = Rendered(conv[c])
  /\ UNCHANGED <<vars, streaming, abort, reading>>

NewChat ==
  /\ current' = Absent
  /\ page' = <<>>
  /\ UNCHANGED <<streaming, abort, reading>>

\* The cross beside a conversation.
Delete(c) ==
  /\ DeleteConversation(c)
  /\ IF c = current THEN NewChat ELSE UNCHANGED uiVars

-----------------------------------------------------------------------------

Sidebar ==
  \/ \E c \in Convs : OpenConversation(c) \/ Delete(c)
  \/ NewChat /\ UNCHANGED vars

\* What the event loop of the browser does for a stream.
Read(r) == ReadConversation(r) \/ ReadDone(r) \/ ReadFailure(r)

Server(r) == (Serve(r) \/ Disconnect(r)) /\ UNCHANGED uiVars

UiNext ==
  \/ \E r \in Requests :
       \/ Send(r)
       \/ \E i \in DOMAIN page : Edit(r, i) \/ Regenerate(r, i)
       \/ Read(r)
       \/ Server(r)
  \/ Stop
  \/ Sidebar

UiSpec == UiInit /\ [][UiNext]_allVars

\* The server's event loop runs every coroutine that can run, a provider ends every
\* reply or raises, and the browser's event loop reads what arrives; nothing makes
\* the user do anything or connections break.
UiFairness ==
  \A r \in Requests :
    /\ WF_allVars(Serve(r) /\ UNCHANGED uiVars)
    /\ WF_allVars(Read(r))

-----------------------------------------------------------------------------
(* Properties.                                                              *)

\* Whatever the user does, the button says Stop only while the stream it would
\* stop is still being read: no stream that ends leaves it behind for another.
StopStopsAStream ==
  /\ streaming <=> abort # Absent
  /\ streaming => reading[abort] \in Reading

\* A name on the page is the name of the answer it stands on, and of an answer
\* that the server saved, even if the page was switched or cut while the answer
\* was on its way.
NamesAreSaved ==
  \A i \in DOMAIN page :
    page[i].mid # Absent =>
      page[i].mid = page[i].id /\ pc[page[i].mid[1]] = "done"

\* Again and again the server serves no request, the page reads none and the button
\* says Send: no failure, deletion or disconnection leaves a reply hanging, none
\* leaves the page without its button.
AllComesToRest ==
  []<>(/\ ~streaming
       /\ \A r \in Requests : reading[r] \notin Reading /\ pc[r] \notin Streaming)

\* Every stream that is read can be stopped: one at a time.
StreamsCanBeStopped ==
  \A r \in Requests : reading[r] \in Reading => streaming /\ abort = r

\* Regenerating an answer that has a name asks for it in the conversation that
\* it was given in, as long as there is one.
NamesAreCurrent ==
  \A i \in DOMAIN page :
    page[i].mid # Absent =>
      LET c == target[page[i].mid[1]] IN Exists(c) => c = current

\* Every message of the current conversation, which is what the model will be
\* given, stands on the page.
NothingHidden ==
  Known(current) => \A m \in Shown(current) : \E i \in DOMAIN page : page[i].id = m.id
=============================================================================
