------------------------------ MODULE ChatUsers ------------------------------
(* ChatUi for users of three habits. *)
EXTENDS ChatUi

VARIABLE habit

\* A hasty user presses anything that can be pressed.  A careful one does not
\* edit while a stream is read.  A patient one edits nothing, regenerates only
\* answers that have a name, and turns to another conversation only when the
\* server has ended every stream.
Habits == {"hasty", "careful", "patient"}

userVars == <<allVars, habit>>

Unread == \A r \in Requests : reading[r] \notin Reading
Idle == Unread /\ \A r \in Requests : pc[r] \notin Streaming

MayEdit == habit = "hasty" \/ (habit = "careful" /\ Unread)
MayRegenerate(el) == habit = "patient" => el.mid # Absent
MaySwitch == habit = "patient" => Idle

UsersInit == UiInit /\ habit \in Habits

UsersNext ==
  /\ \/ \E r \in Requests :
          \/ Send(r)
          \/ \E i \in DOMAIN page :
               \/ MayEdit /\ Edit(r, i)
               \/ MayRegenerate(page[i]) /\ Regenerate(r, i)
          \/ Read(r)
          \/ Server(r)
     \/ Stop
     \/ MaySwitch /\ Sidebar
  /\ UNCHANGED habit

UsersSpec == UsersInit /\ [][UsersNext]_userVars /\ UiFairness

-----------------------------------------------------------------------------

\* An edit leaves nothing in the conversation that it took off the page
\* (docs/API.md:39: it "truncates everything after it").
EditCutsTheConversation ==
  [][habit = "careful" =>
       \A r \in Requests :
         kind[r] = "none" /\ kind'[r] = "edit" => NothingHidden']_allVars

\* Who does not edit while a stream is read can stop every stream, and asks for
\* another answer where the answer is.  Who edits nothing at all, regenerates only
\* answers that were completed before the eyes of the page, and waits for the server
\* before turning to another conversation sees all that the model sees.
UsersAreServed ==
  /\ habit # "hasty" => StreamsCanBeStopped /\ NamesAreCurrent
  /\ habit = "patient" => NothingHidden
=============================================================================
