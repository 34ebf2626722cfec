---------------------------- MODULE ChatClients ----------------------------
(***************************************************************************)
(* ChatEngine with clients that use the endpoints as docs/API.md describes *)
(* them, one stream of a conversation at a time, beside clients that ask   *)
(* for anything at any time.                                               *)
(***************************************************************************)
EXTENDS ChatEngine

VARIABLE client

clientVars == <<vars, client>>

\* A free client asks for anything at any time.  A documented one regenerates
\* assistant messages and edits user messages it can see, as docs/API.md says, and it
\* waits for one stream of a conversation to end before it starts the next, which
\* docs/API.md does not ask for: that is an assumption of this module.
Clients == {"free", "documented"}

ClientsInit == Init /\ client \in Clients

\* No request of the conversation is being served.
Unserved(c) == \A r \in Requests : target[r] = c => pc[r] \notin Streaming

DocumentedArrive(r) ==
  \E c \in Convs :
    \/ OpenStreamOnNew(r, c)
    \/ Unserved(c) /\ OpenStream(r, c)
    \/ /\ Unserved(c)
       /\ \E q \in Requests :
            \/ OpenRegenerate(r, c, <<q, "assistant">>)
            \/ Question(q) \in Shown(c) /\ OpenEdit(r, c, <<q, "user">>)
            \/ Reject(r, c, <<q, "assistant">>)

ClientsNext ==
  /\ \/ \E r \in Requests :
          \/ client = "free" /\ Arrive(r)
          \/ client = "documented" /\ DocumentedArrive(r)
          \/ Serve(r) \/ Disconnect(r)
     \/ Manage
     \/ Quiet
  /\ UNCHANGED client

ClientsSpec == ClientsInit /\ [][ClientsNext]_clientVars

-----------------------------------------------------------------------------

\* Clients that follow the API page and stream one reply at a time find every answer
\* below its question, and the model is given the conversation as they see it.
DocumentedClientsAreServed ==
  client = "documented" => AnswersFollowTheirQuestions /\ ModelSeesTheConversation
=============================================================================
