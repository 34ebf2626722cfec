------------------------------ MODULE MCChatUi ------------------------------
(* ChatUsers on small instances. *)
EXTENDS ChatUsers

Allowed == [hasty |-> 2, careful |-> 2, patient |-> 3]

\* Requests are numbered in the order in which they are made.
NumberedRequests ==
  \A r \in Requests : pc'[r] # "idle" =>
    /\ r <= Allowed[habit]
    /\ \A q \in Requests : q < r => pc'[q] # "idle"

\* Conversations are numbered as the server creates them.
NumberedConvs == born' \in {{}, {1}, {1, 2}}

\* With three requests, what the page cannot tell apart happens in one way: a refusal
\* and the words for a failed model look like an answer, a stream breaks in one place.
ToldApart ==
  habit = "patient" =>
    \A r \in Requests : pc[r] # "idle" =>
      /\ decision'[r] # "block"
      /\ pc'[r] # "fallback"
      /\ (pc'[r] = "broken" => pc[r] # "opened")

MCNext == UsersNext /\ NumberedRequests /\ NumberedConvs /\ ToldApart

MCSpec == UsersInit /\ [][MCNext]_userVars /\ UiFairness
=============================================================================
