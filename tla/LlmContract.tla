---------------------------- MODULE LlmContract ----------------------------
(***************************************************************************)
(* What backend/llm/base.py promises of every provider: a call is a stream *)
(* of events, and "a provider must always finish with a done event unless  *)
(* it raises" (base.py:18).                                                *)
(***************************************************************************)
CONSTANT NotYet \* the event before the first one

VARIABLES
  last, \* the type of the last event
  end   \* "open", "returned" or "raised"

contractVars == <<last, end>>

EventTypes == {"text", "tool_use", "citations", "done"}

ContractInit == last = NotYet /\ end = "open"

\* Nothing follows the done event.
Yield ==
  /\ end = "open" /\ last # "done"
  /\ last' \in EventTypes
  /\ UNCHANGED end

Return == end = "open" /\ last = "done" /\ end' = "returned" /\ UNCHANGED last

Raise == end = "open" /\ last # "done" /\ end' = "raised" /\ UNCHANGED last

ContractNext == Yield \/ Return \/ Raise

ContractSpec == ContractInit /\ [][ContractNext]_contractVars
=============================================================================
