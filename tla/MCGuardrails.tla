---------------------------- MODULE MCGuardrails ----------------------------
(* Guardrails on a small instance. *)
EXTENDS Guardrails

Names == Permutations(Requests) \cup Permutations(Clients)
=============================================================================
