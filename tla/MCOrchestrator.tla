--------------------------- MODULE MCOrchestrator ---------------------------
(* Orchestrator on a small instance, in which at most two requests are by voice. *)
EXTENDS Orchestrator

Names == Permutations(Requests) \cup Permutations(Sessions)

MCInit == Init /\ Cardinality(voice) <= 2

MCSpec == MCInit /\ [][Next]_vars
=============================================================================
