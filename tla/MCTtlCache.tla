----------------------------- MODULE MCTtlCache -----------------------------
(* TtlCache on a small instance. *)
EXTENDS TtlCache, TLC

\* Keys and values are only compared.
Names == Permutations(Keys) \cup Permutations(Values)
=============================================================================
