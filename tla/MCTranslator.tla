---------------------------- MODULE MCTranslator ----------------------------
(* Translator on a small instance. *)
EXTENDS Translator

CONSTANTS cloud, mock, other

Chain == <<cloud, mock>>

ExecutionNames == Permutations(Executions)
=============================================================================
