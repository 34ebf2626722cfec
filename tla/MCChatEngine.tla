---------------------------- MODULE MCChatEngine ----------------------------
(* ChatClients on a small instance. *)
EXTENDS ChatClients

RequestNames == Permutations(Requests)
=============================================================================
