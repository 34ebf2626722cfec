-------------------------- MODULE MCProviderRouter --------------------------
(* ProviderRouter on small instances. *)
EXTENDS ProviderRouter

CONSTANTS cloud1, cloud2, mock

\* As in settings.py, with two of the three cloud providers.
Chain == <<cloud1, cloud2, mock>>

\* A chain that repeats a provider and names one that is not registered.
UnevenChain == <<cloud1, cloud2, cloud1>>

ExecutionNames == Permutations(Executions)
=============================================================================
