---------------------------- MODULE SessionStore ----------------------------
(***************************************************************************)
(* SessionStore of backend/cache/in_memory.py: the turns of each session,  *)
(* which expires when no turn has been added for its time to live.  An     *)
(* expired session is dropped when it is looked up, or begins anew with    *)
(* the next turn; reading does not prolong it.                             *)
(***************************************************************************)
EXTENDS Sequences, Integers

CONSTANTS
  Sessions,
  SessionTtl  \* settings.SESSION_TTL_MINUTES, in ticks

ASSUME SessionTtlAssumption == SessionTtl \in Nat

VARIABLES
  turns,  \* of each session, none if there is no entry
  idle    \* ticks since updated_at, up to expiry

sessionVars == <<turns, idle>>

SessionsInit ==
  /\ turns = [s \in Sessions |-> <<>>]
  /\ idle = [s \in Sessions |-> 0]

\* A session is kept up to and including its time to live.
Expired(s) == idle[s] > SessionTtl

Kept(s) == IF Expired(s) THEN <<>> ELSE turns[s]

\* history: an expired session is dropped; the caller gets Kept(s).
Lookup(s) ==
  /\ turns' = [turns EXCEPT ![s] = Kept(s)]
  /\ idle' = [idle EXCEPT ![s] = IF Expired(s) THEN 0 ELSE @]

\* append_turn, and the session is fresh again.
AppendTurn(s, turn) ==
  /\ turns' = [turns EXCEPT ![s] = Append(Kept(s), turn)]
  /\ idle' = [idle EXCEPT ![s] = 0]

\* Time passes for every session that has not expired.
Aging(s) == turns[s] # <<>> /\ ~Expired(s)
SessionTick ==
  /\ \E s \in Sessions : Aging(s)
  /\ idle' = [s \in Sessions |-> IF Aging(s) THEN idle[s] + 1 ELSE idle[s]]
  /\ UNCHANGED turns
=============================================================================
