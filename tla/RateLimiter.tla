----------------------------- MODULE RateLimiter -----------------------------
(***************************************************************************)
(* TokenBucketRateLimiter of backend/security/rate_limiter.py: a bucket of *)
(* tokens per client, refilled as time passes.  The code refills a bucket  *)
(* when it is looked at; here every tick refills all of them, which comes  *)
(* to the same since a bucket is cut off at its capacity either way.       *)
(* Amounts are counted in units of which a request costs Cost.  The hint   *)
(* when to retry is left out.                                              *)
(***************************************************************************)
EXTENDS Integers, Sequences, FiniteSets

CONSTANTS
  Clients,
  Burst,   \* settings.RATE_LIMIT_BURST, in requests
  Cost,    \* units a request costs
  Rate,    \* units a tick brings: RATE_LIMIT_PER_MINUTE
  Horizon  \* bound on the ticks of a behaviour

ASSUME BurstAssumption == Burst \in Nat \ {0}
ASSUME CostAssumption == Cost \in Nat \ {0}
ASSUME RateAssumption == Rate \in Nat
ASSUME HorizonAssumption == Horizon \in Nat

VARIABLES
  tokens,  \* what check finds in a bucket
  passage  \* history variable: the requests admitted and the ticks, per client

limiterVars == <<tokens, passage>>

Capacity == Burst * Cost

LimiterInit ==
  /\ tokens = [c \in Clients |-> Capacity]
  /\ passage = [c \in Clients |-> <<>>]

Refilled(n) == IF n + Rate < Capacity THEN n + Rate ELSE Capacity

Affordable(c) == tokens[c] >= Cost

\* check admits a request of c.
Admit(c) ==
  /\ Affordable(c)
  /\ tokens' = [tokens EXCEPT ![c] = @ - Cost]
  /\ passage' = [passage EXCEPT ![c] = Append(@, "request")]

\* Mutant of Refuse: what has been refilled so far is lost.
RefuseEmptying(c) ==
  /\ ~Affordable(c)
  /\ tokens' = [tokens EXCEPT ![c] = 0]
  /\ UNCHANGED passage

\* check refuses one; refusals cost nothing.
Refuse(c) == ~Affordable(c) /\ UNCHANGED limiterVars

Ticks(s, i) == Cardinality({j \in i + 1 .. Len(s) : s[j] = "tick"})
Admitted(s, i) == Cardinality({j \in i + 1 .. Len(s) : s[j] = "request"})

Tick ==
  /\ \A c \in Clients : Ticks(passage[c], 0) < Horizon
  /\ tokens' = [c \in Clients |-> Refilled(tokens[c])]
  /\ passage' = [c \in Clients |-> Append(passage[c], "tick")]

LimiterNext == (\E c \in Clients : Admit(c) \/ Refuse(c)) \/ Tick

LimiterSpec == LimiterInit /\ [][LimiterNext]_limiterVars

-----------------------------------------------------------------------------
(* Properties.                                                              *)

LimiterTypeOK ==
  /\ tokens \in [Clients -> 0 .. Capacity]
  /\ passage \in [Clients -> Seq({"tick", "request"})]

\* What the window after the i-th event of s leaves of a full bucket and what has
\* been refilled since.
Left(s, i) == Capacity + Rate * Ticks(s, i) - Cost * Admitted(s, i)

\* The bucket holds what the tightest window leaves.  So in no window a client gets
\* more than a burst and what the rate allows for its length, whatever happened
\* before; and it is refused only if in some window it has used this up.
TightestWindow ==
  \A c \in Clients :
    /\ \A i \in 0 .. Len(passage[c]) : tokens[c] <= Left(passage[c], i)
    /\ \E i \in 0 .. Len(passage[c]) : tokens[c] = Left(passage[c], i)
=============================================================================
