--------------------------- MODULE ProviderRouter ---------------------------
(***************************************************************************)
(* backend/providers/provider_router.py: operations executed over an       *)
(* ordered chain of providers, with a circuit breaker per provider that    *)
(* all executions share.                                                   *)
(*                                                                         *)
(* An execution is a coroutine; it is suspended only while it awaits a     *)
(* provider, so one action takes it from one provider's answer to the call *)
(* of the next, or to its end.  While it waits other executions run, their *)
(* answers change the breaker, the default is switched and time passes.    *)
(***************************************************************************)
EXTENDS SequencesExt

CONSTANTS
  Names,      \* what a request or a setting can name as a provider
  Providers,  \* the registered ones
  Mock,       \* the name "mock"
  Fallback,   \* settings.FALLBACK_PROVIDERS
  Executions, \* operations in flight at once, over all callers
  Threshold,  \* settings.CIRCUIT_BREAKER_FAILURE_THRESHOLD
  Recovery,   \* settings.CIRCUIT_BREAKER_RECOVERY_TIMEOUT_SECONDS, in ticks
  None        \* no provider, no time

ASSUME ProvidersAssumption == Providers \subseteq Names /\ Providers # {}
ASSUME NamesAssumption == Mock \in Names /\ Fallback \in Seq(Names)
ASSUME NoneAssumption == None \notin Names /\ None \notin Nat
ASSUME ThresholdAssumption == Threshold \in Nat \ {0}
ASSUME RecoveryAssumption == Recovery \in Nat

VARIABLES
  default,  \* ProviderRouter._default
  failures, \* _Breaker.failures, counted up to Threshold
  openFor,  \* ticks since _Breaker.opened_at, up to Recovery
  status,   \* of each execution
  head,     \* the name its chain starts with
  at,       \* the provider it awaits, or that served it
  chain     \* what became of each provider in it, the fallback_chain

breaker == <<failures, openFor>>
vars == <<default, failures, openFor, status, head, at, chain>>

Outcomes == {"untried", "skipped", "failed", "success"}
NoneTried == [p \in Providers |-> "untried"]

Init ==
  /\ default \in Providers
  /\ failures = [p \in Providers |-> 0]
  /\ openFor = [p \in Providers |-> None]
  /\ status = [e \in Executions |-> "idle"]
  /\ head = [e \in Executions |-> default]
  /\ at = [e \in Executions |-> None]
  /\ chain = [e \in Executions |-> NoneTried]

-----------------------------------------------------------------------------
(* The breaker.                                                             *)

\* Mutant of IsOpen: an open circuit stays open.
IsOpenForever(p) == openFor[p] # None /\ failures[p] >= Threshold

\* A provider is skipped until its recovery window has elapsed.
IsOpen(p) ==
  /\ openFor[p] # None
  /\ openFor[p] < Recovery
  /\ failures[p] >= Threshold

\* Mutant of RecordSuccess: the circuit's opening is forgotten, not its failures.
RecordSuccessKeepingCount(p) ==
  /\ openFor' = [openFor EXCEPT ![p] = None]
  /\ UNCHANGED failures

RecordSuccess(p) ==
  /\ failures' = [failures EXCEPT ![p] = 0]
  /\ openFor' = [openFor EXCEPT ![p] = None]

\* One more failure; no code tells counts above the threshold apart.
Counted(n) == IF n < Threshold THEN n + 1 ELSE Threshold

\* Mutant of RecordFailure: the circuit opens one failure late.
RecordFailureLate(p) ==
  /\ failures' = [failures EXCEPT ![p] = Counted(@)]
  /\ IF failures[p] >= Threshold /\ openFor[p] = None
     THEN openFor' = [openFor EXCEPT ![p] = 0]
     ELSE UNCHANGED openFor

\* A circuit is opened once, and not again while it has not been closed.
RecordFailure(p) ==
  /\ failures' = [failures EXCEPT ![p] = Counted(@)]
  /\ IF Counted(failures[p]) >= Threshold /\ openFor[p] = None
     THEN openFor' = [openFor EXCEPT ![p] = 0]
     ELSE UNCHANGED openFor

-----------------------------------------------------------------------------
(* The chain.                                                               *)

\* The names order draws from: registered ones, each where it occurs first, are
\* the attempt order of an execution.
Candidates(h) == <<h>> \o Fallback \o <<Mock>>
Registered(h) == {i \in DOMAIN Candidates(h) : Candidates(h)[i] \in Providers}
Named(h, I) == {Candidates(h)[i] : i \in I}

\* The places of a chain that are still to be tried.
Left(h, c) == {i \in Registered(h) : c[Candidates(h)[i]] = "untried"}
Admitted(h, c) == {i \in Left(h, c) : ~IsOpen(Candidates(h)[i])}

Skipping(c, P) == [p \in Providers |-> IF p \in P THEN "skipped" ELSE c[p]]

\* Mutant of CallNext: what is passed over is not recorded.
CallNextSilently(e, h, c) ==
  /\ Admitted(h, c) # {}
  /\ at' = [at EXCEPT ![e] = Candidates(h)[Min(Admitted(h, c))]]
  /\ chain' = [chain EXCEPT ![e] = c]
  /\ status' = [status EXCEPT ![e] = "calling"]

\* The loop goes on to the next provider whose circuit is not open, and skips
\* those before it.
CallNext(e, h, c) ==
  /\ Admitted(h, c) # {}
  /\ LET next == Min(Admitted(h, c))
     IN  /\ at' = [at EXCEPT ![e] = Candidates(h)[next]]
         /\ chain' = [chain EXCEPT ![e] =
                        Skipping(c, Named(h, {i \in Left(h, c) : i < next}))]
  /\ status' = [status EXCEPT ![e] = "calling"]

\* AllProvidersFailedError: there is nobody left to call.
GiveUp(e, h, c) ==
  /\ Admitted(h, c) = {}
  /\ at' = [at EXCEPT ![e] = None]
  /\ chain' = [chain EXCEPT ![e] = Skipping(c, Named(h, Left(h, c)))]
  /\ status' = [status EXCEPT ![e] = "exhausted"]

Proceed(e, h, c) == CallNext(e, h, c) \/ GiveUp(e, h, c)

-----------------------------------------------------------------------------

\* Mutant of SetDefault: any name will do.
SetDefaultUnchecked(name) ==
  /\ default' = name
  /\ UNCHANGED <<failures, openFor, status, head, at, chain>>

\* set_default: an unregistered name is a KeyError.
SetDefault(name) ==
  /\ name \in Providers
  /\ default' = name
  /\ UNCHANGED <<failures, openFor, status, head, at, chain>>

\* execute, up to its first await: the caller's preference or the default leads.
Execute(e, preferred) ==
  /\ status[e] # "calling"
  /\ LET h == IF preferred = None THEN default ELSE preferred
     IN  /\ head' = [head EXCEPT ![e] = h]
         /\ Proceed(e, h, NoneTried)
  /\ UNCHANGED <<default, failures, openFor>>

\* The awaited provider answers.
Succeed(e) ==
  /\ status[e] = "calling"
  /\ RecordSuccess(at[e])
  /\ chain' = [chain EXCEPT ![e][at[e]] = "success"]
  /\ status' = [status EXCEPT ![e] = "served"]
  /\ UNCHANGED <<default, head, at>>

\* Mutant of Fail: the failed provider stays in the running.
FailForgotten(e) ==
  /\ status[e] = "calling"
  /\ RecordFailure(at[e])
  /\ Proceed(e, head[e], chain[e])
  /\ UNCHANGED <<default, head>>

\* It times out or raises, whatever it raises, and the next one is called.
Fail(e) ==
  /\ status[e] = "calling"
  /\ RecordFailure(at[e])
  /\ Proceed(e, head[e], [chain[e] EXCEPT ![at[e]] = "failed"])
  /\ UNCHANGED <<default, head>>

\* The clock moves on for every circuit that is open.
Tick ==
  /\ \E p \in Providers : openFor[p] # None /\ openFor[p] < Recovery
  /\ openFor' = [p \in Providers |->
                   IF openFor[p] # None /\ openFor[p] < Recovery
                   THEN openFor[p] + 1
                   ELSE openFor[p]]
  /\ UNCHANGED <<default, failures, status, head, at, chain>>

Next ==
  \/ \E name \in Names : SetDefault(name)
  \/ \E e \in Executions :
       \/ \E preferred \in Names \cup {None} : Execute(e, preferred)
       \/ Succeed(e)
       \/ Fail(e)
  \/ Tick

Spec == Init /\ [][Next]_vars

\* wait_for ends every call, with the provider's answer or a timeout, and time
\* passes; nothing makes callers execute.
Fairness ==
  /\ \A e \in Executions : WF_vars(Succeed(e) \/ Fail(e))
  /\ WF_vars(Tick)
FairSpec == Spec /\ Fairness

-----------------------------------------------------------------------------
(* Properties.                                                              *)

TypeOK ==
  /\ default \in Providers
  /\ failures \in [Providers -> 0 .. Threshold]
  /\ openFor \in [Providers -> (0 .. Recovery) \cup {None}]
  /\ status \in [Executions -> {"idle", "calling", "served", "exhausted"}]
  /\ head \in [Executions -> Names]
  /\ at \in [Executions -> Providers \cup {None}]
  /\ chain \in [Executions -> [Providers -> Outcomes]]

\* A circuit has an opening time exactly when its provider has reached the
\* threshold, whatever the order in which the answers of concurrent executions
\* come in: opened_at and failures never contradict each other.
BreakerConsistent ==
  \A p \in Providers : openFor[p] # None <=> failures[p] >= Threshold

\* The place of a provider in the attempt order.
Place(h, p) == Min({i \in Registered(h) : Candidates(h)[i] = p})

\* The chain tells the truth about failover: everybody before the provider that
\* is called or has served was skipped or failed, nobody after it was touched, and
\* an execution that gave up had no provider left, although other executions
\* opened and closed circuits all along.
FailoverInOrder ==
  \A e \in Executions : \A p \in Named(head[e], Registered(head[e])) :
    LET before == Place(head[e], p) < Place(head[e], at[e])
    IN  /\ status[e] = "exhausted" => chain[e][p] \in {"skipped", "failed"}
        /\ (status[e] \in {"calling", "served"} /\ p # at[e]) =>
             IF before THEN chain[e][p] \in {"skipped", "failed"}
                       ELSE chain[e][p] = "untried"

\* From its Threshold-th failure in a row until its recovery window has elapsed a
\* provider gets no new call, unless an earlier call succeeds late: a step that
\* calls it finds it below the threshold or recovered.
FailingProviderIsSheltered ==
  [][\A e \in Executions, p \in Providers :
       (at'[e] = p /\ status'[e] = "calling" /\ <<status[e], at[e]>> # <<"calling", p>>)
         => failures[p] < Threshold \/ openFor[p] = Recovery]_vars

\* Every execution ends: an answer, or AllProvidersFailedError.
ExecutionsEnd ==
  \A e \in Executions : status[e] = "calling" ~> status[e] # "calling"

\* An open circuit does not stay open.
CircuitsRecover == \A p \in Providers : IsOpen(p) ~> ~IsOpen(p)

\* provider_router.py:8, "a persistently failing provider is skipped quickly": a
\* provider that has reached the threshold and fails again is skipped afterwards.
PersistentFailureIsSkipped ==
  [][\A e \in Executions :
       (Fail(e) /\ failures[at[e]] >= Threshold) => IsOpen(at[e])']_vars
=============================================================================
