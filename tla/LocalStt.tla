------------------------------ MODULE LocalStt ------------------------------
(***************************************************************************)
(* backend/services/local_stt.py: one speech model for the whole process,  *)
(* loaded on first use behind a lock.  It is used by worker threads, one   *)
(* for each transcription, and by the thread that main.py starts to warm   *)
(* it.  Nobody can stop a thread: a caller that times out leaves its own   *)
(* behind.  Local recognition is enabled and installed.                    *)
(***************************************************************************)
EXTENDS Naturals

CONSTANTS
  Workers, \* the threads of transcriptions
  Warmer   \* the thread that warms the model

Threads == Workers \cup {Warmer}

VARIABLES
  at,     \* where a thread is: "unborn", "waiting", "loading", "hearing" or "over"
  holder, \* the threads between "with _lock" and its end
  model,  \* what _model and _load_failed say: "unloaded", "loaded", "failed", or
          \* "mute" if the load failed with an empty message
  loads   \* history variable: the loads that were begun

sttVars == <<at, holder, model, loads>>

\* The server has started, and _warm_local_stt with it.
SttInit ==
  /\ at = [t \in Threads |-> IF t = Warmer THEN "waiting" ELSE "unborn"]
  /\ holder = {}
  /\ model = "unloaded"
  /\ loads = 0

\* available: read without the lock; an empty _load_failed counts as none.
Available == model # "failed"

Go(t, where) == at' = [at EXCEPT ![t] = where]

\* asyncio.to_thread(transcribe, ...).
Start(t) ==
  /\ at[t] = "unborn"
  /\ Go(t, "waiting")
  /\ UNCHANGED <<holder, model, loads>>

\* A thread with a model transcribes with it; the one that warms it is done.
Onward(t, m) == Go(t, IF m = "loaded" /\ t # Warmer THEN "hearing" ELSE "over")

\* Mutant of Enter: the model is looked for before the lock is taken.
EnterUnlocked(t) ==
  /\ at[t] = "waiting"
  /\ IF model = "unloaded"
     THEN Go(t, "loading") /\ holder' = holder \cup {t} /\ loads' = loads + 1
     ELSE Onward(t, model) /\ UNCHANGED <<holder, loads>>
  /\ UNCHANGED model

\* _get_model takes the lock: the first one loads, whoever comes later finds the
\* model or the reason why there is none.
Enter(t) ==
  /\ at[t] = "waiting" /\ holder = {}
  /\ IF model = "unloaded"
     THEN Go(t, "loading") /\ holder' = {t} /\ loads' = loads + 1
     ELSE Onward(t, model) /\ UNCHANGED <<holder, loads>>
  /\ UNCHANGED model

\* The load succeeds or fails, with a message or without one.
Load(t) ==
  /\ at[t] = "loading"
  /\ model' \in {"loaded", "failed", "mute"}
  /\ holder' = holder \ {t}
  /\ Onward(t, model')
  /\ UNCHANGED loads

\* The transcription ends, with a text, without one or with an exception.
Hear(t) ==
  /\ at[t] = "hearing"
  /\ Go(t, "over")
  /\ UNCHANGED <<holder, model, loads>>

ThreadStep(t) == Enter(t) \/ Load(t) \/ Hear(t)

\* One model: it is loaded at most once, whoever wants it at the same time and however
\* many callers have given up, and no thread transcribes without it (local_stt.py:38).
OneModel ==
  /\ loads <= 1
  /\ \A t \in Threads :
       /\ at[t] = "hearing" => model = "loaded"
       /\ at[t] = "loading" => holder = {t} /\ model = "unloaded"
=============================================================================
