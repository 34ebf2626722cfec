----------------------------- MODULE Guardrails -----------------------------
(***************************************************************************)
(* The input path of backend/security/guardrails.py: rate limit, input     *)
(* validation, threat detection, and the audit log of                      *)
(* backend/security/audit.py, which keeps a tail of the file in memory.    *)
(* check_input does not await, so one action is a whole check.  What a     *)
(* text is, invalid, harmful, doubtful or plain, stands for the detectors' *)
(* scores.                                                                 *)
(***************************************************************************)
EXTENDS RateLimiter, SequencesExt

CONSTANTS
  Requests,  \* calls of check_input
  TailSize,  \* records kept in memory, 500 in the code
  Enabled    \* settings.ENABLE_GUARDRAILS

ASSUME TailAssumption == TailSize \in Nat \ {0}
ASSUME EnabledAssumption == Enabled \in BOOLEAN

VARIABLES
  file,    \* what was written to the audit file, write by write
  recent,  \* AuditLog._recent
  answer   \* the result of a request, or what became of it

vars == <<limiterVars, file, recent, answer>>

Verdicts == {"rate_limited", "invalid", "blocked", "flagged", "allowed"}

Init ==
  /\ LimiterInit
  /\ file = <<>>
  /\ recent = <<>>
  /\ answer = [r \in Requests |-> "none"]

\* Validation, then the decision on the detectors' maximum.
Verdict(text) ==
  CASE text = "invalid" -> "invalid"
    [] text = "harmful" /\ Enabled -> "blocked"
    [] text = "doubtful" /\ Enabled -> "flagged"
    [] OTHER -> "allowed"

\* What one write leaves in the file: the text of a record, whole if its newline got
\* there too.  The file is opened for appending, so what is not whole shares its line
\* with the next write.
Written(rec, whole) == [record |-> rec, whole |-> whole]

\* The tail is cut after the append.
Kept(s) == IF Len(s) > TailSize THEN SubSeq(s, Len(s) - TailSize + 1, Len(s)) ELSE s

\* record: the text and its newline to the file, then the tail.
Audit(rec) ==
  /\ file' = Append(file, Written(rec, TRUE))
  /\ recent' = Kept(Append(recent, rec))

\* Mutant of AuditFails: the tail is extended before the file is written.
AuditFailsAfterTail(rec) ==
  /\ file' \in {file} \cup {Append(file, Written(rec, whole)) : whole \in BOOLEAN}
  /\ recent' = Kept(Append(recent, rec))

\* An OSError leaves nothing, a part without the newline, or all of it in the file,
\* and the tail alone.
AuditFails(rec) ==
  /\ file' \in {file} \cup {Append(file, Written(rec, whole)) : whole \in BOOLEAN}
  /\ UNCHANGED recent

Decide(r, c, verdict) ==
  LET rec == [request |-> r, client |-> c, verdict |-> verdict]
  IN  \/ Audit(rec) /\ answer' = [answer EXCEPT ![r] = verdict]
      \/ AuditFails(rec) /\ answer' = [answer EXCEPT ![r] = "error"]

\* check_input: the rate limit comes first, and whoever passes it has paid, for an
\* invalid or a harmful text too.
CheckInput(r, c, text) ==
  /\ answer[r] = "none"
  /\ \/ Admit(c) /\ Decide(r, c, Verdict(text))
     \/ Refuse(c) /\ Decide(r, c, "rate_limited")

Texts == {"invalid", "harmful", "doubtful", "plain"}

TimePasses == Tick /\ UNCHANGED <<file, recent, answer>>

Quiet == (\A r \in Requests : answer[r] # "none") /\ UNCHANGED vars

Next ==
  \/ \E r \in Requests, c \in Clients, text \in Texts : CheckInput(r, c, text)
  \/ TimePasses
  \/ Quiet

Spec == Init /\ [][Next]_vars

-----------------------------------------------------------------------------
(* Properties.                                                              *)

\* The record of every answer, refusals included, is in the file, once, whole and as it
\* was given; a request that has not been checked left nothing there.
AnswersAreFiled ==
  \A r \in Requests :
    LET traces == {i \in DOMAIN file : file[i].record.request = r}
    IN  /\ answer[r] \in Verdicts =>
             \E i \in traces : /\ traces = {i}
                               /\ file[i].whole
                               /\ file[i].record.verdict = answer[r]
        /\ answer[r] = "none" => traces = {}

\* Where the records of requests that were answered stand in the file.
Answered == {i \in DOMAIN file : answer[file[i].record.request] # "error"}

\* A write that stands on a line of its own, as a reader of JSON lines needs it.
OwnLine(i) == file[i].whole /\ (i > 1 => file[i - 1].whole)

\* The record of an answer can be spoilt, but only by the write right before it, which
\* failed and whose request got no answer: no two answers share a line.
SpoiltByFailures ==
  \A i \in Answered : ~OwnLine(i) =>
    i > 1 /\ ~file[i - 1].whole /\ answer[file[i - 1].record.request] = "error"

\* The memory is the end of the file, but for what failed writes left: its records are
\* those of answered requests, in their order, and one of these that it does not show
\* stands before all that it shows and is one too many.
TailEndsTheFile ==
  /\ Len(recent) <= TailSize
  /\ \E at \in [DOMAIN recent -> Answered] :
       /\ \A j \in DOMAIN recent : recent[j] = file[at[j]].record
       /\ \A j, k \in DOMAIN recent : j < k => at[j] < at[k]
       /\ \A i \in Answered \ Range(at) :
            Len(recent) = TailSize /\ \A j \in DOMAIN recent : i < at[j]

\* Whatever failed in between, the record of every answer is in the audit file, on a
\* line of its own or behind what the failed write before it broke off, and the memory
\* shows the end of it: the last records, in their order, of the requests answered
\* (audit.py:34 appends to what is there and writes before it extends the tail).
AnswersAreAudited == AnswersAreFiled /\ SpoiltByFailures /\ TailEndsTheFile
=============================================================================
