--------------------------- MODULE ConversationLog ---------------------------
(***************************************************************************)
(* What the conversation store promises its callers, without files: a log  *)
(* of conversations that is changed one operation at a time and that a     *)
(* restart of the process leaves alone, except for the conversations that  *)
(* were at risk, those with a file operation under way or failed.          *)
(***************************************************************************)
EXTENDS Conversation

CONSTANTS
  Convs,      \* conversation ids
  MessageIds, \* message ids
  Absent,     \* the value of a conversation that does not exist
  NewChat     \* the title of a conversation nobody has asked anything in

VARIABLES
  log,        \* the conversations a caller can read
  used,       \* the ids ever given to a conversation
  atRisk      \* the conversations a restart is allowed to harm

logVars == <<log, used, atRisk>>

Messages == [id : MessageIds, role : Roles]
LogEntries == [title : MessageIds \cup {NewChat}, messages : Seq(Messages)]

LogInit ==
  /\ log = [c \in Convs |-> Absent]
  /\ used = {}
  /\ atRisk = {}

\* A conversation is born once, and empty.
Born(c) ==
  /\ c \notin used
  /\ log' = [log EXCEPT ![c] = [title |-> NewChat, messages |-> <<>>]]
  /\ used' = used \cup {c}
  /\ atRisk' = atRisk \cup {c}

\* A conversation grows by one message, or loses messages at its end.
Rewritten(c) ==
  /\ log[c] # Absent
  /\ log'[c] # Absent
  /\ \/ \E m \in Messages : log'[c].messages = Append(log[c].messages, m)
     \/ /\ IsPrefix(log'[c].messages, log[c].messages)
        /\ log'[c].title = log[c].title
  /\ log' = [log EXCEPT ![c] = log'[c]]
  /\ used' = used
  /\ atRisk' = atRisk \cup {c}

\* A conversation is dropped for good.
Dropped(c) ==
  /\ log[c] # Absent
  /\ log' = [log EXCEPT ![c] = Absent]
  /\ used' = used
  /\ atRisk' = atRisk \cup {c}

\* The file of a conversation has caught up with it.
Settled(c) ==
  /\ c \in atRisk
  /\ atRisk' = atRisk \ {c}
  /\ UNCHANGED <<log, used>>

\* The process restarts: whatever was not at risk is as it was.
Restarted ==
  /\ log' \in [Convs -> LogEntries \cup {Absent}]
  /\ \A c \in Convs \ atRisk : log'[c] = log[c]
  /\ \A c \in Convs : log'[c] # Absent => c \in used
  /\ atRisk' = {}
  /\ used' = used

LogNext ==
  \/ \E c \in Convs : Born(c) \/ Rewritten(c) \/ Dropped(c) \/ Settled(c)
  \/ Restarted

LogSpec == LogInit /\ [][LogNext]_logVars
=============================================================================
