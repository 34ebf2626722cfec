-------------------------- MODULE ConversationStore --------------------------
(***************************************************************************)
(* backend/chat/conversation_store.py: conversations in a dictionary, each *)
(* with a JSON snapshot on disk that is rewritten whole after every change *)
(* and read back when the process starts.                                  *)
(*                                                                         *)
(* An operation changes the dictionary first and the file afterwards, under*)
(* the store's lock and without an await, so no other operation runs in    *)
(* between; the process may die in between, and the file system may refuse.*)
(* Path.write_text empties the file when it opens it and is not atomic:    *)
(* between the opening and the end of the write the snapshot cannot be     *)
(* parsed.                                                                 *)
(***************************************************************************)
EXTENDS Conversation

CONSTANTS
  Convs,      \* conversation ids, uuid4 in the code: never given twice
  MessageIds, \* message ids, likewise
  Absent,     \* no such conversation, no such file
  Torn,       \* a file that json.loads or Conversation(**) rejects
  NewChat,    \* the default title
  NoJob       \* no file operation under way

ASSUME AbsentAssumption == Absent # Torn
ASSUME TitleAssumption == NewChat \notin MessageIds

Messages == [id : MessageIds, role : Roles]

\* A Conversation: what the dictionary holds and what a snapshot spells out.
\* A title is named by the message it was derived from.
Conversations ==
  [title : MessageIds \cup {NewChat}, messages : Seq(Messages)]

ASSUME SentinelAssumption ==
  /\ Absent \notin Conversations
  /\ Torn \notin Conversations

VARIABLES
  running,  \* the process is up
  cache,    \* ConversationStore._cache
  disk,     \* the files of the store's directory
  job,      \* the file operation the running store operation is busy with
  used,     \* conversation ids given out so far
  spent,    \* message ids given out so far
  unsaved   \* history: conversations whose last file operation failed

vars == <<running, cache, disk, job, used, spent, unsaved>>

\* The three points a file operation can be interrupted at: a snapshot about to
\* be opened, a snapshot open and incomplete, a file about to be unlinked.
Jobs == [conv : Convs, op : {"save", "writing", "unlink"}]

ASSUME JobAssumption == NoJob \notin Jobs

NewConversation == [title |-> NewChat, messages |-> <<>>]

\* Mutant of Loaded: a snapshot is taken as it is, parseable or not.
LoadedUnchecked(files) == files

\* _load_all: the snapshots that parse, and nothing for those that do not.
Loaded(files) ==
  [c \in Convs |-> IF files[c] = Torn THEN Absent ELSE files[c]]

\* No store operation is in progress: the lock is free.
Idle == running /\ job = NoJob

Init ==
  /\ running = TRUE
  /\ cache = [c \in Convs |-> Absent]
  /\ disk = [c \in Convs |-> Absent]
  /\ job = NoJob
  /\ used = {}
  /\ spent = {}
  /\ unsaved = {}

\* Mutant of Titled: only a conversation without a title is given one.
TitledOnce(conv, m) ==
  IF m.role = "user" /\ conv.title = NewChat THEN m.id ELSE conv.title

\* _derive_title, when the message is the conversation's only user turn.
Titled(conv, m) ==
  IF m.role = "user" /\ \A i \in UserTurns(conv.messages) : FALSE
  THEN m.id
  ELSE conv.title

-----------------------------------------------------------------------------
(* The operations: each changes the dictionary and starts its file job.     *)

Create(c) ==
  /\ Idle
  /\ c \notin used
  /\ cache' = [cache EXCEPT ![c] = NewConversation]
  /\ used' = used \cup {c}
  /\ job' = [conv |-> c, op |-> "save"]
  /\ UNCHANGED <<running, disk, spent, unsaved>>

\* A KeyError for a conversation that is gone changes nothing.
AddMessage(c, m) ==
  /\ Idle
  /\ cache[c] # Absent
  /\ m.id \notin spent
  /\ cache' = [cache EXCEPT ![c] =
                 [title |-> Titled(cache[c], m),
                  messages |-> Append(cache[c].messages, m)]]
  /\ spent' = spent \cup {m.id}
  /\ job' = [conv |-> c, op |-> "save"]
  /\ UNCHANGED <<running, disk, used, unsaved>>

\* Mutant of TruncateAfter: the cut is not saved.
TruncateWithoutSave(c, id, inclusive) ==
  /\ Idle
  /\ cache[c] # Absent
  /\ Holds(cache[c].messages, id)
  /\ cache' = [cache EXCEPT ![c].messages =
                 Truncated(cache[c].messages, id, inclusive)]
  /\ UNCHANGED <<running, disk, job, used, spent, unsaved>>

\* An unknown id returns early, without a save.
TruncateAfter(c, id, inclusive) ==
  /\ Idle
  /\ cache[c] # Absent
  /\ Holds(cache[c].messages, id)
  /\ cache' = [cache EXCEPT ![c].messages =
                 Truncated(cache[c].messages, id, inclusive)]
  /\ job' = [conv |-> c, op |-> "save"]
  /\ UNCHANGED <<running, disk, used, spent, unsaved>>

\* Mutant of Delete: the file is left behind.
DeleteKeepsFile(c) ==
  /\ Idle
  /\ cache[c] # Absent
  /\ cache' = [cache EXCEPT ![c] = Absent]
  /\ UNCHANGED <<running, disk, job, used, spent, unsaved>>

Delete(c) ==
  /\ Idle
  /\ cache[c] # Absent
  /\ cache' = [cache EXCEPT ![c] = Absent]
  /\ job' = [conv |-> c, op |-> "unlink"]
  /\ UNCHANGED <<running, disk, used, spent, unsaved>>

-----------------------------------------------------------------------------
(* The file system's part of an operation.                                  *)

\* write_text opens the file for writing, which empties it.
OpenSnapshot ==
  /\ job # NoJob
  /\ job.op = "save"
  /\ disk' = [disk EXCEPT ![job.conv] = Torn]
  /\ job' = [job EXCEPT !.op = "writing"]
  /\ UNCHANGED <<running, cache, used, spent, unsaved>>

\* The snapshot is complete and the operation returns.
FinishSnapshot ==
  /\ job # NoJob
  /\ job.op = "writing"
  /\ disk' = [disk EXCEPT ![job.conv] = cache[job.conv]]
  /\ unsaved' = unsaved \ {job.conv}
  /\ job' = NoJob
  /\ UNCHANGED <<running, cache, used, spent>>

\* unlink(missing_ok=True).
Unlink ==
  /\ job # NoJob
  /\ job.op = "unlink"
  /\ disk' = [disk EXCEPT ![job.conv] = Absent]
  /\ unsaved' = unsaved \ {job.conv}
  /\ job' = NoJob
  /\ UNCHANGED <<running, cache, used, spent>>

\* mkdir, open, write or unlink raises (disk full, permissions): the operation
\* ends with an OSError and the dictionary keeps the change.
FileOperationFails ==
  /\ job # NoJob
  /\ unsaved' = unsaved \cup {job.conv}
  /\ job' = NoJob
  /\ UNCHANGED <<running, cache, disk, used, spent>>

-----------------------------------------------------------------------------
(* The process.                                                             *)

\* The process stops, at any point: the dictionary is lost, the files stay.
Stop ==
  /\ running
  /\ running' = FALSE
  /\ cache' = [c \in Convs |-> Absent]
  /\ job' = NoJob
  /\ unsaved' = {}
  /\ UNCHANGED <<disk, used, spent>>

\* ConversationStore.__init__ on the same directory.
Boot ==
  /\ ~running
  /\ running' = TRUE
  /\ cache' = Loaded(disk)
  /\ UNCHANGED <<disk, job, used, spent, unsaved>>

Operation ==
  \E c \in Convs :
    \/ Create(c)
    \/ \E m \in Messages : AddMessage(c, m)
    \/ \E id \in MessageIds, inclusive \in BOOLEAN :
         TruncateAfter(c, id, inclusive)
    \/ Delete(c)

FileStep == OpenSnapshot \/ FinishSnapshot \/ Unlink \/ FileOperationFails

Next == Operation \/ FileStep \/ Stop \/ Boot

Spec == Init /\ [][Next]_vars

-----------------------------------------------------------------------------
(* Properties.                                                              *)

TypeOK ==
  /\ running \in BOOLEAN
  /\ cache \in [Convs -> Conversations \cup {Absent}]
  /\ disk \in [Convs -> Conversations \cup {Absent, Torn}]
  /\ job \in Jobs \cup {NoJob}
  /\ used \subseteq Convs
  /\ spent \subseteq MessageIds
  /\ unsaved \subseteq Convs

\* The conversations a crash may harm: the one being written, and those whose
\* last write or unlink failed.
AtRisk == unsaved \cup (IF job = NoJob THEN {} ELSE {job.conv})

\* While the process is up, the files of all other conversations, read back as
\* a restart would read them, are exactly what the dictionary holds: a crash
\* loses at most the conversation it interrupts, a deleted conversation leaves
\* no file behind, and no truncated turn survives in a snapshot.
SnapshotsFollowCache ==
  running => \A c \in Convs \ AtRisk : Loaded(disk)[c] = cache[c]

\* The title was derived from the first user turn, if there is one.
NamesFirstQuestion(conv) ==
  UserTurns(conv.messages) # {} =>
    conv.title = conv.messages[Min(UserTurns(conv.messages))].id

\* A conversation in which somebody asked something is named after its first
\* user turn, whatever was truncated, asked again, lost or reloaded in between.
TitleNamesFirstQuestion ==
  \A c \in Convs : cache[c] # Absent => NamesFirstQuestion(cache[c])

\* The conversations as a caller sees them, now or after the next start.
Visible == IF running THEN cache ELSE Loaded(disk)

\* The store implements the log: a restart harms no conversation that was not
\* at risk, and none comes back under an id that was never given out.
Log == INSTANCE ConversationLog WITH log <- Visible, atRisk <- AtRisk

LogSpec == Log!LogSpec

\* conversation_store.py:4, "history survives a restart": when no file operation
\* failed, a conversation with an earlier, saved turn is still there after the
\* process stopped and started again.
HistorySurvivesRestart ==
  [][Stop =>
       \A c \in Convs \ unsaved :
         (cache[c] # Absent /\ Len(cache[c].messages) > 1) =>
           Loaded(disk')[c] # Absent]_vars
=============================================================================
