---------------------- MODULE ConversationStore_proofs ----------------------
(***************************************************************************)
(* The store's type correctness, its three safety properties, and the fact *)
(* that it implements ConversationLog, for any number of conversations and *)
(* messages.                                                               *)
(***************************************************************************)
EXTENDS ConversationStore, Lists_proofs

\* Nothing is known of an id before it is given out, a file is only unlinked
\* for a conversation that is gone, and a process that is down is busy with no
\* file.
Bookkeeping ==
  /\ \A c \in Convs : cache[c] # Absent => c \in used
  /\ \A c \in Convs : disk[c] # Absent => c \in used
  /\ job # NoJob => job.conv \in used
  /\ (job # NoJob /\ job.op = "unlink") => cache[job.conv] = Absent
  /\ ~running => job = NoJob

\* The titles are right in the dictionary and in every snapshot that can be read
\* back, which is what TitleNamesFirstQuestion needs to survive a restart.
TitlesRight ==
  /\ TitleNamesFirstQuestion
  /\ \A c \in Convs :
       disk[c] \notin {Absent, Torn} => NamesFirstQuestion(disk[c])

IInv == TypeOK /\ Bookkeeping /\ SnapshotsFollowCache /\ TitlesRight

USE AbsentAssumption, SentinelAssumption, JobAssumption, TitleAssumption

-----------------------------------------------------------------------------

\* A conversation that gains a message is still a conversation.
LEMMA GrownConversation ==
  ASSUME NEW conv \in Conversations, NEW m \in Messages
  PROVE  [title |-> Titled(conv, m), messages |-> Append(conv.messages, m)]
           \in Conversations
<1>1. Titled(conv, m) \in MessageIds \cup {NewChat}
  BY DEF Titled, Conversations, Messages
<1>2. Append(conv.messages, m) \in Seq(Messages)
  BY AppendProperties DEF Conversations
<1>3. QED BY <1>1, <1>2 DEF Conversations

\* Every action keeps every variable in its type.
LEMMA TypeInductive == TypeOK /\ [Next]_vars => TypeOK'
<1> SUFFICES ASSUME TypeOK, [Next]_vars PROVE TypeOK'
  OBVIOUS
<1> USE DEF TypeOK
<1>1. ASSUME NEW c \in Convs, Create(c) PROVE TypeOK'
  <2>1. NewConversation \in Conversations
    BY EmptySeq DEF NewConversation, Conversations
  <2>2. [conv |-> c, op |-> "save"] \in Jobs
    BY DEF Jobs
  <2>3. QED BY <1>1, <2>1, <2>2 DEF Create
<1>2. ASSUME NEW c \in Convs, NEW m \in Messages, AddMessage(c, m)
      PROVE  TypeOK'
  <2>1. cache[c] \in Conversations
    BY <1>2 DEF AddMessage
  <2>2. m.id \in MessageIds
    BY DEF Messages
  <2>3. [title |-> Titled(cache[c], m),
         messages |-> Append(cache[c].messages, m)] \in Conversations
    BY <2>1, GrownConversation
  <2>4. [conv |-> c, op |-> "save"] \in Jobs
    BY DEF Jobs
  <2>5. QED BY <1>2, <2>2, <2>3, <2>4 DEF AddMessage
<1>3. ASSUME NEW c \in Convs, NEW id \in MessageIds, NEW inclusive \in BOOLEAN,
             TruncateAfter(c, id, inclusive)
      PROVE  TypeOK'
  <2>1. cache[c] \in Conversations
    BY <1>3 DEF TruncateAfter
  <2>2. Truncated(cache[c].messages, id, inclusive) \in Seq(Messages)
    BY <2>1, TruncatedIsCut DEF Conversations
  <2>3. [cache[c] EXCEPT !.messages = Truncated(cache[c].messages, id, inclusive)]
          \in Conversations
    BY <2>1, <2>2 DEF Conversations
  <2>4. [conv |-> c, op |-> "save"] \in Jobs
    BY DEF Jobs
  <2>5. QED BY <1>3, <2>3, <2>4 DEF TruncateAfter
<1>4. ASSUME NEW c \in Convs, Delete(c) PROVE TypeOK'
  <2>1. [conv |-> c, op |-> "unlink"] \in Jobs
    BY DEF Jobs
  <2>2. QED BY <1>4, <2>1 DEF Delete
<1>5. CASE OpenSnapshot
  BY <1>5 DEF OpenSnapshot, Jobs
<1>6. CASE FinishSnapshot
  BY <1>6 DEF FinishSnapshot, Jobs
<1>7. CASE Unlink
  BY <1>7 DEF Unlink, Jobs
<1>8. CASE FileOperationFails
  BY <1>8 DEF FileOperationFails, Jobs
<1>9. CASE Stop
  BY <1>9 DEF Stop
<1>10. CASE Boot
  BY <1>10 DEF Boot, Loaded
<1>11. CASE UNCHANGED vars
  BY <1>11 DEF vars
<1>12. QED
  BY <1>1, <1>2, <1>3, <1>4, <1>5, <1>6, <1>7, <1>8, <1>9, <1>10, <1>11
     DEF Next, Operation, FileStep

\* The ids in use are known, and the files of a process that is down rest.
LEMMA BookkeepingInductive ==
  TypeOK /\ Bookkeeping /\ [Next]_vars => Bookkeeping'
<1> SUFFICES ASSUME TypeOK, Bookkeeping, [Next]_vars PROVE Bookkeeping'
  OBVIOUS
<1> USE DEF TypeOK, Bookkeeping
<1>1. ASSUME NEW c \in Convs, Create(c) PROVE Bookkeeping'
  BY <1>1 DEF Create, Idle
<1>2. ASSUME NEW c \in Convs, NEW m \in Messages, AddMessage(c, m)
      PROVE  Bookkeeping'
  BY <1>2 DEF AddMessage, Idle
<1>3. ASSUME NEW c \in Convs, NEW id \in MessageIds, NEW inclusive \in BOOLEAN,
             TruncateAfter(c, id, inclusive)
      PROVE  Bookkeeping'
  BY <1>3 DEF TruncateAfter, Idle
<1>4. ASSUME NEW c \in Convs, Delete(c) PROVE Bookkeeping'
  BY <1>4 DEF Delete, Idle
<1>5. CASE OpenSnapshot
  BY <1>5 DEF OpenSnapshot, Jobs
<1>6. CASE FinishSnapshot
  BY <1>6 DEF FinishSnapshot, Jobs
<1>7. CASE Unlink
  BY <1>7 DEF Unlink, Jobs
<1>8. CASE FileOperationFails
  BY <1>8 DEF FileOperationFails, Jobs
<1>9. CASE Stop
  BY <1>9 DEF Stop
<1>10. CASE Boot
  BY <1>10 DEF Boot, Loaded
<1>11. CASE UNCHANGED vars
  BY <1>11 DEF vars
<1>12. QED
  BY <1>1, <1>2, <1>3, <1>4, <1>5, <1>6, <1>7, <1>8, <1>9, <1>10, <1>11
     DEF Next, Operation, FileStep

\* A conversation that is not at risk is in its file as it is in the dictionary.
LEMMA SnapshotsInductive ==
  TypeOK /\ Bookkeeping /\ SnapshotsFollowCache /\ [Next]_vars
    => SnapshotsFollowCache'
<1> SUFFICES ASSUME TypeOK, Bookkeeping, SnapshotsFollowCache, [Next]_vars
             PROVE  SnapshotsFollowCache'
  OBVIOUS
<1> USE DEF TypeOK, SnapshotsFollowCache, AtRisk, Loaded
<1>1. ASSUME NEW c \in Convs, Create(c) PROVE SnapshotsFollowCache'
  <2>1. job' # NoJob /\ job'.conv = c
    BY <1>1 DEF Create, Jobs
  <2>2. QED BY <1>1, <2>1 DEF Create, Idle
<1>2. ASSUME NEW c \in Convs, NEW m \in Messages, AddMessage(c, m)
      PROVE  SnapshotsFollowCache'
  <2>1. job' # NoJob /\ job'.conv = c
    BY <1>2 DEF AddMessage, Jobs
  <2>2. QED BY <1>2, <2>1 DEF AddMessage, Idle
<1>3. ASSUME NEW c \in Convs, NEW id \in MessageIds, NEW inclusive \in BOOLEAN,
             TruncateAfter(c, id, inclusive)
      PROVE  SnapshotsFollowCache'
  <2>1. job' # NoJob /\ job'.conv = c
    BY <1>3 DEF TruncateAfter, Jobs
  <2>2. QED BY <1>3, <2>1 DEF TruncateAfter, Idle
<1>4. ASSUME NEW c \in Convs, Delete(c) PROVE SnapshotsFollowCache'
  <2>1. job' # NoJob /\ job'.conv = c
    BY <1>4 DEF Delete, Jobs
  <2>2. QED BY <1>4, <2>1 DEF Delete, Idle
<1>5. CASE OpenSnapshot
  <2>1. job' # NoJob /\ job'.conv = job.conv
    BY <1>5 DEF OpenSnapshot, Jobs
  <2>2. QED BY <1>5, <2>1 DEF OpenSnapshot, Jobs
<1>6. CASE FinishSnapshot
  <2>1. cache[job.conv] # Torn
    BY <1>6 DEF FinishSnapshot, Jobs
  <2>2. QED BY <1>6, <2>1 DEF FinishSnapshot, Jobs
<1>7. CASE Unlink
  BY <1>7 DEF Unlink, Jobs, Bookkeeping
<1>8. CASE FileOperationFails
  BY <1>8 DEF FileOperationFails, Jobs
<1>9. CASE Stop
  BY <1>9 DEF Stop
<1>10. CASE Boot
  BY <1>10 DEF Boot
<1>11. CASE UNCHANGED vars
  BY <1>11 DEF vars
<1>12. QED
  BY <1>1, <1>2, <1>3, <1>4, <1>5, <1>6, <1>7, <1>8, <1>9, <1>10, <1>11
     DEF Next, Operation, FileStep

\* Every title that can be read now or after a restart stays right.
LEMMA TitlesInductive ==
  TypeOK /\ TitlesRight /\ [Next]_vars => TitlesRight'
<1> SUFFICES ASSUME TypeOK, TitlesRight, [Next]_vars PROVE TitlesRight'
  OBVIOUS
<1> USE DEF TypeOK, TitlesRight, TitleNamesFirstQuestion
<1>1. ASSUME NEW c \in Convs, Create(c) PROVE TitlesRight'
  <2>1. NamesFirstQuestion(NewConversation)
    BY DEF NamesFirstQuestion, NewConversation, UserTurns
  <2>2. QED BY <1>1, <2>1 DEF Create
<1>2. ASSUME NEW c \in Convs, NEW m \in Messages, AddMessage(c, m)
      PROVE  TitlesRight'
  <2> DEFINE old == cache[c].messages
             long == Append(old, m)
             new == [title |-> Titled(cache[c], m), messages |-> long]
  <2>1. /\ cache[c] \in Conversations
        /\ old \in Seq(Messages)
        /\ NamesFirstQuestion(cache[c])
    BY <1>2 DEF AddMessage, Conversations
  <2>2. ASSUME UserTurns(long) # {}
        PROVE  new.title = long[Min(UserTurns(long))].id
    <3>1. long[Min(UserTurns(long))] =
            IF UserTurns(old) = {} THEN m ELSE old[Min(UserTurns(old))]
      BY <2>1, <2>2, AppendKeepsFirstQuestion
    <3>2. CASE UserTurns(old) # {}
      BY <2>1, <3>1, <3>2 DEF NamesFirstQuestion, Titled
    <3>3. CASE UserTurns(old) = {}
      <4>1. m.role = "user"
        <5>1. /\ DOMAIN long = 1 .. Len(old) + 1
              /\ DOMAIN old = 1 .. Len(old)
              /\ \A i \in 1 .. Len(old) : long[i] = old[i]
              /\ long[Len(old) + 1] = m
              /\ Len(old) \in Nat
          BY <2>1, AppendProperties, LenProperties
        <5> HIDE DEF long, old
        <5>2. QED BY <2>2, <3>3, <5>1 DEF UserTurns
      <4>2. new.title = m.id
        BY <3>3, <4>1 DEF Titled
      <4>3. QED BY <3>1, <3>3, <4>2
    <3>4. QED BY <3>2, <3>3
  <2>3. NamesFirstQuestion(new)
    BY <2>2 DEF NamesFirstQuestion
  <2>4. cache' = [cache EXCEPT ![c] = new] /\ disk' = disk
    BY <1>2 DEF AddMessage
  <2> HIDE DEF new
  <2>5. QED BY <2>3, <2>4
<1>3. ASSUME NEW c \in Convs, NEW id \in MessageIds, NEW inclusive \in BOOLEAN,
             TruncateAfter(c, id, inclusive)
      PROVE  TitlesRight'
  <2> DEFINE old == cache[c].messages
             short == Truncated(old, id, inclusive)
             new == [cache[c] EXCEPT !.messages = short]
  <2>1. /\ cache[c] \in Conversations
        /\ old \in Seq(Messages)
        /\ NamesFirstQuestion(cache[c])
    BY <1>3 DEF TruncateAfter, Conversations
  <2>2. short \in Seq(Messages) /\ IsPrefix(short, old)
    BY <2>1, TruncatedIsCut
  <2>3. new.title = cache[c].title /\ new.messages = short
    BY <2>1 DEF Conversations
  <2>4. cache' = [cache EXCEPT ![c] = new] /\ disk' = disk
    BY <1>3 DEF TruncateAfter
  <2> HIDE DEF short, new
  <2>5. ASSUME UserTurns(short) # {}
        PROVE  new.title = short[Min(UserTurns(short))].id
    <3>1. /\ UserTurns(old) # {}
          /\ short[Min(UserTurns(short))] = old[Min(UserTurns(old))]
      BY <2>1, <2>2, <2>5, CutKeepsFirstQuestion
    <3>2. QED BY <2>1, <2>3, <3>1 DEF NamesFirstQuestion
  <2>6. NamesFirstQuestion(new)
    BY <2>3, <2>5 DEF NamesFirstQuestion
  <2>7. QED BY <2>4, <2>6
<1>4. ASSUME NEW c \in Convs, Delete(c) PROVE TitlesRight'
  BY <1>4 DEF Delete
<1>5. CASE OpenSnapshot
  BY <1>5 DEF OpenSnapshot, Jobs
<1>6. CASE FinishSnapshot
  BY <1>6 DEF FinishSnapshot, Jobs
<1>7. CASE Unlink
  BY <1>7 DEF Unlink, Jobs
<1>8. CASE FileOperationFails
  BY <1>8 DEF FileOperationFails, Jobs
<1>9. CASE Stop
  BY <1>9 DEF Stop
<1>10. CASE Boot
  BY <1>10 DEF Boot, Loaded
<1>11. CASE UNCHANGED vars
  BY <1>11 DEF vars
<1>12. QED
  BY <1>1, <1>2, <1>3, <1>4, <1>5, <1>6, <1>7, <1>8, <1>9, <1>10, <1>11
     DEF Next, Operation, FileStep

\* The inductive invariant holds in every reachable state.
LEMMA Invariance == Spec => []IInv
<1>1. Init => IInv
  BY DEF Init, IInv, TypeOK, Bookkeeping, SnapshotsFollowCache, TitlesRight,
         TitleNamesFirstQuestion, Loaded
<1>2. IInv /\ [Next]_vars => IInv'
  BY TypeInductive, BookkeepingInductive, SnapshotsInductive, TitlesInductive
     DEF IInv
<1>3. QED
  BY <1>1, <1>2, PTL DEF Spec

-----------------------------------------------------------------------------
(* The results.                                                             *)

\* The store's variables always have their types: in particular the dictionary
\* never holds a torn snapshot, however often the process died while writing.
THEOREM StoreTypeCorrect == Spec => []TypeOK
BY Invariance, PTL DEF IInv

\* Outside the operation under way and the failed ones, the files are always the
\* dictionary: what a crash can lose is bounded by what it interrupts.
THEOREM StoreSnapshots == Spec => []SnapshotsFollowCache
BY Invariance, PTL DEF IInv

\* A conversation is always named after its first question.
THEOREM StoreTitles == Spec => []TitleNamesFirstQuestion
BY Invariance, PTL DEF IInv, TitlesRight

\* Every step of the store is a step of the log, or changes nothing a caller
\* could ever see.
LEMMA StepRefines ==
  IInv /\ IInv' /\ [Next]_vars => [Log!LogNext]_(Log!logVars)
<1> SUFFICES ASSUME IInv, IInv', [Next]_vars
             PROVE  [Log!LogNext]_(Log!logVars)
  OBVIOUS
<1> USE DEF IInv, TypeOK, Bookkeeping, Visible, AtRisk
<1> DEFINE Stutters == UNCHANGED <<Visible, used, AtRisk>>
<1>0. Stutters => [Log!LogNext]_(Log!logVars)
  BY DEF Log!logVars
<1>1. ASSUME NEW c \in Convs, Create(c) PROVE Log!Born(c)
  <2>1. job = NoJob /\ running /\ running' /\ job' # NoJob /\ job'.conv = c
    BY <1>1 DEF Create, Idle, Jobs
  <2>2. QED BY <1>1, <2>1 DEF Create, Log!Born, NewConversation
<1>2. ASSUME NEW c \in Convs, NEW m \in Messages, AddMessage(c, m)
      PROVE  Log!Rewritten(c)
  <2> DEFINE long == Append(cache[c].messages, m)
             new == [title |-> Titled(cache[c], m), messages |-> long]
  <2>1. job = NoJob /\ running /\ running' /\ job' # NoJob /\ job'.conv = c
    BY <1>2 DEF AddMessage, Idle, Jobs
  <2>2. cache[c] \in Conversations /\ cache[c] # Absent
    BY <1>2 DEF AddMessage
  <2>3. long \in Seq(Messages)
    BY <2>2, AppendProperties DEF Conversations
  <2>4. cache' = [cache EXCEPT ![c] = new] /\ used' = used /\ unsaved' = unsaved
    BY <1>2 DEF AddMessage, long
  <2>5. cache'[c] = new /\ new.messages = long
    BY <2>4
  <2> HIDE DEF new
  <2>6. cache'[c] # Absent
    BY <2>2, <2>5, GrownConversation DEF new
  <2>7. \E n \in Log!Messages : cache'[c].messages = Append(cache[c].messages, n)
    BY <2>5 DEF Messages, Log!Messages, Roles, Log!Roles
  <2> HIDE DEF long
  <2>8. QED BY <2>1, <2>2, <2>4, <2>5, <2>6, <2>7 DEF Log!Rewritten
<1>3. ASSUME NEW c \in Convs, NEW id \in MessageIds, NEW inclusive \in BOOLEAN,
             TruncateAfter(c, id, inclusive)
      PROVE  Log!Rewritten(c)
  <2> DEFINE short == Truncated(cache[c].messages, id, inclusive)
             new == [cache[c] EXCEPT !.messages = short]
  <2>1. job = NoJob /\ running /\ running' /\ job' # NoJob /\ job'.conv = c
    BY <1>3 DEF TruncateAfter, Idle, Jobs
  <2>2. cache[c] \in Conversations /\ cache[c] # Absent
    BY <1>3 DEF TruncateAfter
  <2>3. IsPrefix(short, cache[c].messages)
    BY <2>2, TruncatedIsCut DEF Conversations
  <2>4. cache' = [cache EXCEPT ![c] = new] /\ used' = used /\ unsaved' = unsaved
    BY <1>3 DEF TruncateAfter
  <2> HIDE DEF short
  <2>5. cache'[c] = new /\ new.messages = short /\ new.title = cache[c].title
        /\ new \in [title : MessageIds \cup {NewChat}, messages : {short}]
    BY <2>2, <2>4 DEF Conversations
  <2> HIDE DEF new
  <2>6. cache'[c] # Absent
    BY <1>3, <2>2, <2>4, <2>5, TruncatedIsCut DEF Conversations, short
  <2>7. Log!IsPrefix(cache'[c].messages, cache[c].messages)
    BY <2>3, <2>5 DEF IsPrefix, Log!IsPrefix
  <2>8. QED BY <2>1, <2>2, <2>4, <2>5, <2>6, <2>7 DEF Log!Rewritten
<1>4. ASSUME NEW c \in Convs, Delete(c) PROVE Log!Dropped(c)
  <2>1. job = NoJob /\ running /\ running' /\ job' # NoJob /\ job'.conv = c
    BY <1>4 DEF Delete, Idle, Jobs
  <2>2. QED BY <1>4, <2>1 DEF Delete, Log!Dropped
<1>5. CASE OpenSnapshot
  <2>1. job' # NoJob /\ job'.conv = job.conv /\ running /\ running'
    BY <1>5 DEF OpenSnapshot, Jobs
  <2>2. Stutters
    BY <1>5, <2>1 DEF OpenSnapshot
  <2>3. QED BY <1>0, <2>2
<1>6. ASSUME FinishSnapshot \/ Unlink PROVE Log!Settled(job.conv)
  <2>1. running /\ running' /\ job # NoJob /\ job.conv \in Convs
    BY <1>6 DEF FinishSnapshot, Unlink, Jobs
  <2>2. QED BY <1>6, <2>1 DEF FinishSnapshot, Unlink, Log!Settled
<1>7. CASE FileOperationFails
  <2>1. Stutters
    BY <1>7 DEF FileOperationFails
  <2>2. QED BY <1>0, <2>1
<1>8. CASE Stop
  <2> DEFINE shown == [c \in Convs |-> IF disk[c] = Torn THEN Absent ELSE disk[c]]
  <2>1. /\ Visible = cache
        /\ Visible' = shown
        /\ AtRisk' = {}
        /\ used' = used
    BY <1>8 DEF Stop, Loaded
  <2>2. \A c \in Convs \ AtRisk : shown[c] = cache[c]
    BY <1>8 DEF Stop, SnapshotsFollowCache, Loaded
  <2>3. \A c \in Convs : shown[c] # Absent => c \in used
    OBVIOUS
  <2>4. shown \in [Convs -> Log!LogEntries \cup {Absent}]
    BY DEF Log!LogEntries, Log!Messages, Log!Roles, Conversations, Messages, Roles
  <2> HIDE DEF shown
  <2>5. Log!Restarted
    BY <2>1, <2>2, <2>3, <2>4 DEF Log!Restarted
  <2>6. QED BY <2>5 DEF Log!LogNext
<1>9. CASE Boot
  <2>1. Stutters
    BY <1>9 DEF Boot
  <2>2. QED BY <1>0, <2>1
<1>10. CASE UNCHANGED vars
  <2>1. Stutters
    BY <1>10 DEF vars, Loaded
  <2>2. QED BY <1>0, <2>1
<1>11. (FinishSnapshot \/ Unlink) => job.conv \in Convs
  BY DEF FinishSnapshot, Unlink, Jobs
<1>12. QED
  BY <1>1, <1>2, <1>3, <1>4, <1>5, <1>6, <1>7, <1>8, <1>9, <1>10, <1>11
     DEF Next, Operation, FileStep, Log!LogNext

\* The store, with its dictionary, its files, its crashes and its failing writes,
\* implements the log of conversations.
THEOREM StoreImplementsLog == Spec => LogSpec
<1>1. Init => Log!LogInit
  BY DEF Init, Log!LogInit, Visible, AtRisk
<1>2. QED
  BY <1>1, Invariance, StepRefines, PTL DEF Spec, LogSpec, Log!LogSpec
=============================================================================
