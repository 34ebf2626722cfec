\* One conversation of two messages and a crash in the middle of a write.
CONSTANTS
  Convs = {c1}
  MessageIds = {m1, m2}
  Absent = Absent
  Torn = Torn
  NewChat = NewChat
  NoJob = NoJob
SPECIFICATION Spec
PROPERTY HistorySurvivesRestart
