\* Two conversations, three messages, crashes and failing files anywhere.
CONSTANTS
  Convs = {c1, c2}
  MessageIds = {m1, m2, m3}
  Absent = Absent
  Torn = Torn
  NewChat = NewChat
  NoJob = NoJob
SPECIFICATION Spec
INVARIANTS
  TypeOK
  SnapshotsFollowCache
  TitleNamesFirstQuestion
PROPERTY LogSpec
SYMMETRY Ids
