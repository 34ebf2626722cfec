\* Three requests that interleave in every way on one conversation, or one stream
\* at a time.
CONSTANTS
  Requests = {r1, r2, r3}
  Convs = {c1}
  Absent = Absent
SPECIFICATION ClientsSpec
INVARIANTS
  TypeOK
  AnswersInPlace
  LostOnlyWhenDeleted
  DocumentedClientsAreServed
PROPERTIES
  AnswersAreTold
  DeletedStaysDeleted
  DoneMeansSaved
SYMMETRY RequestNames
