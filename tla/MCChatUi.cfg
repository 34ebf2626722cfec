\* Three streams of a patient user, two of others, on two conversations.
CONSTANTS
  Requests = {1, 2, 3}
  Convs = {1, 2}
  Absent = Absent
SPECIFICATION MCSpec
INVARIANTS
  StopStopsAStream
  NamesAreSaved
  UsersAreServed
PROPERTIES
  AllComesToRest
