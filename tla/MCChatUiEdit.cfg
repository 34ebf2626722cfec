\* Two streams of one page: a message and an edit of it.
CONSTANTS
  Requests = {1, 2}
  Convs = {1, 2}
  Absent = Absent
SPECIFICATION MCSpec
PROPERTY EditCutsTheConversation
