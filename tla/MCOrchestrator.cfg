\* Three requests, by voice or text, of one session or two that expire after a tick,
\* and the thread that warms the speech model.
CONSTANTS
  Sessions = {s1, s2}
  SessionTtl = 1
  Requests = {r1, r2, r3}
  Workers = {r1, r2, r3}
  Warmer = w
SPECIFICATION MCSpec
INVARIANTS
  AgentRemembers
  TurnsAreAnswered
  EndsAreCounted
  OneModel
PROPERTY SessionsGrow
SYMMETRY Names
