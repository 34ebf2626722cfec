\* Three requests of two clients with a burst of one; two ticks bring a token, and
\* the tail holds two records.
CONSTANTS
  Clients = {c1, c2}
  Burst = 1
  Cost = 2
  Rate = 1
  Horizon = 3
  Requests = {r1, r2, r3}
  TailSize = 2
  Enabled = TRUE
SPECIFICATION Spec
INVARIANTS
  TightestWindow
  AnswersAreAudited
SYMMETRY Names
