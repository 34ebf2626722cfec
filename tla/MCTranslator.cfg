\* Two translations, a cloud provider, mock and a name that is not registered; a
\* circuit opens at the first failure and the cache holds one entry.
CONSTANTS
  cloud = cloud
  mock = mock
  other = other
  Names = {cloud, mock, other}
  Providers = {cloud, mock}
  Mock = mock
  Fallback <- Chain
  Executions = {e1, e2}
  Threshold = 1
  Recovery = 1
  None = None
  Texts = {t1}
  MaxEntries = 1
  Ttl = 1
  Absent = Absent
SPECIFICATION Spec
INVARIANTS
  CachedAnswersAreTrue
PROPERTY OnlyAnswersAreCached
SYMMETRY ExecutionNames
