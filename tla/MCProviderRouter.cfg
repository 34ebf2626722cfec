\* Two executions over a chain that repeats a provider and names an unregistered
\* one, under fairness.
CONSTANTS
  cloud1 = cloud1
  cloud2 = cloud2
  mock = mock
  Names = {cloud1, cloud2, mock}
  Providers = {cloud1, mock}
  Mock = mock
  Fallback <- UnevenChain
  Executions = {e1, e2}
  Threshold = 2
  Recovery = 2
  None = None
SPECIFICATION FairSpec
INVARIANTS
  TypeOK
  BreakerConsistent
  FailoverInOrder
PROPERTIES
  FailingProviderIsSheltered
  ExecutionsEnd
  CircuitsRecover
