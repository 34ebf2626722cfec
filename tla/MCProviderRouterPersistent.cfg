\* A provider that goes on failing after its first recovery window.
CONSTANTS
  cloud1 = cloud1
  cloud2 = cloud2
  mock = mock
  Names = {cloud1, cloud2, mock}
  Providers = {cloud1, mock}
  Mock = mock
  Fallback <- Chain
  Executions = {e1}
  Threshold = 2
  Recovery = 1
  None = None
SPECIFICATION Spec
PROPERTY PersistentFailureIsSkipped
