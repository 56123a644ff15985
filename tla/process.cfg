CONSTANTS
  Pods = {n1, n2}
  n1 = n1
  n2 = n2
  Requests = {q1, q2}
  q2 = q2
  q1 = q1
  Environments <- MCEnvironments
SPECIFICATION FairSpec
INVARIANTS OneScriptAtATime ServesOnlyWhenReady CutOnlyWhenLate ProvidersStopped
PROPERTIES WaitsEnd
CHECK_DEADLOCK FALSE
