CONSTANTS
  a1 = a1
  a2 = a2
  s1 = s1
  s2 = s2
  Addr = {a1, a2}
  Slot = {s1, s2}
  Cmd = {m1}
  Maps <- MCMaps
  MaxRetry = 1
  Unresolvable = {}
  NULL = NULL
SPECIFICATION FairSpec
CHECK_DEADLOCK FALSE
PROPERTIES
  EveryCallbackCalled
  ShutdownCloses
  KeepsContract
