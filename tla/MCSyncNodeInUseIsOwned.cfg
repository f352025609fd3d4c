CONSTANTS
  a1 = a1
  a2 = a2
  a3 = a3
  s1 = s1
  s2 = s2
  Addr = {a1, a2, a3}
  Slot = {s1, s2}
  Maps <- MCMaps
  Calls <- MCCalls
  MaxRetry = 2
  NULL = NULL
SPECIFICATION Spec
INVARIANTS
  NodeInUseIsOwned
