CONSTANTS
  a1 = a1
  a2 = a2
  s1 = s1
  s2 = s2
  NULL = NULL
  Addr <- MCAddr
  Slot <- MCSlot
  Maps <- MCMaps
  Commands <- MCCommands
  MaxReq = 3
  MaxRetry = 1

SPECIFICATION Spec

INVARIANT Aligned

PROPERTY OwnReply
