CONSTANTS
  a1 = a1
  a2 = a2
  a3 = a3
  x = x
  y = y
  Addr = {a1, a2, a3}
  Name = {x, y}
  Lines <- MCLines
  Regions <- MCRegions
  NSlots = 2
  UInt32 = 4
  MaxItems = 3
  MaxRegions = 3
  NULL = NULL
SPECIFICATION Spec
INVARIANTS
  HeldOnce
  FreedOnce
  ReplyKept
  RefusesBadReplies
CHECK_DEADLOCK FALSE
