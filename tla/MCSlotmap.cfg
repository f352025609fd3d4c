CONSTANTS
  a1 = a1
  a2 = a2
  a3 = a3
  Addr = {a1, a2, a3}
  NSlots = 2
  NodeId = {n1, n2, n3, n4, n5}
  Conn = {c1, c2, c3}
  Replies <- MCReplies
  MaxVersion = 3
  NULL = NULL
SPECIFICATION Spec
SYMMETRY Symmetry
INVARIANTS
  TypeOK
  TableWithinNodes
  NodesOwned
  BackPointers
  NoContextLeaked
  RedirectHasTable
PROPERTIES
  KeepsConnections
  DictChangeIsVersioned
CHECK_DEADLOCK FALSE
