CONSTANTS
  Key <- MCKey
  DICT_HT_INITIAL_SIZE = 4
  Configured <- MCConfigured
  Maps <- MCMaps
  MaxVersion = 2
  NULL = NULL
SPECIFICATION Spec
INVARIANTS
  DictIsSet
  EachNodeOnce
  SelectsUsableNode
PROPERTIES
  AdditionsKeepNodes
  ReturnsLiveNodes
CHECK_DEADLOCK FALSE
