CONSTANTS
  NULL = NULL
  redis_commands <- MCredis_commands
  Key <- MCKey
  Value <- MCValue
  Formatted <- MCFormatted
  MaxKeys = 1
  MaxPairs = 1
SPECIFICATION Spec
INVARIANT
  StreamsKeywordFound
CHECK_DEADLOCK FALSE
