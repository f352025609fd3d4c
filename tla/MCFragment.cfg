CONSTANTS
  NULL = NULL
  redis_commands <- MCredis_commands
  Key <- MCKey
  Value <- MCValue
  Formatted <- MCFormatted
  MaxKeys = 4
  MaxPairs = 3
SPECIFICATION Spec
INVARIANTS
  SameAsOneServer
  SlotsAllOrNothing
  LookupIsExact
  RoutedByItsKeys
  RefusedWithoutKeys
CHECK_DEADLOCK FALSE
