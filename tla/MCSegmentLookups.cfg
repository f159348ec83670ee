SPECIFICATION ColumnSpec
CONSTANTS
  OffsetStep = 2
  Strings = {1, 2, 3, 4}
  MaxRows = 9
INVARIANTS LookupComplete BetweenComplete BetweenExactIfFew
CHECK_DEADLOCK FALSE
