\* Four strings; identifiers up to 7 let every string be collected and encoded
\* again above old identifiers, before and after compaction.
SPECIFICATION Spec
CONSTANTS
  Str = {1, 2, 3, 4}
  MaxId = 7
INVARIANTS
  MapsInverse
  CounterFresh
  ColumnDecodes
PROPERTIES
  CollectionComplete
  CompactIsSorted
