\* Four rows, two segments before a merge is considered: every order of
\* adding, probing, merging, reloading and deleting them.
SPECIFICATION Spec
CONSTANTS
  Row = {r1, r2, r3, r4}
  NoIndex = NoIndex
  SegmentLimit = 1
  WorkLimit = 8
INVARIANTS
  TypeOK
  IndexMatchesSegments
  SegmentsDisjoint
  AssertionsHold
  ObjectScanComplete
  SegmentsBounded
PROPERTY ImplementsTripleSet
