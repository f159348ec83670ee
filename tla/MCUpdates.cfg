CONSTANTS
  OffsetStep = 2
  ObjectSorted <- MCObjectSorted
  Requests <- MCRequests
  Constructs <- MCConstructs
  Start <- MCStart
  Evaluate <- Answer
  Solutions <- RefSolutions
  MaxRequests = 2
SPECIFICATION Spec
CHECK_DEADLOCK FALSE
INVARIANTS
  FailureOnlyDeletes
PROPERTIES
  ImplementsAtomicUpdates
  OperationAsOneStep
