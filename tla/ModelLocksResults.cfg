SPECIFICATION Spec
CONSTANTS
  Thread = {t1, t2}
  Model = {m1}
  NoThread = NoThread
  MaxVersion = 1
SYMMETRY Symmetry
INVARIANTS
  ResultsCurrent
CHECK_DEADLOCK FALSE
