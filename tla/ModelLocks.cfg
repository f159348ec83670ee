\* Three threads and two models: room for the cycle of two copies and a third
\* thread that holds or wants the interpreter.
SPECIFICATION Spec
CONSTANTS
  Thread = {t1, t2, t3}
  Model = {m1, m2}
  NoThread = NoThread
  MaxVersion = 1
SYMMETRY Symmetry
INVARIANTS
  LocksHeld
  DeadlockNeedsCopies
CHECK_DEADLOCK FALSE
