-------------------------- MODULE ModelLocksProofs --------------------------
(***************************************************************************)
(* Theorems about the locks of the Python binding, for any number of       *)
(* threads and models.  TypeOK and LocksHeld are not inductive: a copy of   *)
(* a model into itself that got to work would drop one lock and believe it *)
(* has two.  CopiesApart rules it out.  DeadlockNeedsCopies follows from   *)
(* the invariant in every single state.                                    *)
(***************************************************************************)
EXTENDS ModelLocks, TLAPS

\* add_graph never gets to work on a model that is its own source.
CopiesApart ==
  \A t \in Thread : pc[t] = "work" /\ call[t].kind = "add_graph" => call[t].self # call[t].other

IInv == TypeOK /\ LocksHeld /\ CopiesApart

\* The initial state is type correct, with every lock free.
LEMMA InitIInv == Init => IInv
  BY ThreadAssumption, VersionAssumption
  DEF Init, IInv, TypeOK, LocksHeld, CopiesApart, HasGil, HasModel, Place, NoCall

\* What the rest of a proof needs of the places and the records.
USE DEF Place, Move, Return, Unlock, Decodes

\* Every step keeps the types.
LEMMA StepType ==
  ASSUME IInv, NEW t \in Thread, Step(t)
  PROVE  TypeOK'
<1> USE ThreadAssumption, VersionAssumption DEF IInv, TypeOK
<1>1. CASE Resume(t)          BY <1>1 DEF Resume
<1>2. CASE Yield(t)           BY <1>2 DEF Yield
<1>3. CASE \E c \in Calls : (c.kind # "add_graph" => c.other = c.self) /\ Start(t, c)
  BY <1>3 DEF Start, Calls, Kind
<1>4. CASE LockSource(t)      BY <1>4 DEF LockSource, NoCall
<1>5. CASE LockTarget(t)      BY <1>5 DEF LockTarget
<1>6. CASE UdfCall(t)         BY <1>6 DEF UdfCall
<1>7. CASE UdfAttach(t)       BY <1>7 DEF UdfAttach
<1>8. CASE UdfYield(t)        BY <1>8 DEF UdfYield
<1>9. CASE UdfReturn(t)       BY <1>9 DEF UdfReturn
<1>10. CASE Finish(t)
  <2>1. call[t] \in Calls     BY <1>10 DEF Finish
  <2>2. call[t].self \in Model
    BY <2>1 DEF Calls
  <2> QED BY <1>10, <2>2 DEF Finish
<1>11. CASE Fail(t)           BY <1>11 DEF Fail, Calls
<1>12. CASE Panic(t)          BY <1>12 DEF Panic, Calls
<1>13. CASE AttachDecoding(t) BY <1>13 DEF AttachDecoding
<1>14. CASE AttachReturning(t) BY <1>14 DEF AttachReturning, NoCall
<1>15. CASE AttachCopied(t)   BY <1>15 DEF AttachCopied, NoCall, Calls
<1>16. CASE Decode(t)         BY <1>16 DEF Decode, NoCall
<1> QED
  BY <1>1, <1>2, <1>3, <1>4, <1>5, <1>6, <1>7, <1>8, <1>9, <1>10, <1>11, <1>12, <1>13,
     <1>14, <1>15, <1>16 DEF Step

\* Every step moves locks and threads together.
LEMMA StepLocks ==
  ASSUME IInv, NEW t \in Thread, Step(t)
  PROVE  LocksHeld'
<1> USE ThreadAssumption DEF IInv, TypeOK, LocksHeld, HasGil, HasModel, CopiesApart
<1>0. call[t] \in Calls => call[t].self \in Model /\ call[t].other \in Model
  BY DEF Calls
<1>1. CASE Resume(t)          BY <1>1 DEF Resume
<1>2. CASE Yield(t)           BY <1>2 DEF Yield
<1>3. CASE \E c \in Calls : (c.kind # "add_graph" => c.other = c.self) /\ Start(t, c)
  BY <1>3 DEF Start
<1>4. CASE LockSource(t)      BY <1>4, <1>0 DEF LockSource
<1>5. CASE LockTarget(t)      BY <1>5, <1>0 DEF LockTarget
<1>6. CASE UdfCall(t)         BY <1>6 DEF UdfCall
<1>7. CASE UdfAttach(t)       BY <1>7 DEF UdfAttach
<1>8. CASE UdfYield(t)        BY <1>8 DEF UdfYield
<1>9. CASE UdfReturn(t)       BY <1>9 DEF UdfReturn
<1>10. CASE Finish(t)         BY <1>10, <1>0 DEF Finish
<1>11. CASE Fail(t)           BY <1>11, <1>0 DEF Fail
<1>12. CASE Panic(t)          BY <1>12, <1>0 DEF Panic
<1>13. CASE AttachDecoding(t) BY <1>13 DEF AttachDecoding
<1>14. CASE AttachReturning(t) BY <1>14 DEF AttachReturning
<1>15. CASE AttachCopied(t)   BY <1>15, <1>0 DEF AttachCopied
<1>16. CASE Decode(t)         BY <1>16 DEF Decode
<1> QED
  BY <1>1, <1>2, <1>3, <1>4, <1>5, <1>6, <1>7, <1>8, <1>9, <1>10, <1>11, <1>12, <1>13,
     <1>14, <1>15, <1>16 DEF Step

\* add_graph locks its target while it has its source, so they differ.
LEMMA StepApart ==
  ASSUME IInv, NEW t \in Thread, Step(t)
  PROVE  CopiesApart'
<1> USE ThreadAssumption DEF IInv, TypeOK, CopiesApart
<1>1. CASE LockTarget(t)
  <2>1. call[t] \in Calls /\ mutex[call[t].self] = NoThread
    BY <1>1 DEF LockTarget
  <2>2. call[t].kind = "add_graph" => mutex[call[t].other] = t
    BY <1>1, <2>1 DEF LockTarget, LocksHeld, HasModel, Calls
  <2> QED BY <1>1, <2>1, <2>2 DEF LockTarget
<1>2. CASE UdfReturn(t)
  BY <1>2 DEF UdfReturn
<1>3. CASE ~LockTarget(t) /\ ~UdfReturn(t)
  <2>1. pc'[t] # "work"
    BY <1>3 DEF Step, Resume, Yield, Start, LockSource, UdfCall, UdfAttach, UdfYield, Finish,
                Fail, Panic, AttachDecoding, AttachReturning, AttachCopied, Decode
  <2>2. \A u \in Thread \ {t} : pc'[u] = pc[u] /\ call'[u] = call[u]
    BY <1>3 DEF Step, Resume, Yield, Start, LockSource, UdfCall, UdfAttach, UdfYield, Finish,
                Fail, Panic, AttachDecoding, AttachReturning, AttachCopied, Decode
  <2> QED BY <2>1, <2>2
<1> QED BY <1>1, <1>2, <1>3

\* Every reachable state is type correct, and every lock is held by the one
\* thread whose place needs it.
THEOREM LocksCorrect == Spec => [](TypeOK /\ LocksHeld)
<1>1. IInv /\ [Next]_vars => IInv'
  <2> SUFFICES ASSUME IInv, [Next]_vars PROVE IInv'
    OBVIOUS
  <2>1. CASE Next
    <3>1. PICK t \in Thread : Step(t)
      BY <2>1 DEF Next
    <3> QED BY <3>1, StepType, StepLocks, StepApart DEF IInv
  <2>2. CASE UNCHANGED vars
    BY <2>2 DEF IInv, TypeOK, LocksHeld, HasGil, HasModel, CopiesApart, vars
  <2> QED BY <2>1, <2>2
<1>2. IInv => TypeOK /\ LocksHeld
  BY DEF IInv
<1> QED
  BY <1>1, <1>2, InitIInv, PTL DEF Spec

-----------------------------------------------------------------------------

\* A thread that has the GIL waits for something only at the lock of its source.
LEMMA GilHolderWaits ==
  ASSUME TypeOK, LocksHeld, NEW t \in Thread, NEW u, gil = t, WaitsFor(t, u)
  PROVE  pc[t] = "source"
BY DEF LocksHeld, HasGil, WaitsFor

\* A thread that has a mutex and waits is copying from that model, or is about
\* to enter a user-defined function.
LEMMA MutexHolderWaits ==
  ASSUME TypeOK, LocksHeld, NEW t \in Thread, NEW u, NEW m \in Model, mutex[m] = t, WaitsFor(t, u)
  PROVE  (Copies(t) /\ m = call[t].other) \/ pc[t] = "udf_gil"
BY DEF TypeOK, LocksHeld, HasModel, WaitsFor, Copies

\* A deadlock has a copy in it.
LEMMA DeadlockHasCopy ==
  ASSUME TypeOK, LocksHeld, NEW S \in SUBSET Thread, Deadlocked(S)
  PROVE  \E t \in S : Copies(t)
<1> SUFFICES ASSUME \A t \in S : ~Copies(t) PROVE FALSE
  OBVIOUS
<1>1. PICK t \in S, u \in S : WaitsFor(t, u)
  BY DEF Deadlocked
<1>2. \A x \in S : gil # x
  <2> SUFFICES ASSUME NEW x \in S, gil = x PROVE FALSE
    OBVIOUS
  <2>1. PICK y \in S : WaitsFor(x, y)
    BY DEF Deadlocked
  <2>2. pc[x] = "source"
    BY <2>1, GilHolderWaits
  <2> QED BY <2>2 DEF TypeOK, Copies
<1>3. ASSUME NEW x \in S, NEW m \in Model, mutex[m] = x PROVE FALSE
  <2>1. PICK y \in S : WaitsFor(x, y)
    BY DEF Deadlocked
  <2>2. pc[x] = "udf_gil"
    BY <1>3, <2>1, MutexHolderWaits
  <2>3. gil = y
    BY <2>1, <2>2 DEF WaitsFor
  <2> QED BY <1>2, <2>3
<1>4. pc[t] \in {"source", "target"} => call[t].self \in Model /\ call[t].other \in Model
  BY DEF TypeOK, Calls
<1> QED BY <1>1, <1>2, <1>3, <1>4 DEF WaitsFor

\* A deadlock takes two copies, a copy of a model into itself, or a copy and a
\* user-defined function.
LEMMA DeadlockShape == TypeOK /\ LocksHeld => DeadlockNeedsCopies
<1> SUFFICES ASSUME TypeOK, LocksHeld, NEW S \in SUBSET Thread, Deadlocked(S)
             PROVE  \E t \in S : /\ Copies(t)
                                 /\ \/ call[t].self = call[t].other
                                    \/ \E u \in S \ {t} : Copies(u) \/ pc[u] = "udf_gil"
  BY DEF DeadlockNeedsCopies
<1>1. PICK t \in S : Copies(t)
  BY DeadlockHasCopy
<1> SUFFICES ASSUME call[t].self # call[t].other,
                    \A u \in S \ {t} : ~Copies(u) /\ pc[u] # "udf_gil"
             PROVE  FALSE
  BY <1>1
<1>2. PICK u \in S : WaitsFor(t, u)
  BY DEF Deadlocked
<1>3. PICK v \in S : WaitsFor(u, v)
  BY DEF Deadlocked
<1>4. pc[t] \in {"source", "target", "attach"} /\ call[t] \in Calls
  BY <1>1, <1>2 DEF WaitsFor, Copies, TypeOK
<1>5. \A m \in Model : mutex[m] = u => u = t /\ m = call[t].other
  <2> SUFFICES ASSUME NEW m \in Model, mutex[m] = u PROVE u = t /\ m = call[t].other
    OBVIOUS
  <2>1. (Copies(u) /\ m = call[u].other) \/ pc[u] = "udf_gil"
    BY <1>3, MutexHolderWaits
  <2> QED BY <1>4, <2>1
<1>6. CASE pc[t] = "attach"
  <2>1. gil = u
    BY <1>2, <1>6 DEF WaitsFor
  <2>2. pc[u] = "source" /\ Copies(u)
    BY <1>3, <2>1, GilHolderWaits DEF TypeOK, Copies
  <2> QED BY <1>6, <2>2
<1>7. CASE pc[t] = "source"
  <2>1. mutex[call[t].other] = u
    BY <1>2, <1>7 DEF WaitsFor
  <2>2. mutex[call[t].other] # t
    BY <1>4, <1>7 DEF LocksHeld, HasModel, Calls
  <2> QED BY <1>4, <1>5, <2>1, <2>2 DEF Calls
<1>8. CASE pc[t] = "target"
  BY <1>2, <1>4, <1>5, <1>8 DEF WaitsFor, Calls
<1> QED BY <1>4, <1>6, <1>7, <1>8

\* The rule that keeps a program free of deadlocks holds in every reachable
\* state, for any number of threads and models.
THEOREM DeadlocksNeedCopies == Spec => []DeadlockNeedsCopies
BY LocksCorrect, DeadlockShape, PTL
=============================================================================
