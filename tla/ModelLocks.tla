----------------------------- MODULE ModelLocks -----------------------------
(***************************************************************************)
(* The locks of the Python binding (py_maplib): threads of one interpreter *)
(* call methods of models that they share.  Every model is behind a mutex; *)
(* a method gives up the global interpreter lock (GIL), locks the mutex,   *)
(* works, unlocks, and takes the GIL back before it returns.  Three kinds  *)
(* of methods differ: add_graph locks its source while it has the GIL and  *)
(* keeps that lock until it has the GIL again; a query that calls a        *)
(* user-defined function takes the GIL while it has the mutex; and a query *)
(* turns identifiers into terms only after it has unlocked the mutex.      *)
(*                                                                         *)
(* The function of a user is Python code that calls no method of a model.  *)
(***************************************************************************)
EXTENDS Naturals, TLC

CONSTANTS Thread, Model,
          NoThread,    \* the holder of a free lock
          MaxVersion   \* bound on the renumberings of a model

ASSUME ThreadAssumption == NoThread \notin Thread
ASSUME VersionAssumption == MaxVersion \in Nat

VARIABLES gil,       \* the thread that has the GIL
          mutex,     \* the thread that has the mutex of a model
          poisoned,  \* models whose mutex is poisoned
          pc,        \* where a thread is
          call,      \* the method a thread is in
          outcome,   \* how the work of that method ended
          version,   \* how often the identifiers of a model were renumbered
          result     \* the version the identifiers of a query result are of

vars == <<gil, mutex, poisoned, pc, call, outcome, version, result>>

\* "renumber" stands for compact, serialize and updates that collect garbage,
\* "plain" for the other methods, "udf" for a query with user-defined functions.
Kind == {"plain", "renumber", "query", "udf", "add_graph"}
Calls == [kind : Kind, self : Model, other : Model]
NoCall == [kind |-> "none"]

Place == {"out",      \* Python code, without the GIL
          "python",   \* Python code, with the GIL
          "source",   \* add_graph, about to lock the other model
          "target",   \* detached from the interpreter, about to lock the model
          "work",     \* working on the locked model
          "udf_gil",  \* the same, about to attach for a user-defined function
          "udf",      \* the same, in the function
          "attach",   \* unlocked, about to attach
          "decode"}   \* attached, about to decode the result

Init ==
  /\ gil = NoThread
  /\ mutex = [m \in Model |-> NoThread]
  /\ poisoned = {}
  /\ pc = [t \in Thread |-> "out"]
  /\ call = [t \in Thread |-> NoCall]
  /\ outcome = [t \in Thread |-> "none"]
  /\ version = [m \in Model |-> 0]
  /\ result = [t \in Thread |-> 0]

Move(t, from, to) == pc[t] = from /\ pc' = [pc EXCEPT ![t] = to]

\* The method returns, and its local state is gone.
Return(t, from) ==
  /\ Move(t, from, "python")
  /\ call' = [call EXCEPT ![t] = NoCall]
  /\ outcome' = [outcome EXCEPT ![t] = "none"]
  /\ result' = [result EXCEPT ![t] = 0]

-----------------------------------------------------------------------------
(* The interpreter.                                                        *)

Resume(t) ==
  /\ gil = NoThread
  /\ Move(t, "out", "python")
  /\ gil' = t
  /\ UNCHANGED <<mutex, poisoned, call, outcome, version, result>>

Yield(t) ==
  /\ Move(t, "python", "out")
  /\ gil' = NoThread
  /\ UNCHANGED <<mutex, poisoned, call, outcome, version, result>>

-----------------------------------------------------------------------------
(* A method.                                                               *)

\* Mutant: a method locks its model without detaching.
StartAttached(t, c) ==
  /\ Move(t, "python", IF c.kind = "add_graph" THEN "source" ELSE "target")
  /\ call' = [call EXCEPT ![t] = c]
  /\ UNCHANGED <<gil, mutex, poisoned, outcome, version, result>>

\* add_graph keeps the GIL, every other method detaches.
Start(t, c) ==
  /\ Move(t, "python", IF c.kind = "add_graph" THEN "source" ELSE "target")
  /\ gil' = IF c.kind = "add_graph" THEN t ELSE NoThread
  /\ call' = [call EXCEPT ![t] = c]
  /\ UNCHANGED <<mutex, poisoned, outcome, version, result>>

\* add_graph locks the other model, then detaches.  A poisoned mutex makes
\* unwrap panic, which ends the method.
LockSource(t) ==
  LET m == call[t].other
  IN  /\ pc[t] = "source"
      /\ mutex[m] = NoThread
      /\ \/ /\ m \notin poisoned
            /\ Move(t, "source", "target")
            /\ mutex' = [mutex EXCEPT ![m] = t]
            /\ gil' = NoThread
            /\ UNCHANGED <<call, outcome, result>>
         \/ /\ m \in poisoned
            /\ Return(t, "source")
            /\ UNCHANGED <<mutex, gil>>
      /\ UNCHANGED <<poisoned, version>>

LockTarget(t) ==
  LET m == call[t].self
  IN  /\ pc[t] = "target"
      /\ mutex[m] = NoThread
      /\ \/ /\ m \notin poisoned
            /\ Move(t, "target", "work")
            /\ mutex' = [mutex EXCEPT ![m] = t]
            /\ UNCHANGED outcome
         \/ /\ m \in poisoned
            /\ Move(t, "target", "attach")
            /\ outcome' = [outcome EXCEPT ![t] = "panic"]
            /\ UNCHANGED mutex
      /\ UNCHANGED <<gil, poisoned, call, version, result>>

\* UdfEntry::call: Python::attach around the function, under the mutex.
UdfCall(t) ==
  /\ call[t].kind = "udf"
  /\ Move(t, "work", "udf_gil")
  /\ UNCHANGED <<gil, mutex, poisoned, call, outcome, version, result>>

UdfAttach(t) ==
  /\ gil = NoThread
  /\ Move(t, "udf_gil", "udf")
  /\ gil' = t
  /\ UNCHANGED <<mutex, poisoned, call, outcome, version, result>>

\* The interpreter may take the GIL away in the function, which then waits for
\* it again.
UdfYield(t) ==
  /\ Move(t, "udf", "udf_gil")
  /\ gil' = NoThread
  /\ UNCHANGED <<mutex, poisoned, call, outcome, version, result>>

UdfReturn(t) ==
  /\ Move(t, "udf", "work")
  /\ gil' = NoThread
  /\ UNCHANGED <<mutex, poisoned, call, outcome, version, result>>

\* The closure ends and drops the guard of the model.  An error that the work
\* returns has no result.
Unlock(t, how) ==
  /\ Move(t, "work", "attach")
  /\ mutex' = [mutex EXCEPT ![call[t].self] = NoThread]
  /\ outcome' = [outcome EXCEPT ![t] = how]
  /\ UNCHANGED <<gil, call>>

Finish(t) ==
  /\ Unlock(t, "ok")
  /\ result' = [result EXCEPT ![t] = version[call[t].self]]
  /\ \/ /\ call[t].kind = "renumber"
        /\ version[call[t].self] < MaxVersion
        /\ version' = [version EXCEPT ![call[t].self] = @ + 1]
     \/ call[t].kind # "renumber" /\ UNCHANGED version
  /\ UNCHANGED poisoned

Fail(t) == Unlock(t, "error") /\ UNCHANGED <<poisoned, version, result>>

\* A panic in the work poisons the mutex of the model.
Panic(t) ==
  /\ Unlock(t, "panic")
  /\ poisoned' = poisoned \cup {call[t].self}
  /\ UNCHANGED <<version, result>>

\* The thread attaches, also when it unwinds; a query that found a result has
\* yet to decode it.
Decodes(t) == call[t].kind \in {"query", "udf"} /\ outcome[t] = "ok"

AttachDecoding(t) ==
  /\ gil = NoThread
  /\ Decodes(t)
  /\ Move(t, "attach", "decode")
  /\ gil' = t
  /\ UNCHANGED <<mutex, poisoned, call, outcome, version, result>>

AttachReturning(t) ==
  /\ gil = NoThread
  /\ ~Decodes(t) /\ call[t].kind # "add_graph"
  /\ Return(t, "attach")
  /\ gil' = t
  /\ UNCHANGED <<mutex, poisoned, version>>

\* Mutant: the guard of the source is forgotten.
AttachForgetting(t) ==
  /\ gil = NoThread
  /\ call[t].kind = "add_graph"
  /\ Return(t, "attach")
  /\ gil' = t
  /\ UNCHANGED <<mutex, poisoned, version>>

\* add_graph drops the guard of its source when it is attached again: a panic
\* on the way poisons that model as well.
AttachCopied(t) ==
  /\ gil = NoThread
  /\ call[t].kind = "add_graph"
  /\ Return(t, "attach")
  /\ gil' = t
  /\ mutex' = [mutex EXCEPT ![call[t].other] = NoThread]
  /\ poisoned' = IF outcome[t] = "panic" THEN poisoned \cup {call[t].other} ELSE poisoned
  /\ UNCHANGED version

\* query_to_result, with the encoders of the model as they are now.
Decode(t) ==
  /\ Return(t, "decode")
  /\ UNCHANGED <<gil, mutex, poisoned, version>>

Step(t) ==
  \/ Resume(t) \/ Yield(t)
  \/ \E c \in Calls : (c.kind # "add_graph" => c.other = c.self) /\ Start(t, c)
  \/ LockSource(t) \/ LockTarget(t)
  \/ UdfCall(t) \/ UdfAttach(t) \/ UdfYield(t) \/ UdfReturn(t)
  \/ Finish(t) \/ Fail(t) \/ Panic(t)
  \/ AttachDecoding(t) \/ AttachReturning(t) \/ AttachCopied(t)
  \/ Decode(t)

Next == \E t \in Thread : Step(t)

Spec == Init /\ [][Next]_vars

-----------------------------------------------------------------------------
(* Properties.                                                             *)

TypeOK ==
  /\ gil \in Thread \cup {NoThread}
  /\ mutex \in [Model -> Thread \cup {NoThread}]
  /\ poisoned \subseteq Model
  /\ pc \in [Thread -> Place]
  /\ call \in [Thread -> Calls \cup {NoCall}]
  /\ outcome \in [Thread -> {"none", "ok", "error", "panic"}]
  /\ version \in [Model -> 0..MaxVersion]
  /\ result \in [Thread -> 0..MaxVersion]
  /\ \A t \in Thread : /\ pc[t] \notin {"out", "python"} => call[t] \in Calls
                       /\ pc[t] = "source" => call[t].kind = "add_graph"
                       /\ pc[t] \in {"udf_gil", "udf"} => call[t].kind = "udf"

\* What a thread holds, by where it is.
HasGil(t) == pc[t] \in {"python", "source", "udf", "decode"}
HasModel(t, m) ==
  \/ pc[t] \in {"work", "udf_gil", "udf"} /\ m = call[t].self
  \/ pc[t] \in {"target", "work", "attach"} /\ call[t].kind = "add_graph" /\ m = call[t].other

\* A lock is held by the one thread that is at a place that needs it, on every
\* path through a method, errors and panics included: no method returns with a
\* lock, and none works without.
LocksHeld ==
  \A t \in Thread : /\ gil = t <=> HasGil(t)
                    /\ \A m \in Model : mutex[m] = t <=> HasModel(t, m)

\* Thread t, in a method, waits for a lock that u has.
WaitsFor(t, u) ==
  \/ pc[t] \in {"udf_gil", "attach"} /\ gil = u
  \/ pc[t] = "source" /\ mutex[call[t].other] = u
  \/ pc[t] = "target" /\ mutex[call[t].self] = u

Deadlocked(S) == S # {} /\ \A t \in S : \E u \in S : WaitsFor(t, u)

Copies(t) == pc[t] \notin {"out", "python"} /\ call[t].kind = "add_graph"

\* A deadlock takes add_graph, and more than one such call, or one from a model
\* into itself, or one while a query is in a user-defined function: a program
\* that makes its add_graph calls one at a time, between different models, and
\* not during such queries never stops.
DeadlockNeedsCopies ==
  \A S \in SUBSET Thread : Deadlocked(S) =>
    \E t \in S : /\ Copies(t)
                 /\ \/ call[t].self = call[t].other
                    \/ \E u \in S \ {t} : Copies(u) \/ pc[u] = "udf_gil"

\* "Query the contained knowledge graph" (the docstring of query): the terms of
\* a result are the ones the query found, so its identifiers are decoded by the
\* numbering they are of.
ResultsCurrent ==
  \A t \in Thread : pc[t] = "decode" => result[t] = version[call[t].self]

\* Neither threads nor models are told apart.
Symmetry == Permutations(Thread) \cup Permutations(Model)
=============================================================================
