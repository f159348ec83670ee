----------------------------- MODULE GraphStore -----------------------------
(***************************************************************************)
(* What a model promises about asserted triples: it is a set of quads over *)
(* terms, and a call changes it by what it was asked to delete and add.    *)
(* Identifiers, encoders, tables, transient triples, garbage collection    *)
(* and compaction are not visible here.                                    *)
(***************************************************************************)
CONSTANTS Quad,      \* <<graph, predicate, object type, subject, object>>
          Graph,     \* graph names
          Default    \* the default graph

VARIABLES quads,     \* the model in use
          detached,  \* a second model, made by detaching a graph
          call       \* the last call: what it was asked to do

gvars == <<quads, detached, call>>

\* A call: its kind, the quads it deletes and adds, the graphs it moves between.
Call(op, D, I, g, h) == [op |-> op, del |-> D, ins |-> I, from |-> g, to |-> h]
Plain(op) == Call(op, {}, {}, Default, Default)

In(Q, g) == {q \in Q : q[1] = g}

Rename(Q, g) == {<<g, q[2], q[3], q[4], q[5]>> : q \in Q}

GInit == quads = {} /\ detached = {} /\ call = Plain("new")

\* Quads are removed, then others added.
Change(D, I) ==
  /\ call' = Call("change", D, I, Default, Default)
  /\ quads' = (quads \ D) \cup I
  /\ UNCHANGED detached

\* An update that fails has removed quads of some of the graphs and added none.
Fail(D) ==
  /\ call' = Call("fail", D, {}, Default, Default)
  /\ \E G \in SUBSET Graph : quads' = {q \in quads : ~(q \in D /\ q[1] \in G)}
  /\ UNCHANGED detached

Clear(g) ==
  /\ call' = Call("clear", {}, {}, g, g)
  /\ quads' = quads \ In(quads, g)
  /\ UNCHANGED detached

\* The graph leaves the model and becomes a model of its own, under the name h.
Split(g, h) ==
  /\ call' = Call("split", {}, {}, g, h)
  /\ quads' = quads \ In(quads, g)
  /\ detached' = Rename(In(quads, g), h)

\* A graph of the second model is copied under the name h.
Copy(g, h) ==
  /\ call' = Call("copy", {}, {}, g, h)
  /\ quads' = quads \cup Rename(In(detached, g), h)
  /\ UNCHANGED detached

Exchange ==
  /\ call' = Plain("swap")
  /\ quads' = detached /\ detached' = quads

\* Transient triples, garbage collection and compaction.
Internal == call' \in {Plain("transient"), Plain("collect"), Plain("compact")}
            /\ UNCHANGED <<quads, detached>>

\* A call that panics may lose the model it was made on.
Crash == call' = Plain("crash") /\ quads' \in {quads, {}} /\ UNCHANGED detached

GNext ==
  \/ \E D, I \in SUBSET Quad : Change(D, I)
  \/ \E D \in SUBSET Quad : Fail(D)
  \/ \E g \in Graph : Clear(g)
  \/ \E g, h \in Graph : Split(g, h) \/ Copy(g, h)
  \/ Exchange
  \/ Internal
  \/ Crash

GSpec == GInit /\ [][GNext]_gvars
=============================================================================
