--------------------------- MODULE AtomicUpdates ---------------------------
(***************************************************************************)
(* What updates promise about the triples of each graph, asserted or       *)
(* inferred: an operation takes one step, which deletes and then inserts   *)
(* what its pattern finds in the data before it.  An operation that fails  *)
(* inserts nothing and deletes, in some of the graphs, what it would have  *)
(* deleted there; the rest of its update is forgotten.  The order of the   *)
(* graphs is not visible here.  Tables and transient triples are only      *)
(* where triples that are inferred again can cost others.                  *)
(***************************************************************************)
EXTENDS Naturals, Sequences

CONSTANTS Requests, Constructs, Start, DefaultGraph,
          Ignored,                    \* kinds of operations that do nothing
          Unimplemented(_),           \* operations that fail
          Wanted(_),                  \* the query of an operation
          Evaluate(_, _, _),          \* its answer, asked of a graph of a dataset
          TemplateToSolutions(_, _),  \* the triples, by graph, that solutions give a template
          MintBlankNodes(_, _, _),    \* solutions with the blank nodes of a template
          NewBlanks(_, _),            \* how many those are
          TableOf(_)                  \* the table a triple lies in

VARIABLES data,    \* graph -> asserted and transient triples
          todo,    \* the operations left of the update
          raised,  \* whether an operation has failed
          minted   \* blank nodes minted so far
avars == <<data, todo, raised, minted>>

Triples(graph)  == graph.asserted \cup graph.transient
Snapshot(d)     == [g \in DOMAIN d |-> Triples(d[g])]
At(s, g)        == IF g \in DOMAIN s THEN s[g] ELSE {}
Without(s, D)   == [g \in DOMAIN s |-> s[g] \ At(D, g)]
Plus(s, I)      == [g \in DOMAIN s \cup DOMAIN I |-> At(s, g) \cup At(I, g)]
Part(D, G)      == [g \in DOMAIN D \cap G |-> D[g]]
Only(g, ts)     == [h \in {g} |-> ts]

Graph(d, g)     == IF g \in DOMAIN d THEN d[g] ELSE [asserted |-> {}, transient |-> {}]

Found(op) == Evaluate(data, DefaultGraph, Wanted(op))

AInit == data = Start /\ todo = <<>> /\ raised = FALSE /\ minted = 0

Request(request) ==
  /\ todo = <<>> /\ ~raised
  /\ todo' = request
  /\ UNCHANGED <<data, raised, minted>>

\* Nothing happens.
Ignore ==
  /\ todo # <<>> /\ ~raised
  /\ Head(todo).op \in Ignored
  /\ todo' = Tail(todo)
  /\ UNCHANGED <<data, raised, minted>>

Operation ==
  /\ todo # <<>> /\ ~raised
  /\ Head(todo).op = "deleteinsert" /\ ~Unimplemented(Head(todo))
  /\ LET op    == Head(todo)
         found == Found(op)
         D     == TemplateToSolutions(found.rows, op.delete)
         I     == TemplateToSolutions(MintBlankNodes(found.rows, op.insert, minted), op.insert)
     IN  /\ found.ok
         /\ Snapshot(data') = Plus(Without(Snapshot(data), D), I)
         /\ minted' = minted + NewBlanks(found.rows, op.insert)
  /\ todo' = Tail(todo)
  /\ UNCHANGED raised

FailedOperation ==
  /\ todo # <<>> /\ ~raised
  /\ \/ UNCHANGED data
     \/ LET op    == Head(todo)
            found == Found(op)
            D     == TemplateToSolutions(found.rows, op.delete)
        IN  /\ op.op = "deleteinsert" /\ ~Unimplemented(op) /\ found.ok
            /\ \E G \in SUBSET DOMAIN data : Snapshot(data') = Without(Snapshot(data), Part(D, G))
  /\ todo' = <<>> /\ raised' = TRUE
  /\ UNCHANGED minted

Raise ==
  /\ raised /\ raised' = FALSE
  /\ UNCHANGED <<data, todo, minted>>

\* The inferred triples of some tables.
Inferred(graph, K) == {t \in graph.transient \ graph.asserted : TableOf(t) \in K}
\* The tables of triples that are asserted already.
Covered(graph, ts) == {TableOf(t) : t \in ts \cap graph.asserted}

\* Of the triples a CONSTRUCT query describes, none or all are inserted.  All
\* else stays, except that triples that are inferred, but asserted already, can
\* cost what is inferred in their tables.
Insertion(c, source, target, transient) ==
  /\ todo = <<>> /\ ~raised
  /\ LET found == Evaluate(data, source, c.p)
         new   == TemplateToSolutions(MintBlankNodes(found.rows, c.template, minted), c.template)
     IN  /\ found.ok
         /\ DefaultGraph \in DOMAIN new
         /\ \E K \in SUBSET (IF transient THEN Covered(Graph(data, target), new[DefaultGraph]) ELSE {}) :
              Snapshot(data') = Plus(Without(Snapshot(data), Only(target, Inferred(Graph(data, target), K))),
                                     Only(target, new[DefaultGraph]))
         /\ minted' = minted + NewBlanks(found.rows, c.template)
  /\ UNCHANGED <<todo, raised>>

ANext ==
  \/ \E request \in Requests : Request(request)
  \/ Ignore \/ Operation \/ FailedOperation \/ Raise
  \/ \E c \in Constructs, source, target \in DOMAIN Start, transient \in BOOLEAN :
       Insertion(c, source, target, transient)

ASpec == AInit /\ [][ANext]_avars
=============================================================================
