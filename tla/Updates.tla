------------------------------ MODULE Updates ------------------------------
(***************************************************************************)
(* SPARQL updates, and the insertion of what a CONSTRUCT query finds.  An  *)
(* update is a sequence of operations.  Each one evaluates its pattern     *)
(* once, deletes from one graph after another, then inserts into one graph *)
(* after another, in the order of a hash map.  Nothing is undone when a    *)
(* later step fails.                                                       *)
(***************************************************************************)
EXTENDS Algebra

CONSTANTS Requests,      \* updates: sequences of operations
          Constructs,    \* CONSTRUCT queries: a template and a pattern
          Start,         \* the dataset at the start
          Evaluate(_, _, _),  \* the answer to a query, asked of a graph of a dataset
          Solutions(_, _),    \* the solutions of a pattern in a dataset, by the recommendation
          MaxRequests    \* bound: updates and insertions in a behaviour

\* A dataset is a map from the names of graphs.
ASSUME StartIsMap == Start = [g \in DOMAIN Start |-> Start[g]]

VARIABLES ds,            \* graph -> asserted and transient triples
          todo,          \* the operations left of the update
          tab,           \* the solutions of the first one
          dels,          \* graph -> triples still to be deleted
          ins,           \* graph -> triples to be inserted afterwards
          phase,         \* "idle", "deleting", "inserting", "failed"
          minted,        \* blank nodes minted so far
          before,        \* the dataset when the operation began (history)
          done           \* requests so far
vars == <<ds, todo, tab, dels, ins, phase, minted, before, done>>

NoGraphs == [g \in {} |-> {}]
NoTable  == [ok |-> FALSE]

---------------------------------------------------------------------------
(* The steps.                                                              *)

GraphOf(d, g) == IF g \in DOMAIN d THEN d[g] ELSE [asserted |-> {}, transient |-> {}]
Put(d, g, graph) == [h \in DOMAIN d \cup {g} |-> IF h = g THEN graph ELSE d[h]]

Init == /\ ds = Start
        /\ todo = <<>>
        /\ tab = NoTable
        /\ dels = NoGraphs
        /\ ins = NoGraphs
        /\ phase = "idle"
        /\ minted = 0
        /\ before = Start
        /\ done = 0

Update(request) ==
  /\ phase = "idle" /\ todo = <<>>
  /\ done < MaxRequests
  /\ todo' = request
  /\ done' = done + 1
  /\ before' = ds
  /\ UNCHANGED <<ds, tab, dels, ins, phase, minted>>

Fail ==
  /\ todo' = <<>>
  /\ tab' = NoTable
  /\ dels' = NoGraphs
  /\ ins' = NoGraphs
  /\ phase' = "failed"

RefuseOperation ==
  /\ phase = "idle" /\ todo # <<>>
  /\ Unimplemented(Head(todo))
  /\ Fail
  /\ before' = ds
  /\ UNCHANGED <<ds, minted, done>>

IgnoreOperation ==
  /\ phase = "idle" /\ todo # <<>>
  /\ Head(todo).op \in Ignored
  /\ todo' = Tail(todo)
  /\ before' = ds
  /\ UNCHANGED <<ds, tab, dels, ins, phase, minted, done>>

BeginDeletes(found, quads) ==
  IF ~found.ok \/ BadGraph(quads) THEN Fail
  ELSE /\ tab' = found
       /\ dels' = TemplateToSolutions(found.rows, quads)
       /\ phase' = "deleting"
       /\ UNCHANGED <<todo, ins>>
\* The pattern is evaluated once, on the default graph, and the template of
\* what is deleted is filled.
Solve ==
  /\ phase = "idle" /\ todo # <<>>
  /\ Head(todo).op = "deleteinsert" /\ ~Unimplemented(Head(todo))
  /\ BeginDeletes(Evaluate(ds, DefaultGraph, Wanted(Head(todo))), Head(todo).delete)
  /\ before' = ds
  /\ UNCHANGED <<ds, minted, done>>

\* A triple lies in the table of its predicate and the types of its ends.
TableOf(t) == <<t[1].type, t[2], t[3].type>>

\* Mutant: what was inferred stays.
AfterDeletionAsserted(graph, ts) == [graph EXCEPT !.asserted = @ \ ts]
\* From the asserted and from the transient triples.  What is left of a table
\* is written again, and a transient triple that is asserted is not.
AfterDeletion(graph, ts) ==
  LET Touched(t) == \E d \in ts : TableOf(d) = TableOf(t)
      kept       == graph.asserted \ ts
  IN  [asserted  |-> kept,
       transient |-> (graph.transient \ ts) \ {t \in kept : Touched(t)}]
\* The graph must exist.
DeleteGraph(g) ==
  /\ phase = "deleting"
  /\ IF g \in DOMAIN ds
     THEN /\ ds' = [ds EXCEPT ![g] = AfterDeletion(@, dels[g])]
          /\ dels' = [h \in DOMAIN dels \ {g} |-> dels[h]]
          /\ UNCHANGED <<todo, tab, ins, phase>>
     ELSE Fail /\ UNCHANGED ds
  /\ UNCHANGED <<minted, before, done>>

\* A graph is made when something is put into it.
WithTriples(graph, ts) == [asserted |-> graph.asserted \cup ts, transient |-> graph.transient]

\* Mutant: a graph is written before the deletions are done.
BeginInsertsEarly ==
  /\ phase = "deleting"
  /\ LET quads == Head(todo).insert
         made  == TemplateToSolutions(MintBlankNodes(tab.rows, quads, minted), quads)
     IN  IF BadGraph(quads) THEN Fail /\ UNCHANGED <<ds, minted>>
         ELSE /\ ds' = [g \in DOMAIN made |-> WithTriples(GraphOf(ds, g), made[g])] @@ ds
              /\ ds' # ds
              /\ minted' = minted + NewBlanks(tab.rows, quads)
              /\ UNCHANGED <<todo, tab, dels, ins, phase>>
  /\ UNCHANGED <<before, done>>
\* Mutant: the pattern is asked again, of what the deletions left.
BeginInsertsAsked ==
  /\ phase = "deleting" /\ dels = NoGraphs
  /\ LET quads == Head(todo).insert
         rows  == Evaluate(ds, DefaultGraph, Wanted(Head(todo))).rows
     IN  /\ ~BadGraph(quads)
         /\ ins' = TemplateToSolutions(MintBlankNodes(rows, quads, minted), quads)
         /\ minted' = minted + NewBlanks(rows, quads)
         /\ phase' = "inserting"
  /\ UNCHANGED <<ds, todo, tab, dels, before, done>>
\* The template of what is inserted is filled from the same solutions.
BeginInserts ==
  /\ phase = "deleting" /\ dels = NoGraphs
  /\ LET quads == Head(todo).insert
     IN  IF BadGraph(quads) THEN Fail /\ UNCHANGED minted
         ELSE /\ ins' = TemplateToSolutions(MintBlankNodes(tab.rows, quads, minted), quads)
              /\ minted' = minted + NewBlanks(tab.rows, quads)
              /\ phase' = "inserting"
              /\ UNCHANGED <<todo, tab, dels>>
  /\ UNCHANGED <<ds, before, done>>

InsertGraph(g) ==
  /\ phase = "inserting"
  /\ ds' = Put(ds, g, WithTriples(GraphOf(ds, g), ins[g]))
  /\ ins' = [h \in DOMAIN ins \ {g} |-> ins[h]]
  /\ UNCHANGED <<todo, tab, dels, phase, minted, before, done>>

EndOperation ==
  /\ phase = "inserting" /\ ins = NoGraphs
  /\ phase' = "idle"
  /\ todo' = Tail(todo)
  /\ tab' = NoTable
  /\ UNCHANGED <<ds, dels, ins, minted, before, done>>

\* The call raises; the next one starts from what is there.
Raise ==
  /\ phase = "failed"
  /\ phase' = "idle"
  /\ UNCHANGED <<ds, todo, tab, dels, ins, minted, before, done>>

\* What is inferred comes in batches, one for each quad of a template and each
\* table, and loses what is asserted.  The stored table is taken out at its
\* first batch; if nothing is left of that batch, it is not put back.
WithTransient(graph, batches) ==
  LET Batch(i, k) == {t \in batches[i] : TableOf(t) = k}
      Dropped(k)  == \E i \in DOMAIN batches :
                       /\ Batch(i, k) # {} /\ Batch(i, k) \subseteq graph.asserted
                       /\ \A j \in 1..(i - 1) : Batch(j, k) = {}
  IN  [asserted  |-> graph.asserted,
       transient |-> {t \in graph.transient : ~Dropped(TableOf(t))}
                       \cup ((UNION {batches[i] : i \in DOMAIN batches}) \ graph.asserted)]

\* insert: the triples of a CONSTRUCT query go into a graph, at once.
InsertConstruct(c, source, target, transient) ==
  /\ phase = "idle" /\ todo = <<>> /\ done < MaxRequests
  /\ LET Insert(found) ==
           IF ~found.ok THEN UNCHANGED <<ds, minted>>
           ELSE LET rows  == MintBlankNodes(found.rows, c.template, minted)
                    new   == TemplateToSolutions(rows, c.template)
                    graph == GraphOf(ds, target)
                IN  IF DefaultGraph \notin DOMAIN new THEN UNCHANGED <<ds, minted>>
                    ELSE /\ ds' = Put(ds, target, IF transient
                                                  THEN WithTransient(graph, TemplateBatches(rows, c.template, DefaultGraph))
                                                  ELSE WithTriples(graph, new[DefaultGraph]))
                         /\ minted' = minted + NewBlanks(found.rows, c.template)
     IN  Insert(Evaluate(ds, source, c.p))
  /\ done' = done + 1
  /\ before' = ds
  /\ UNCHANGED <<todo, tab, dels, ins, phase>>

Next ==
  \/ \E request \in Requests : Update(request)
  \/ \E c \in Constructs, source, target \in DOMAIN Start, transient \in BOOLEAN :
       InsertConstruct(c, source, target, transient)
  \/ RefuseOperation \/ IgnoreOperation \/ Solve
  \/ \E g \in DOMAIN dels : DeleteGraph(g)
  \/ BeginInserts
  \/ \E g \in DOMAIN ins : InsertGraph(g)
  \/ EndOperation \/ Raise
Spec == Init /\ [][Next]_vars

---------------------------------------------------------------------------
(* Properties.                                                             *)

Contents(d, g) == IF g \in DOMAIN d THEN d[g].asserted \cup d[g].transient ELSE {}

\* A failed operation has inserted nothing, and has deleted only what it was
\* asked to.  It may have deleted part of it.
FailureOnlyDeletes ==
  phase = "failed" =>
    \A g \in DOMAIN ds : Contents(ds, g) \subseteq Contents(before, g)

\* The dataset once the graphs that are left are written.
Written(d, I) == [g \in DOMAIN d \cup DOMAIN I |->
                    IF g \in DOMAIN I THEN WithTriples(GraphOf(d, g), I[g]) ELSE d[g]]
\* An operation happens when its deletions are done and its insertions are
\* known: nothing can fail after that.
Data   == IF phase = "deleting" THEN before ELSE IF phase = "inserting" THEN Written(ds, ins) ELSE ds
Left   == IF phase = "inserting" THEN Tail(todo) ELSE todo
Raised == phase = "failed"
Atomic == INSTANCE AtomicUpdates WITH data <- Data, todo <- Left, raised <- Raised

\* Whatever the order of the graphs, each operation of an update deletes and
\* inserts what its pattern found before either, at once, or fails and only
\* deletes; what is inferred from a query is all there afterwards, and nothing
\* is lost but inferred triples of tables that an asserted one came for again
\* (update_parsed, insert_parsed, add_global_cat_triples).
ImplementsAtomicUpdates == Atomic!ASpec

\* The triples a template makes of the solutions in a graph, by the
\* recommendation, with a new blank node for every label and solution.
NewNode(l, i) == [type |-> "new", label |-> l, row |-> i]
NodeValue(nd, solutions, i) ==
  CASE nd.k = "term" -> nd.t
    [] nd.k = "bnode" -> NewNode(nd.n, i)
    [] nd.k = "var" -> IF nd.n \in DOMAIN solutions[i] THEN solutions[i][nd.n] ELSE Null
Filled(quads, solutions, g) ==
  LET Value(nd, i) == NodeValue(nd, solutions, i)
      Of(t) == {<<Value(t.s, i), Value(t.p, i), Value(t.o, i)>> : i \in DOMAIN solutions}
  IN  {t \in UNION {Of(q.t) : q \in {r \in ToSet(quads) : r.g.t = g}} :
         t[1].type \in {"iri", "blank", "new"} /\ t[2].type = "iri" /\ t[3] # Null}
Ends(S)       == UNION {{t[1], t[3]} : t \in S}
NamedBy(f, x)    == IF x \in DOMAIN f THEN f[x] ELSE x
Renamed(f, t) == <<NamedBy(f, t[1]), t[2], NamedBy(f, t[3])>>

\* A scan lists a triple twice that is asserted and transient.
Once(d) == \A g \in DOMAIN d : d[g].asserted \cap d[g].transient = {}
\* An operation that ends has deleted and then inserted what its pattern found
\* before either, in every graph, however its parts are ordered, with a blank
\* node of its own for each new one, that was in no graph before (SPARQL 1.1
\* Update, and the loop of update_parsed).
OperationAsOneStep ==
  [][EndOperation /\ Once(before) =>
       LET op        == Head(todo)
           solutions == Solutions(op.p, before)
           graphs    == DOMAIN ds \cup {q.g.t : q \in ToSet(op.insert)}
           Due(g)    == Filled(op.insert, solutions, g)
           Kept(g)   == Contents(before, g) \ Filled(op.delete, solutions, g)
           due       == {x \in Ends(UNION {Due(g) : g \in graphs}) : x.type = "new"}
           news      == {x \in Ends(UNION {Contents(ds, g) : g \in graphs}) : x.type = "blank"}
                          \ Ends(UNION {Contents(before, g) : g \in graphs})
       IN  \E f \in [due -> news] :
             /\ \A x, y \in due : f[x] = f[y] => x = y
             /\ \A g \in graphs : Contents(ds, g) = Kept(g) \cup {Renamed(f, t) : t \in Due(g)}]_vars
=============================================================================
