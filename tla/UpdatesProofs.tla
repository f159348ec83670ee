--------------------------- MODULE UpdatesProofs ---------------------------
(***************************************************************************)
(* Proofs that an operation of an update happens at once, or fails and     *)
(* only deletes, for every evaluator of patterns.                          *)
(***************************************************************************)
EXTENDS Updates, FiniteSetTheorems, FunctionTheorems, TLAPS

Deletes == TemplateToSolutions(tab.rows, Head(todo).delete)

\* While graphs are deleted from: some are done, the others are as they were.
Deleting ==
  /\ todo # <<>> /\ Head(todo).op = "deleteinsert" /\ ~Unimplemented(Head(todo))
  /\ tab = Evaluate(before, DefaultGraph, Wanted(Head(todo))) /\ tab.ok
  /\ DOMAIN ds = DOMAIN before
  /\ DOMAIN dels \subseteq DOMAIN Deletes
  /\ \A g \in DOMAIN dels : dels[g] = Deletes[g]
  /\ \A g \in DOMAIN ds :
       Contents(ds, g) = IF g \in DOMAIN Deletes \ DOMAIN dels THEN Contents(before, g) \ Deletes[g]
                         ELSE Contents(before, g)

\* After a failure: triples of some graphs are gone.
Raising ==
  /\ todo = <<>>
  /\ DOMAIN ds = DOMAIN before
  /\ \A g \in DOMAIN ds : Contents(ds, g) \subseteq Contents(before, g)

IsMap(d) == d = [g \in DOMAIN d |-> d[g]]

IInv ==
  /\ IsMap(ds)
  /\ phase \in {"idle", "deleting", "inserting", "failed"}
  /\ phase = "deleting" => Deleting
  /\ phase = "inserting" => todo # <<>>
  /\ phase = "failed" => Raising

---------------------------------------------------------------------------
(* Datasets.                                                               *)

\* A deletion takes the triples from the graph, whichever map holds them.
LEMMA DeletedFrom == ASSUME NEW graph, NEW ts
  PROVE Atomic!Triples(AfterDeletion(graph, ts)) = Atomic!Triples(graph) \ ts
BY DEF AfterDeletion, TableOf, Atomic!Triples

\* An insertion adds them, whichever map takes them.
LEMMA InsertedInto == ASSUME NEW graph, NEW ts
  PROVE Atomic!Triples(WithTriples(graph, ts)) = Atomic!Triples(graph) \cup ts
BY DEF WithTriples, Atomic!Triples

\* What is inferred is added as well, but takes the place of the tables whose
\* first batch is asserted.
LEMMA InferredInto == ASSUME NEW graph, NEW batches
  PROVE LET ts == UNION {batches[i] : i \in DOMAIN batches}
        IN  \E K \in SUBSET Atomic!Covered(graph, ts) :
              Atomic!Triples(WithTransient(graph, batches))
                = (Atomic!Triples(graph) \ Atomic!Inferred(graph, K)) \cup ts
<1> DEFINE ts == UNION {batches[i] : i \in DOMAIN batches}
           Batch(i, k) == {t \in batches[i] : TableOf(t) = k}
           Dropped(k)  == \E i \in DOMAIN batches :
                            /\ Batch(i, k) # {} /\ Batch(i, k) \subseteq graph.asserted
                            /\ \A j \in 1..(i - 1) : Batch(j, k) = {}
           K == {k \in Atomic!Covered(graph, ts) : Dropped(k)}
<1>1. ASSUME NEW k, Dropped(k) PROVE k \in Atomic!Covered(graph, ts)
  <2>1. PICK i \in DOMAIN batches : Batch(i, k) # {} /\ Batch(i, k) \subseteq graph.asserted
    BY <1>1
  <2>2. PICK t \in Batch(i, k) : TRUE
    BY <2>1
  <2>3. t \in ts \cap graph.asserted /\ TableOf(t) = k
    BY <2>1, <2>2
  <2> HIDE DEF ts
  <2> QED BY <2>3 DEF Atomic!Covered
<1>2. \A k : k \in K <=> Dropped(k)
  BY <1>1
<1>3. WithTransient(graph, batches) =
        [asserted |-> graph.asserted,
         transient |-> {t \in graph.transient : ~Dropped(TableOf(t))} \cup (ts \ graph.asserted)]
  BY DEF WithTransient
<1>4. K \in SUBSET Atomic!Covered(graph, ts)
  OBVIOUS
<1> HIDE DEF K, Dropped, ts
<1>5. Atomic!Triples(WithTransient(graph, batches)) = (Atomic!Triples(graph) \ Atomic!Inferred(graph, K)) \cup ts
  BY <1>2, <1>3 DEF Atomic!Triples, Atomic!Inferred
<1>6. \E L \in SUBSET Atomic!Covered(graph, ts) :
        Atomic!Triples(WithTransient(graph, batches)) = (Atomic!Triples(graph) \ Atomic!Inferred(graph, L)) \cup ts
  BY <1>4, <1>5
<1> QED BY <1>6 DEF ts

\* The batches of a template hold what it makes.
LEMMA BatchesAre == ASSUME NEW rows, NEW quads, NEW g
  PROVE LET new     == TemplateToSolutions(rows, quads)
            batches == TemplateBatches(rows, quads, g)
        IN  g \in DOMAIN new => UNION {batches[i] : i \in DOMAIN batches} = new[g]
<1> DEFINE new     == TemplateToSolutions(rows, quads)
           batches == TemplateBatches(rows, quads, g)
           Of(h)   == UNION {QuadTriples(q, rows) : q \in {r \in ToSet(quads) : r.g.t = h}}
<1> SUFFICES ASSUME g \in DOMAIN new PROVE UNION {batches[i] : i \in DOMAIN batches} = new[g]
  OBVIOUS
<1>1. new[g] = Of(g)
  BY DEF TemplateToSolutions
<1>2. \A t : t \in Of(g) <=> \E i \in DOMAIN quads : quads[i].g.t = g /\ t \in QuadTriples(quads[i], rows)
  BY DEF ToSet
<1>3. DOMAIN batches = DOMAIN quads
      /\ \A i \in DOMAIN quads : batches[i] = IF quads[i].g.t = g THEN QuadTriples(quads[i], rows) ELSE {}
  BY DEF TemplateBatches
<1> HIDE DEF new, batches, Of
<1>4. \A t : t \in Of(g) <=> \E i \in DOMAIN batches : t \in batches[i]
  BY <1>2, <1>3
<1>5. Of(g) = UNION {batches[i] : i \in DOMAIN batches}
  BY <1>4
<1> QED BY <1>1, <1>5

\* The triples of a graph, by either name.
LEMMA SameTriples == ASSUME NEW d, NEW g
  PROVE /\ Contents(d, g) = Atomic!At(Atomic!Snapshot(d), g)
        /\ Atomic!Triples(GraphOf(d, g)) = Contents(d, g)
        /\ g \in DOMAIN d => Contents(d, g) = Atomic!Triples(d[g])
BY DEF Contents, Atomic!At, Atomic!Snapshot, Atomic!Triples, GraphOf

\* Snapshots are compared graph by graph.
LEMMA SnapshotIs == ASSUME NEW d, NEW s, IsMap(s), DOMAIN s = DOMAIN d,
                           \A g \in DOMAIN d : s[g] = Contents(d, g)
  PROVE Atomic!Snapshot(d) = s
<1>1. \A g \in DOMAIN d : Atomic!Triples(d[g]) = s[g]
  BY SameTriples
<1> QED BY <1>1 DEF Atomic!Snapshot, IsMap

\* A triple of every graph left to be written is in the snapshot.
LEMMA WrittenIs == ASSUME NEW d, NEW I
  PROVE Atomic!Snapshot(Written(d, I)) = Atomic!Plus(Atomic!Snapshot(d), I)
<1> DEFINE w == Written(d, I)
           s == Atomic!Plus(Atomic!Snapshot(d), I)
<1>1. DOMAIN w = DOMAIN d \cup DOMAIN I /\ DOMAIN s = DOMAIN w /\ IsMap(s)
  BY DEF Written, Atomic!Plus, Atomic!Snapshot, IsMap
<1>2. ASSUME NEW g \in DOMAIN w PROVE s[g] = Contents(w, g)
  <2>1. s[g] = Contents(d, g) \cup Atomic!At(I, g)
    BY <1>1, SameTriples DEF Atomic!Plus, Atomic!Snapshot
  <2>2. CASE g \in DOMAIN I
    <3>1. w[g] = WithTriples(GraphOf(d, g), I[g])
      BY <1>1, <2>2 DEF Written
    <3>2. Atomic!Triples(WithTriples(GraphOf(d, g), I[g])) = Atomic!Triples(GraphOf(d, g)) \cup I[g]
      BY InsertedInto
    <3>3. Atomic!Triples(w[g]) = Contents(d, g) \cup I[g]
      BY <3>1, <3>2, SameTriples
    <3> QED BY <1>1, <2>1, <2>2, <3>3, SameTriples DEF Atomic!At
  <2>3. CASE g \notin DOMAIN I
    <3>1. w[g] = d[g] /\ g \in DOMAIN d
      BY <1>1, <2>3 DEF Written
    <3> QED BY <2>1, <2>3, <3>1, SameTriples DEF Atomic!At
  <2> QED BY <2>2, <2>3
<1> HIDE DEF w, s
<1> QED BY <1>1, <1>2, SnapshotIs DEF w, s

\* A graph that is written is not left to be written.
LEMMA WrittenStep == ASSUME NEW d, NEW I, NEW g \in DOMAIN I, IsMap(d)
  PROVE Written(Put(d, g, WithTriples(GraphOf(d, g), I[g])), [h \in DOMAIN I \ {g} |-> I[h]])
          = Written(d, I)
<1> DEFINE W == WithTriples(GraphOf(d, g), I[g])
           e == Put(d, g, W)
           J == [h \in DOMAIN I \ {g} |-> I[h]]
<1>1. DOMAIN e = DOMAIN d \cup {g} /\ e[g] = W /\ \A h \in DOMAIN d \ {g} : e[h] = d[h]
  BY DEF Put
<1>2. DOMAIN J = DOMAIN I \ {g} /\ \A h \in DOMAIN J : J[h] = I[h]
  OBVIOUS
<1>3. \A h : h # g => GraphOf(e, h) = GraphOf(d, h)
  BY <1>1 DEF GraphOf
<1> HIDE DEF e, J
<1>4. DOMAIN e \cup DOMAIN J = DOMAIN d \cup DOMAIN I
  BY <1>1, <1>2
<1>5. ASSUME NEW h \in DOMAIN d \cup DOMAIN I
      PROVE (IF h \in DOMAIN J THEN WithTriples(GraphOf(e, h), J[h]) ELSE e[h])
            = (IF h \in DOMAIN I THEN WithTriples(GraphOf(d, h), I[h]) ELSE d[h])
  <2>1. CASE h = g
    BY <1>1, <1>2, <2>1
  <2>2. CASE h # g
    BY <1>1, <1>2, <1>3, <2>2
  <2> QED BY <2>1, <2>2
<1>6. Written(e, J) = Written(d, I)
  BY <1>4, <1>5 DEF Written
<1> QED BY <1>6 DEF e, J

\* What a graph that is written has lost and got.
LEMMA PutSeen == ASSUME NEW d, NEW g, NEW graph, NEW D, NEW ts,
                        Atomic!Triples(graph) = (Contents(d, g) \ D) \cup ts
  PROVE Atomic!Snapshot(Put(d, g, graph))
          = Atomic!Plus(Atomic!Without(Atomic!Snapshot(d), Atomic!Only(g, D)), Atomic!Only(g, ts))
<1> DEFINE e == Put(d, g, graph)
           w == Atomic!Without(Atomic!Snapshot(d), Atomic!Only(g, D))
           s == Atomic!Plus(w, Atomic!Only(g, ts))
<1>1. DOMAIN e = DOMAIN d \cup {g} /\ e[g] = graph /\ \A h \in DOMAIN d \ {g} : e[h] = d[h]
  BY DEF Put
<1>2. \A S : DOMAIN Atomic!Only(g, S) = {g} /\ Atomic!Only(g, S)[g] = S
  BY DEF Atomic!Only
<1>3. DOMAIN w = DOMAIN d /\ \A h \in DOMAIN d : w[h] = Contents(d, h) \ Atomic!At(Atomic!Only(g, D), h)
  BY SameTriples DEF Atomic!Without, Atomic!Snapshot
<1> HIDE DEF w
<1>4. DOMAIN s = DOMAIN e /\ IsMap(s) /\ \A h \in DOMAIN s : s[h] = Atomic!At(w, h) \cup Atomic!At(Atomic!Only(g, ts), h)
  BY <1>1, <1>2, <1>3 DEF Atomic!Plus, IsMap
<1> HIDE DEF e, s
<1>5. ASSUME NEW h \in DOMAIN e PROVE s[h] = Contents(e, h)
  <2>1. Contents(e, h) = Atomic!Triples(e[h])
    BY SameTriples
  <2>2. CASE h = g
    <3>1. Atomic!At(w, g) = Contents(d, g) \ D
      BY <1>2, <1>3 DEF Atomic!At, Contents
    <3> QED BY <1>1, <1>2, <1>4, <2>1, <2>2, <3>1 DEF Atomic!At
  <2>3. CASE h # g
    <3>1. Contents(e, h) = Contents(d, h) /\ h \in DOMAIN d
      BY <1>1, <2>1, <2>3, SameTriples
    <3>2. Atomic!At(w, h) = Contents(d, h)
      BY <1>2, <1>3, <2>3, <3>1 DEF Atomic!At
    <3> QED BY <1>2, <1>4, <2>3, <3>1, <3>2 DEF Atomic!At
  <2> QED BY <2>2, <2>3
<1>6. Atomic!Snapshot(e) = s
  BY <1>4, <1>5, SnapshotIs
<1> QED BY <1>6 DEF e, s, w

---------------------------------------------------------------------------
(* The invariant.                                                          *)

\* Nothing has happened at the start.
LEMMA Initially == Init => IInv
BY StartIsMap DEF Init, IInv, IsMap

\* A graph that is in the dataset has its triples deleted, and a failure
\* leaves the graphs as they are.
LEMMA DeletionKeeps == ASSUME IInv, NEW g \in DOMAIN dels, DeleteGraph(g)
  PROVE IInv'
<1>1. Deleting /\ IsMap(ds) /\ phase = "deleting"
  BY DEF IInv, DeleteGraph
<1>2. UNCHANGED before
  BY DEF DeleteGraph
<1>3. CASE g \in DOMAIN ds
  <2>1. /\ ds' = [ds EXCEPT ![g] = AfterDeletion(ds[g], dels[g])]
        /\ dels' = [h \in DOMAIN dels \ {g} |-> dels[h]]
        /\ UNCHANGED <<todo, tab, phase>>
    BY <1>3 DEF DeleteGraph
  <2>2. Deletes' = Deletes
    BY <2>1 DEF Deletes
  <2>3. DOMAIN ds' = DOMAIN ds /\ IsMap(ds')
    BY <1>1, <2>1 DEF IsMap
  <2>4. DOMAIN dels' = DOMAIN dels \ {g} /\ \A h \in DOMAIN dels' : dels'[h] = dels[h]
    BY <2>1
  <2>5. \A h \in DOMAIN ds \ {g} : Contents(ds', h) = Contents(ds, h)
    BY <2>1, <2>3 DEF Contents
  <2>6. Contents(ds', g) = Contents(ds, g) \ dels[g]
    <3>1. ds'[g] = AfterDeletion(ds[g], dels[g])
      BY <1>1, <1>3, <2>1
    <3> QED BY <1>3, <2>3, <3>1, DeletedFrom, SameTriples
  <2>7. /\ DOMAIN dels \subseteq DOMAIN Deletes /\ dels[g] = Deletes[g]
        /\ \A h \in DOMAIN ds :
             Contents(ds, h) = IF h \in DOMAIN Deletes \ DOMAIN dels THEN Contents(before, h) \ Deletes[h]
                               ELSE Contents(before, h)
    BY <1>1 DEF Deleting
  <2>8. ASSUME NEW h \in DOMAIN ds
        PROVE Contents(ds', h) = IF h \in DOMAIN Deletes \ DOMAIN dels' THEN Contents(before, h) \ Deletes[h]
                                 ELSE Contents(before, h)
    <3>1. CASE h = g
      <4>1. Contents(ds, g) = Contents(before, g)
        BY <1>3, <2>7
      <4> QED BY <2>4, <2>6, <2>7, <3>1, <4>1
    <3>2. CASE h # g
      BY <2>4, <2>5, <2>7, <3>2
    <3> QED BY <3>1, <3>2
  <2>9. Deleting'
    <3>1. /\ todo' # <<>> /\ Head(todo').op = "deleteinsert" /\ ~Unimplemented(Head(todo'))
          /\ tab' = Evaluate(before', DefaultGraph, Wanted(Head(todo'))) /\ tab'.ok
          /\ DOMAIN ds' = DOMAIN before'
      BY <1>1, <1>2, <2>1, <2>3 DEF Deleting
    <3>2. DOMAIN dels' \subseteq DOMAIN Deletes' /\ \A h \in DOMAIN dels' : dels'[h] = Deletes'[h]
      BY <1>1, <2>2, <2>4 DEF Deleting
    <3> QED BY <1>2, <2>2, <2>3, <2>8, <3>1, <3>2 DEF Deleting
  <2> QED BY <1>1, <2>1, <2>3, <2>9 DEF IInv
<1>4. CASE g \notin DOMAIN ds
  <2>1. Fail /\ UNCHANGED <<ds, before>>
    BY <1>4 DEF DeleteGraph
  <2>2. Raising'
    BY <1>1, <2>1 DEF Raising, Fail, Deleting, Contents
  <2> QED BY <1>1, <2>1, <2>2 DEF IInv, Fail
<1> QED BY <1>3, <1>4

\* Every other step.
LEMMA InvariantKept == ASSUME IInv, [Next]_vars PROVE IInv'
<1>1. CASE \E request \in Requests : Update(request)
  BY <1>1 DEF Update, IInv
<1>2. CASE RefuseOperation
  BY <1>2 DEF RefuseOperation, Fail, IInv, Raising, Contents
<1>3. CASE IgnoreOperation
  BY <1>3 DEF IgnoreOperation, IInv
<1>4. CASE Solve
  <2>1. /\ todo # <<>> /\ Head(todo).op = "deleteinsert" /\ ~Unimplemented(Head(todo))
        /\ BeginDeletes(Evaluate(ds, DefaultGraph, Wanted(Head(todo))), Head(todo).delete)
        /\ before' = ds /\ ds' = ds
    BY <1>4 DEF Solve
  <2> DEFINE found == Evaluate(ds, DefaultGraph, Wanted(Head(todo)))
  <2> HIDE DEF found
  <2>2. CASE ~found.ok \/ BadGraph(Head(todo).delete)
    BY <2>1, <2>2 DEF found, BeginDeletes, Fail, IInv, Raising, Contents
  <2>3. CASE ~(~found.ok \/ BadGraph(Head(todo).delete))
    <3>1. /\ tab' = found /\ dels' = TemplateToSolutions(found.rows, Head(todo).delete)
          /\ phase' = "deleting" /\ todo' = todo
      BY <2>1, <2>3 DEF found, BeginDeletes
    <3>2. Deletes' = dels'
      BY <3>1 DEF Deletes
    <3>3. Deleting'
      BY <2>1, <2>3, <3>1, <3>2 DEF Deleting, found
    <3> QED BY <2>1, <3>1, <3>3 DEF IInv
  <2> QED BY <2>2, <2>3
<1>5. CASE \E g \in DOMAIN dels : DeleteGraph(g)
  BY <1>5, DeletionKeeps
<1>6. CASE BeginInserts
  <2>1. Deleting /\ IsMap(ds) /\ UNCHANGED <<ds, before>>
    BY <1>6 DEF BeginInserts, IInv
  <2>2. CASE BadGraph(Head(todo).insert)
    <3>1. Fail
      BY <1>6, <2>2 DEF BeginInserts
    <3>2. Raising'
      BY <2>1, <3>1 DEF Raising, Fail, Deleting, Contents
    <3> QED BY <2>1, <3>1, <3>2 DEF IInv, Fail
  <2>3. CASE ~BadGraph(Head(todo).insert)
    <3>1. phase' = "inserting" /\ todo' = todo
      BY <1>6, <2>3 DEF BeginInserts
    <3> QED BY <2>1, <3>1 DEF IInv, Deleting
  <2> QED BY <2>2, <2>3
<1>7. CASE \E g \in DOMAIN ins : InsertGraph(g)
  BY <1>7 DEF InsertGraph, IInv, IsMap, Put
<1>8. CASE EndOperation
  BY <1>8 DEF EndOperation, IInv
<1>9. CASE Raise
  BY <1>9 DEF Raise, IInv
<1>10. CASE \E c \in Constructs, source, target \in DOMAIN Start, transient \in BOOLEAN :
               InsertConstruct(c, source, target, transient)
  <2>1. phase' = phase /\ phase = "idle" /\ IsMap(ds)
    BY <1>10 DEF InsertConstruct, IInv
  <2>2. ds' = ds \/ \E target, graph : ds' = Put(ds, target, graph)
    BY <1>10 DEF InsertConstruct
  <2>3. IsMap(ds')
    BY <2>1, <2>2 DEF IsMap, Put
  <2> QED BY <2>1, <2>3 DEF IInv
<1>11. CASE UNCHANGED vars
  BY <1>11 DEF vars, IInv, Deleting, Deletes, Raising
<1> QED BY <1>1, <1>2, <1>3, <1>4, <1>5, <1>6, <1>7, <1>8, <1>9, <1>10, <1>11 DEF Next

---------------------------------------------------------------------------
(* Every step is one of an atomic update, or is not seen.                  *)

\* What is seen while no operation is on its way.
LEMMA SeenIdle == ASSUME phase \in {"idle", "failed"} PROVE Data = ds /\ Left = todo
BY DEF Data, Left

\* What is seen while an operation deletes.
LEMMA SeenDeleting == ASSUME phase = "deleting" PROVE Data = before /\ Left = todo
BY DEF Data, Left

\* What is seen while an operation inserts.
LEMMA SeenInserting == ASSUME phase = "inserting" PROVE Data = Written(ds, ins) /\ Left = Tail(todo)
BY DEF Data, Left

\* An operation that is refused, or whose pattern fails, fails and deletes nothing.
LEMMA NothingDone == ASSUME phase = "idle", todo # <<>>, Fail, UNCHANGED <<ds, minted>>
  PROVE Atomic!FailedOperation
<1>1. phase' = "failed" /\ todo' = <<>>
  BY DEF Fail
<1>2. Data = ds /\ Left = todo /\ ~Raised /\ Data' = ds /\ Left' = <<>> /\ Raised'
  BY <1>1 DEF Data, Left, Raised
<1> QED BY <1>2 DEF Atomic!FailedOperation, Raised

\* A failure among the deletions has deleted in the graphs that are done.
LEMMA PartlyDone == ASSUME IInv, phase = "deleting", Fail, UNCHANGED <<ds, before, minted>>
  PROVE Atomic!FailedOperation
<1> DEFINE op == Head(todo)
           D  == TemplateToSolutions(tab.rows, op.delete)
           G  == (DOMAIN D \ DOMAIN dels) \cap DOMAIN ds
           P  == Atomic!Part(D, G)
           S  == Atomic!Without(Atomic!Snapshot(before), P)
<1>1. Deleting
  BY DEF IInv
<1>2. phase' = "failed" /\ todo' = <<>>
  BY DEF Fail
<1>3. Data = before /\ Left = todo /\ ~Raised /\ Data' = ds /\ Left' = <<>> /\ Raised'
  BY <1>2 DEF Data, Left, Raised
<1>4. DOMAIN P = G /\ \A g \in G : P[g] = D[g]
  BY DEF Atomic!Part
<1>5. DOMAIN S = DOMAIN ds /\ IsMap(S)
  BY <1>1 DEF Deleting, Atomic!Without, Atomic!Snapshot, IsMap
<1>6. ASSUME NEW g \in DOMAIN ds PROVE S[g] = Contents(ds, g)
  <2>1. S[g] = Contents(before, g) \ Atomic!At(P, g)
    BY <1>1, SameTriples DEF Deleting, Atomic!Without, Atomic!Snapshot
  <2>2. Contents(ds, g) = IF g \in DOMAIN D \ DOMAIN dels THEN Contents(before, g) \ D[g] ELSE Contents(before, g)
    BY <1>1 DEF Deleting, Deletes
  <2> HIDE DEF P, S, D
  <2> QED BY <1>4, <2>1, <2>2 DEF Atomic!At
<1>7. Atomic!Snapshot(ds) = S
  <2> HIDE DEF S
  <2> QED BY <1>5, <1>6, SnapshotIs
<1>8. G \in SUBSET DOMAIN before
  BY <1>1 DEF Deleting
<1>9. Atomic!Found(op) = tab
  BY <1>1, <1>3 DEF Deleting, Atomic!Found
<1>10. op.op = "deleteinsert" /\ ~Unimplemented(op) /\ tab.ok /\ todo # <<>>
  BY <1>1 DEF Deleting
<1> HIDE DEF op, G, P
<1>11. \E H \in SUBSET DOMAIN Data :
         Atomic!Snapshot(Data') = Atomic!Without(Atomic!Snapshot(Data), Atomic!Part(D, H))
  BY <1>3, <1>7, <1>8 DEF P
<1> QED BY <1>3, <1>9, <1>10, <1>11 DEF Atomic!FailedOperation, op

\* When the deletions are done and the insertions known, an operation has happened.
LEMMA OperationDone == ASSUME IInv, BeginInserts, ~BadGraph(Head(todo).insert)
  PROVE Atomic!Operation
<1> DEFINE op == Head(todo)
           D  == TemplateToSolutions(tab.rows, op.delete)
           I  == TemplateToSolutions(MintBlankNodes(tab.rows, op.insert, minted), op.insert)
           S  == Atomic!Without(Atomic!Snapshot(before), D)
<1>1. Deleting /\ phase = "deleting" /\ DOMAIN dels = {}
  BY DEF IInv, BeginInserts, NoGraphs
<1>2. /\ phase' = "inserting" /\ ins' = I /\ UNCHANGED <<ds, todo, before>>
      /\ minted' = minted + NewBlanks(tab.rows, op.insert)
  BY DEF BeginInserts
<1>3. /\ Data = before /\ Left = todo /\ ~Raised
      /\ Data' = Written(ds, I) /\ Left' = Tail(todo) /\ ~Raised'
  BY <1>1, <1>2 DEF Data, Left, Raised
<1>4. DOMAIN S = DOMAIN ds /\ IsMap(S)
  BY <1>1 DEF Deleting, Atomic!Without, Atomic!Snapshot, IsMap
<1>5. ASSUME NEW g \in DOMAIN ds PROVE S[g] = Contents(ds, g)
  <2>1. S[g] = Contents(before, g) \ Atomic!At(D, g)
    BY <1>1, SameTriples DEF Deleting, Atomic!Without, Atomic!Snapshot
  <2>2. Contents(ds, g) = IF g \in DOMAIN D THEN Contents(before, g) \ D[g] ELSE Contents(before, g)
    BY <1>1 DEF Deleting, Deletes
  <2> HIDE DEF S, D
  <2> QED BY <2>1, <2>2 DEF Atomic!At
<1>6. Atomic!Snapshot(ds) = S
  <2> HIDE DEF S
  <2> QED BY <1>4, <1>5, SnapshotIs
<1>7. Atomic!Snapshot(Data') = Atomic!Plus(Atomic!Without(Atomic!Snapshot(Data), D), I)
  BY <1>3, <1>6, WrittenIs
<1>8. Atomic!Found(op) = tab
  BY <1>1, <1>3 DEF Deleting, Atomic!Found
<1>9. op.op = "deleteinsert" /\ ~Unimplemented(op) /\ tab.ok /\ todo # <<>>
  BY <1>1 DEF Deleting
<1>10. Raised' = Raised
  BY <1>1, <1>2 DEF Raised
<1> QED BY <1>2, <1>3, <1>7, <1>8, <1>9, <1>10 DEF Atomic!Operation

\* Writing the insertions is not seen.
LEMMA InsertionUnseen == ASSUME IInv, NEW g \in DOMAIN ins, InsertGraph(g)
  PROVE UNCHANGED Atomic!avars
<1>1. /\ phase = "inserting" /\ UNCHANGED <<todo, phase, minted>> /\ IsMap(ds)
      /\ ds' = Put(ds, g, WithTriples(GraphOf(ds, g), ins[g]))
      /\ ins' = [h \in DOMAIN ins \ {g} |-> ins[h]]
  BY DEF InsertGraph, IInv
<1>2. Written(ds', ins') = Written(ds, ins)
  BY <1>1, WrittenStep
<1>3. Data' = Data /\ Left' = Left /\ Raised' = Raised
  BY <1>1, <1>2 DEF Data, Left, Raised
<1> QED BY <1>1, <1>3 DEF Atomic!avars

\* Nor is the end of an operation.
LEMMA EndUnseen == ASSUME IInv, EndOperation
  PROVE UNCHANGED Atomic!avars
<1>1. /\ phase = "inserting" /\ phase' = "idle" /\ todo' = Tail(todo) /\ UNCHANGED <<ds, minted>>
      /\ DOMAIN ins = {} /\ IsMap(ds)
  BY DEF EndOperation, IInv, NoGraphs
<1>2. Written(ds, ins) = ds
  BY <1>1 DEF Written, IsMap
<1>3. Data' = Data /\ Left' = Left /\ Raised' = Raised
  BY <1>1, <1>2 DEF Data, Left, Raised
<1> QED BY <1>1, <1>3 DEF Atomic!avars

\* A graph is the same to the atomic updates.
LEMMA SameGraph == ASSUME NEW d, NEW g PROVE Atomic!Graph(d, g) = GraphOf(d, g)
BY DEF Atomic!Graph, GraphOf

\* What is inserted of a CONSTRUCT query, asserted or inferred.
Constructed(c, rows, graph, transient) ==
  IF transient THEN WithTransient(graph, TemplateBatches(rows, c.template, DefaultGraph))
  ELSE WithTriples(graph, TemplateToSolutions(rows, c.template)[DefaultGraph])

\* A graph gets all of it, and can lose inferred triples of some tables.
LEMMA ConstructedIs ==
  ASSUME NEW c, NEW rows, NEW graph, NEW transient \in BOOLEAN,
         DefaultGraph \in DOMAIN TemplateToSolutions(rows, c.template)
  PROVE LET ts == TemplateToSolutions(rows, c.template)[DefaultGraph]
        IN  \E K \in SUBSET (IF transient THEN Atomic!Covered(graph, ts) ELSE {}) :
              Atomic!Triples(Constructed(c, rows, graph, transient))
                = (Atomic!Triples(graph) \ Atomic!Inferred(graph, K)) \cup ts
<1> DEFINE ts      == TemplateToSolutions(rows, c.template)[DefaultGraph]
           batches == TemplateBatches(rows, c.template, DefaultGraph)
<1>1. CASE transient
  <2>1. UNION {batches[i] : i \in DOMAIN batches} = ts
    BY BatchesAre
  <2>2. Constructed(c, rows, graph, transient) = WithTransient(graph, batches)
    BY <1>1 DEF Constructed
  <2> HIDE DEF batches, ts
  <2>3. \E K \in SUBSET Atomic!Covered(graph, ts) :
          Atomic!Triples(WithTransient(graph, batches)) = (Atomic!Triples(graph) \ Atomic!Inferred(graph, K)) \cup ts
    BY <2>1, InferredInto
  <2>4. \E K \in SUBSET (IF transient THEN Atomic!Covered(graph, ts) ELSE {}) :
          Atomic!Triples(Constructed(c, rows, graph, transient)) = (Atomic!Triples(graph) \ Atomic!Inferred(graph, K)) \cup ts
    BY <1>1, <2>2, <2>3
  <2> QED BY <2>4 DEF ts
<1>2. CASE ~transient
  <2>1. Constructed(c, rows, graph, transient) = WithTriples(graph, ts)
    BY <1>2 DEF Constructed
  <2>2. Atomic!Inferred(graph, {}) = {}
    BY DEF Atomic!Inferred
  <2> HIDE DEF ts
  <2>3. Atomic!Triples(Constructed(c, rows, graph, transient)) = (Atomic!Triples(graph) \ Atomic!Inferred(graph, {})) \cup ts
    BY <2>1, <2>2, InsertedInto
  <2>4. {} \in SUBSET (IF transient THEN Atomic!Covered(graph, ts) ELSE {})
    OBVIOUS
  <2>5. \E K \in SUBSET (IF transient THEN Atomic!Covered(graph, ts) ELSE {}) :
          Atomic!Triples(Constructed(c, rows, graph, transient)) = (Atomic!Triples(graph) \ Atomic!Inferred(graph, K)) \cup ts
    BY <2>3, <2>4
  <2> QED BY <2>5 DEF ts
<1> QED BY <1>1, <1>2

\* What a CONSTRUCT query describes is inserted at once, if anything.
LEMMA ConstructInserted ==
  ASSUME NEW c, NEW source, NEW target, NEW transient \in BOOLEAN, InsertConstruct(c, source, target, transient)
  PROVE Atomic!Insertion(c, source, target, transient) \/ UNCHANGED Atomic!avars
<1> DEFINE found == Evaluate(ds, source, c.p)
           rows  == MintBlankNodes(found.rows, c.template, minted)
           new   == TemplateToSolutions(rows, c.template)
           graph == GraphOf(ds, target)
<1>1. /\ phase = "idle" /\ todo = <<>> /\ UNCHANGED <<todo, phase>>
  BY DEF InsertConstruct
<1>2. Data = ds /\ Data' = ds' /\ Left = todo /\ Left' = todo /\ ~Raised /\ Raised' = Raised
  BY <1>1 DEF Data, Left, Raised
<1>3. CASE UNCHANGED <<ds, minted>>
  BY <1>2, <1>3 DEF Atomic!avars
<1>4. CASE /\ found.ok /\ DefaultGraph \in DOMAIN new
           /\ ds' = Put(ds, target, Constructed(c, rows, graph, transient))
           /\ minted' = minted + NewBlanks(found.rows, c.template)
  <2>1. PICK K \in SUBSET (IF transient THEN Atomic!Covered(graph, new[DefaultGraph]) ELSE {}) :
               Atomic!Triples(Constructed(c, rows, graph, transient))
                 = (Atomic!Triples(graph) \ Atomic!Inferred(graph, K)) \cup new[DefaultGraph]
    <3> HIDE DEF graph, rows
    <3> QED BY <1>4, ConstructedIs
  <2>2. Atomic!Triples(graph) = Contents(ds, target)
    BY SameTriples
  <2> HIDE DEF graph, rows, new, found
  <2>3. Atomic!Snapshot(ds') = Atomic!Plus(Atomic!Without(Atomic!Snapshot(ds), Atomic!Only(target, Atomic!Inferred(graph, K))),
                                           Atomic!Only(target, new[DefaultGraph]))
    BY <1>4, <2>1, <2>2, PutSeen
  <2>4. graph = Atomic!Graph(Data, target)
    BY <1>2, SameGraph DEF graph
  <2>5. \E L \in SUBSET (IF transient THEN Atomic!Covered(Atomic!Graph(Data, target), new[DefaultGraph]) ELSE {}) :
          Atomic!Snapshot(Data') = Atomic!Plus(Atomic!Without(Atomic!Snapshot(Data), Atomic!Only(target, Atomic!Inferred(Atomic!Graph(Data, target), L))),
                                               Atomic!Only(target, new[DefaultGraph]))
    BY <1>2, <2>1, <2>3, <2>4
  <2> QED BY <1>1, <1>2, <1>4, <2>5 DEF Atomic!Insertion, new, rows, found
<1> QED BY <1>3, <1>4 DEF InsertConstruct, Constructed

\* The step simulation.
LEMMA StepSeen == ASSUME IInv, [Next]_vars PROVE [Atomic!ANext]_Atomic!avars
<1>1. CASE \E request \in Requests : Update(request)
  <2>1. PICK request \in Requests : Update(request)
    BY <1>1
  <2>2. phase = "idle" /\ phase' = "idle" /\ todo = <<>> /\ todo' = request /\ UNCHANGED <<ds, minted>>
    BY <2>1 DEF Update
  <2>3. Atomic!Request(request)
    BY <2>2 DEF Atomic!Request, Data, Left, Raised
  <2> QED BY <2>3 DEF Atomic!ANext
<1>2. CASE RefuseOperation
  <2>1. Atomic!FailedOperation
    BY <1>2, NothingDone DEF RefuseOperation
  <2> QED BY <2>1 DEF Atomic!ANext
<1>3. CASE IgnoreOperation
  <2>1. Atomic!Ignore
    BY <1>3 DEF IgnoreOperation, Atomic!Ignore, Data, Left, Raised
  <2> QED BY <2>1 DEF Atomic!ANext
<1>4. CASE Solve
  <2>1. /\ phase = "idle" /\ todo # <<>> /\ UNCHANGED <<ds, minted>> /\ before' = ds
        /\ BeginDeletes(Evaluate(ds, DefaultGraph, Wanted(Head(todo))), Head(todo).delete)
    BY <1>4 DEF Solve
  <2>2. CASE Fail
    BY <2>1, <2>2, NothingDone DEF Atomic!ANext
  <2>3. CASE phase' = "deleting" /\ todo' = todo
    BY <2>1, <2>3 DEF Atomic!avars, Data, Left, Raised
  <2> QED BY <2>1, <2>2, <2>3 DEF BeginDeletes
<1>5. CASE \E g \in DOMAIN dels : DeleteGraph(g)
  <2>1. PICK g \in DOMAIN dels : DeleteGraph(g)
    BY <1>5
  <2>2. phase = "deleting" /\ UNCHANGED <<minted, before>>
    BY <2>1 DEF DeleteGraph
  <2>3. CASE g \in DOMAIN ds
    <3>1. phase' = phase /\ todo' = todo
      BY <2>1, <2>3 DEF DeleteGraph
    <3> QED BY <2>2, <3>1 DEF Atomic!avars, Data, Left, Raised
  <2>4. CASE g \notin DOMAIN ds
    <3>1. Fail /\ UNCHANGED ds
      BY <2>1, <2>4 DEF DeleteGraph
    <3> QED BY <2>2, <3>1, PartlyDone DEF Atomic!ANext
  <2> QED BY <2>3, <2>4
<1>6. CASE BeginInserts
  <2>1. CASE BadGraph(Head(todo).insert)
    <3>1. phase = "deleting" /\ Fail /\ UNCHANGED <<ds, before, minted>>
      BY <1>6, <2>1 DEF BeginInserts
    <3> QED BY <3>1, PartlyDone DEF Atomic!ANext
  <2>2. CASE ~BadGraph(Head(todo).insert)
    BY <1>6, <2>2, OperationDone DEF Atomic!ANext
  <2> QED BY <2>1, <2>2
<1>7. CASE \E g \in DOMAIN ins : InsertGraph(g)
  BY <1>7, InsertionUnseen
<1>8. CASE EndOperation
  BY <1>8, EndUnseen
<1>9. CASE Raise
  <2>1. Atomic!Raise
    BY <1>9 DEF Raise, Atomic!Raise, Data, Left, Raised
  <2> QED BY <2>1 DEF Atomic!ANext
<1>10. CASE \E c \in Constructs, source, target \in DOMAIN Start, transient \in BOOLEAN :
               InsertConstruct(c, source, target, transient)
  BY <1>10, ConstructInserted DEF Atomic!ANext
<1>11. CASE UNCHANGED vars
  BY <1>11 DEF vars, Atomic!avars, Data, Left, Raised
<1> QED BY <1>1, <1>2, <1>3, <1>4, <1>5, <1>6, <1>7, <1>8, <1>9, <1>10, <1>11 DEF Next

---------------------------------------------------------------------------
(* The theorems.                                                           *)

\* In every reachable state the graphs that have been deleted from have lost
\* exactly what the template described, and the others nothing.
THEOREM DeletionsExact == Spec => []IInv
<1>1. IInv /\ [Next]_vars => IInv'
  BY InvariantKept
<1> QED BY <1>1, Initially, PTL DEF Spec

\* An update that fails has inserted nothing and has only deleted.
THEOREM FailureCorrect == Spec => []FailureOnlyDeletes
<1>1. IInv => FailureOnlyDeletes
  BY DEF IInv, Raising, FailureOnlyDeletes
<1> QED BY <1>1, DeletionsExact, PTL

\* For every set of requests, start and evaluator of patterns, the loop of
\* update_parsed over graphs in the order of a hash map deletes and inserts
\* as one step of each operation would, and what a CONSTRUCT query describes is
\* all inserted, at the price of nothing but inferred triples of tables that a
\* triple it describes is asserted in (add_global_cat_triples).
THEOREM UpdatesAtomic == Spec => ImplementsAtomicUpdates
<1>1. Init => Atomic!AInit
  BY DEF Init, Atomic!AInit, Data, Left, Raised
<1>2. IInv /\ [Next]_vars => [Atomic!ANext]_Atomic!avars
  BY StepSeen
<1>3. IInv /\ [Next]_vars => IInv'
  BY InvariantKept
<1> QED BY <1>1, <1>2, <1>3, Initially, PTL DEF Spec, ImplementsAtomicUpdates, Atomic!ASpec

---------------------------------------------------------------------------
(* What an operation does, if the answer to its pattern is right and its   *)
(* templates are what the grammar allows.                                  *)

\* A term of the data or of a request: not a blank node that is minted after
\* the first m.
KnownTerm(x, m)    == x.type # "new" /\ \A k \in Nat : k > m => x # MintedBlank(k)
KnownTriples(S, m) == \A t \in S : KnownTerm(t[1], m) /\ KnownTerm(t[2], m) /\ KnownTerm(t[3], m)
KnownData(d, m)    == \A g : KnownTriples(Contents(d, g), m)

\* A predicate is no blank node, and the column of a label, which begins with
\* "_:", is not that of a variable.
NodeFine(nd, kinds) == nd.k \in kinds /\ (nd.k = "term" => KnownTerm(nd.t, 0))
TemplateFine(quads) ==
  /\ IsFiniteSet(TemplateLabels(quads))
  /\ \A q \in ToSet(quads) :
       /\ NodeFine(q.t.s, {"term", "var", "bnode"})
       /\ NodeFine(q.t.p, {"term", "var"})
       /\ NodeFine(q.t.o, {"term", "var", "bnode"})

Operations   == UNION {ToSet(request) : request \in Requests}
Implemented  == {op \in Operations : op.op = "deleteinsert" /\ ~Unimplemented(op)}
Variables(op) == TemplateVars(op.delete) \cup TemplateVars(op.insert)

\* What is deleted is described without blank nodes.
RequestsFine ==
  /\ KnownData(Start, 0)
  /\ Requests \subseteq Seq(Operations)
  /\ \A op \in Implemented :
       /\ TemplateFine(op.delete) /\ TemplateLabels(op.delete) = {}
       /\ TemplateFine(op.insert) /\ TemplateLabels(op.insert) \cap Variables(op) = {}
  /\ \A c \in Constructs :
       TemplateFine(c.template) /\ TemplateLabels(c.template) \cap TemplateVars(c.template) = {}

\* A table has a row for every solution, each with every variable asked for.
Tabled(rows, asked) ==
  /\ Len(rows) \in Nat /\ DOMAIN rows = 1..Len(rows)
  /\ \A i \in DOMAIN rows : asked \subseteq DOMAIN rows[i]
SolvedBy(rows, asked, solutions, at) ==
  /\ at \in [DOMAIN solutions -> DOMAIN rows]
  /\ \A i, j \in DOMAIN solutions : at[i] = at[j] => i = j
  /\ \A r \in DOMAIN rows : \E i \in DOMAIN solutions : at[i] = r
  /\ \A i \in DOMAIN solutions : \A v \in asked :
       rows[at[i]][v] = IF v \in DOMAIN solutions[i] THEN solutions[i][v] ELSE Null
Solved(rows, asked, solutions) == \E at : SolvedBy(rows, asked, solutions, at)
\* Its terms are those of the data.
KnownRows(rows, asked, m) == \A i \in DOMAIN rows : \A v \in asked : KnownTerm(rows[i][v], m)

\* The evaluator is right about the dataset that an operation, or an
\* insertion, finds.
AnswerRight(found, asked, d, m) ==
  found.ok => Tabled(found.rows, asked) /\ (KnownData(d, m) => KnownRows(found.rows, asked, m))
EvaluatorRight ==
  phase = "idle" =>
    /\ \A op \in Implemented :
         LET found == Evaluate(ds, DefaultGraph, Wanted(op))
         IN  /\ AnswerRight(found, Variables(op), ds, minted)
             /\ found.ok /\ Once(ds) => Solved(found.rows, Variables(op), Solutions(op.p, ds))
    /\ \A c \in Constructs, source \in DOMAIN Start :
         AnswerRight(Evaluate(ds, source, c.p), TemplateVars(c.template), ds, minted)

\* Terms stay known as blank nodes are minted.
LEMMA StillKnown == ASSUME NEW x, NEW m \in Nat, NEW n \in Nat, m <= n, KnownTerm(x, m)
  PROVE KnownTerm(x, n)
BY DEF KnownTerm

\* And so do triples.
LEMMA TriplesStillKnown == ASSUME NEW S, NEW m \in Nat, NEW n \in Nat, m <= n, KnownTriples(S, m)
  PROVE KnownTriples(S, n)
BY StillKnown DEF KnownTriples

\* And datasets.
LEMMA DataStillKnown == ASSUME NEW d, NEW m \in Nat, NEW n \in Nat, m <= n, KnownData(d, m)
  PROVE KnownData(d, n)
BY TriplesStillKnown DEF KnownData

\* Blank nodes with different numbers differ, and are none of a template.
LEMMA MintedDiffer == ASSUME NEW a \in Int, NEW b \in Int
  PROVE /\ MintedBlank(a) = MintedBlank(b) => a = b
        /\ MintedBlank(a).type = "blank" /\ MintedBlank(a) # Null
BY DEF MintedBlank, Blank, Term, Null

\* One minted by now is known.
LEMMA MintedKnown == ASSUME NEW k \in Nat, NEW m \in Nat, k <= m
  PROVE KnownTerm(MintedBlank(k), m)
<1>1. MintedBlank(k).type # "new"
  BY MintedDiffer
<1>2. ASSUME NEW j \in Nat, j > m PROVE MintedBlank(k) # MintedBlank(j)
  BY <1>2, MintedDiffer
<1> QED BY <1>1, <1>2 DEF KnownTerm

\* The labels of a template are numbered.
LEMMA NumberingIs == ASSUME NEW S, IsFiniteSet(S)
  PROVE /\ Cardinality(S) \in Nat
        /\ Numbering(S) \in [S -> 1..Cardinality(S)]
        /\ \A l, m \in S : Numbering(S)[l] = Numbering(S)[m] => l = m
<1>1. Cardinality(S) \in Nat /\ ExistsBijection(1..Cardinality(S), S)
  BY FS_CardinalityType
<1>2. ExistsBijection(S, 1..Cardinality(S))
  BY <1>1, Fun_ExistsBijSymmetric
<1>3. PICK f : f \in Bijection(S, 1..Cardinality(S))
  BY <1>2 DEF ExistsBijection
<1>4. f \in [S -> 1..Cardinality(S)] /\ \A l, m \in S : f[l] = f[m] => l = m
  BY <1>3 DEF Bijection, Injection, IsInjective
<1>5. \E at \in [S -> 1..Cardinality(S)] : \A l, m \in S : at[l] = at[m] => l = m
  BY <1>4
<1> QED BY <1>1, <1>5 DEF Numbering

\* A row and a label have a number of their own.
LEMMA NumbersApart == ASSUME NEW n \in Nat, NEW r \in Nat, NEW i \in 1..r, NEW a \in 1..n
  PROVE /\ (i - 1) * n + a \in 1..(r * n)
        /\ \A j \in 1..r, b \in 1..n : (i - 1) * n + a = (j - 1) * n + b => i = j /\ a = b
<1>1. \A j \in Int, k \in Int : j < k => j * n + n <= k * n
  <2> SUFFICES ASSUME NEW j \in Int, NEW k \in Int, j < k PROVE j * n + n <= k * n
    OBVIOUS
  <2>1. PICK d \in Nat : k = j + 1 + d
    <3>1. k - j - 1 \in Nat /\ k = j + 1 + (k - j - 1)
      OBVIOUS
    <3> QED BY <3>1
  <2>2. k * n = j * n + n + d * n /\ d * n >= 0 /\ j * n \in Int /\ d * n \in Int
    BY <2>1
  <2> QED BY <2>2
<1>2. ASSUME NEW j \in Int, NEW k \in Int, NEW p \in 1..n, NEW q \in 1..n, j < k
      PROVE j * n + p < k * n + q
  <2>1. j * n \in Int /\ k * n \in Int /\ j * n + n <= k * n
    BY <1>1, <1>2
  <2> QED BY <2>1
<1>3. 0 * n = 0 /\ (i - 1) * n \in Int /\ r * n \in Int /\ (i - 1) * n + n <= r * n /\ (i - 1) * n >= 0
  <2>1. (i - 1) * n + n <= r * n
    BY <1>1
  <2>2. (i - 1) * n >= 0
    <3>1. PICK k \in Nat : k = i - 1
      OBVIOUS
    <3> QED BY <3>1
  <2> QED BY <2>1, <2>2
<1>4. ASSUME NEW j \in 1..r, NEW b \in 1..n, (i - 1) * n + a = (j - 1) * n + b PROVE i = j /\ a = b
  <2>1. ~(i - 1 < j - 1) /\ ~(j - 1 < i - 1)
    BY <1>2, <1>4
  <2>2. i = j
    BY <2>1
  <2>3. PICK k \in Int : k = (i - 1) * n
    BY <1>3
  <2>4. k + a = k + b
    BY <1>4, <2>2, <2>3
  <2> QED BY <2>2, <2>4
<1> QED BY <1>3, <1>4

---------------------------------------------------------------------------
(* The triples of a template.                                              *)

\* The number of the blank node that stands for a label in a row.
MintedNumber(S, l, i, next) == next + ((i - 1) * Cardinality(S) + Numbering(S)[l])

\* A row with its blank nodes.
LEMMA MintedRow ==
  ASSUME NEW rows, NEW quads, NEW next \in Nat, NEW i \in DOMAIN rows, i \in Nat,
         IsFiniteSet(TemplateLabels(quads))
  PROVE LET mints == MintBlankNodes(rows, quads, next)
        IN  /\ DOMAIN mints = DOMAIN rows
            /\ \A l \in TemplateLabels(quads) :
                 mints[i][l] = MintedBlank(MintedNumber(TemplateLabels(quads), l, i, next))
            /\ \A c \in DOMAIN rows[i] \ TemplateLabels(quads) : mints[i][c] = rows[i][c]
<1> DEFINE labels == TemplateLabels(quads)
           mints == MintBlankNodes(rows, quads, next)
<1>1. DOMAIN mints = DOMAIN rows
  BY DEF MintBlankNodes
<1>2. mints[i] = [c \in labels \cup DOMAIN rows[i] |->
                   IF c \in labels THEN MintedBlank(next + (i - 1) * Cardinality(labels) + Numbering(labels)[c])
                   ELSE rows[i][c]]
  BY DEF MintBlankNodes
<1>3. ASSUME NEW l \in labels PROVE mints[i][l] = MintedBlank(MintedNumber(labels, l, i, next))
  <2>1. mints[i][l] = MintedBlank(next + (i - 1) * Cardinality(labels) + Numbering(labels)[l])
    BY <1>2
  <2>2. Cardinality(labels) \in Nat /\ Numbering(labels)[l] \in Int
    BY NumberingIs
  <2>3. (i - 1) * Cardinality(labels) \in Int
    BY <2>2
  <2>4. PICK k \in Int : k = (i - 1) * Cardinality(labels)
    BY <2>3
  <2>5. PICK a \in Int : a = Numbering(labels)[l]
    BY <2>2
  <2>6. next + k + a = next + (k + a)
    OBVIOUS
  <2> QED BY <2>1, <2>4, <2>5, <2>6 DEF MintedNumber
<1>4. \A c \in DOMAIN rows[i] \ labels : mints[i][c] = rows[i][c]
  BY <1>2
<1> HIDE DEF labels, mints
<1> QED BY <1>1, <1>3, <1>4 DEF labels, mints

\* A node of a template gives a row what it gives the solution of the row, with
\* the blank nodes named.
Fits(f, nd, solution, i, row) ==
  LET x == NodeValue(nd, solution, i)
  IN  TermPattern(nd, row) = NamedBy(f, x) /\ (x.type = "new" => x \in DOMAIN f)
Naming(f) == \A x \in DOMAIN f : x.type = "new" /\ f[x].type = "blank"

\* A triple with its blank nodes named.
TripleFits(f, a, b, c, x, y) ==
  /\ a.type = "new" => a \in DOMAIN f
  /\ b.type # "new"
  /\ c.type = "new" => c \in DOMAIN f
  /\ x = <<a, b, c>> /\ y = <<NamedBy(f, a), NamedBy(f, b), NamedBy(f, c)>>
LEMMA QuadIs ==
  ASSUME NEW f, Naming(f), NEW a, NEW b, NEW c, NEW x, NEW y, TripleFits(f, a, b, c, x, y)
  PROVE /\ y = Renamed(f, x)
        /\ (x[1].type \in {"iri", "blank", "new"}) <=> (y[1].type \in {"iri", "blank"})
        /\ (x[2].type = "iri") <=> (y[2].type = "iri")
        /\ (x[3] # Null) <=> (y[3] # Null)
        /\ x[1].type = "new" => x[1] \in DOMAIN f
        /\ x[3].type = "new" => x[3] \in DOMAIN f
<1>1. \A z : z \in DOMAIN f => z.type = "new" /\ NamedBy(f, z).type = "blank"
  BY DEF Naming, NamedBy
<1>2. \A z : z \notin DOMAIN f => NamedBy(f, z) = z
  BY DEF NamedBy
<1>0. /\ a.type = "new" => a \in DOMAIN f
      /\ b.type # "new"
      /\ c.type = "new" => c \in DOMAIN f
      /\ x = <<a, b, c>> /\ y = <<NamedBy(f, a), NamedBy(f, b), NamedBy(f, c)>>
  BY DEF TripleFits
<1>3. x[1] = a /\ x[2] = b /\ x[3] = c
  BY <1>0
<1>4. y[1] = NamedBy(f, x[1]) /\ y[2] = NamedBy(f, x[2]) /\ y[3] = NamedBy(f, x[3])
  BY <1>0, <1>3
<1>5. (x[1].type = "new" => x[1] \in DOMAIN f) /\ (x[3].type = "new" => x[3] \in DOMAIN f)
  BY <1>0, <1>3
<1>7. y[2] = x[2]
  BY <1>0, <1>1, <1>2, <1>3, <1>4
<1>8. y = Renamed(f, x)
  BY <1>0, <1>4, <1>7 DEF Renamed
<1>9. (x[1].type \in {"iri", "blank", "new"}) <=> (y[1].type \in {"iri", "blank"})
  BY <1>1, <1>2, <1>4, <1>5
<1>10. (x[3] # Null) <=> (y[3] # Null)
  <2>1. Null.type = "none"
    BY DEF Null, Term
  <2> QED BY <1>1, <1>2, <1>4, <2>1
<1> QED BY <1>5, <1>7, <1>8, <1>9, <1>10

\* So does every quad, for every row.
QuadsFit(f, quads, solutions, at, rows) ==
  /\ at \in [DOMAIN solutions -> DOMAIN rows]
  /\ \A r \in DOMAIN rows : \E i \in DOMAIN solutions : at[i] = r
  /\ \A q \in ToSet(quads), i \in DOMAIN solutions :
       /\ Fits(f, q.t.s, solutions, i, rows[at[i]])
       /\ Fits(f, q.t.p, solutions, i, rows[at[i]])
       /\ Fits(f, q.t.o, solutions, i, rows[at[i]])
       /\ NodeValue(q.t.p, solutions, i).type # "new"

\* What a template describes in a graph is what the recommendation says, with
\* the blank nodes named.
LEMMA FilledIs ==
  ASSUME NEW quads, NEW rows, NEW solutions, NEW at, NEW f, NEW g, Naming(f),
         QuadsFit(f, quads, solutions, at, rows)
  PROVE /\ Atomic!At(TemplateToSolutions(rows, quads), g) = {Renamed(f, t) : t \in Filled(quads, solutions, g)}
        /\ \A t \in Filled(quads, solutions, g) :
             /\ t[1].type = "new" => t[1] \in DOMAIN f
             /\ t[3].type = "new" => t[3] \in DOMAIN f
<1> DEFINE X(q, i) == <<NodeValue(q.t.s, solutions, i), NodeValue(q.t.p, solutions, i), NodeValue(q.t.o, solutions, i)>>
           Y(q, r) == <<TermPattern(q.t.s, rows[r]), TermPattern(q.t.p, rows[r]), TermPattern(q.t.o, rows[r])>>
           Good(y) == y[1].type \in {"iri", "blank"} /\ y[2].type = "iri" /\ y[3] # Null
           Wished(x) == x[1].type \in {"iri", "blank", "new"} /\ x[2].type = "iri" /\ x[3] # Null
           made == Atomic!At(TemplateToSolutions(rows, quads), g)
           due == Filled(quads, solutions, g)
<1>0. /\ at \in [DOMAIN solutions -> DOMAIN rows]
      /\ \A r \in DOMAIN rows : \E i \in DOMAIN solutions : at[i] = r
      /\ \A q \in ToSet(quads), i \in DOMAIN solutions :
           /\ Fits(f, q.t.s, solutions, i, rows[at[i]])
           /\ Fits(f, q.t.p, solutions, i, rows[at[i]])
           /\ Fits(f, q.t.o, solutions, i, rows[at[i]])
           /\ NodeValue(q.t.p, solutions, i).type # "new"
  BY DEF QuadsFit
<1>1. ASSUME NEW y
      PROVE y \in made <=> \E q \in ToSet(quads), r \in DOMAIN rows : q.g.t = g /\ y = Y(q, r) /\ Good(y)
  <2> DEFINE Of(h) == UNION {QuadTriples(q, rows) : q \in {r \in ToSet(quads) : r.g.t = h}}
             gs == {q.g.t : q \in ToSet(quads)}
  <2>1. TemplateToSolutions(rows, quads) = [h \in {k \in gs : Of(k) # {}} |-> Of(h)]
    BY DEF TemplateToSolutions
  <2>2. g \notin gs => Of(g) = {}
    OBVIOUS
  <2>3. made = Of(g)
    <3> HIDE DEF Of, gs
    <3> QED BY <2>1, <2>2 DEF Atomic!At
  <2>4. ASSUME NEW q PROVE y \in QuadTriples(q, rows) <=> \E r \in DOMAIN rows : y = Y(q, r) /\ Good(y)
    BY DEF QuadTriples
  <2> HIDE DEF Y, Good, made
  <2> QED BY <2>3, <2>4
<1>2. ASSUME NEW x
      PROVE x \in due <=> \E q \in ToSet(quads), i \in DOMAIN solutions : q.g.t = g /\ x = X(q, i) /\ Wished(x)
  BY DEF Filled
<1>3. ASSUME NEW q \in ToSet(quads), NEW i \in DOMAIN solutions, NEW x, x = X(q, i), NEW y, y = Y(q, at[i])
      PROVE /\ y = Renamed(f, x) /\ (Wished(x) <=> Good(y))
            /\ x[1].type = "new" => x[1] \in DOMAIN f
            /\ x[3].type = "new" => x[3] \in DOMAIN f
  <2>1. PICK a : a = NodeValue(q.t.s, solutions, i)
    OBVIOUS
  <2>2. PICK b : b = NodeValue(q.t.p, solutions, i)
    OBVIOUS
  <2>3. PICK c : c = NodeValue(q.t.o, solutions, i)
    OBVIOUS
  <2>4. /\ TermPattern(q.t.s, rows[at[i]]) = NamedBy(f, a) /\ (a.type = "new" => a \in DOMAIN f)
        /\ TermPattern(q.t.p, rows[at[i]]) = NamedBy(f, b) /\ b.type # "new"
        /\ TermPattern(q.t.o, rows[at[i]]) = NamedBy(f, c) /\ (c.type = "new" => c \in DOMAIN f)
    BY <1>0, <2>1, <2>2, <2>3 DEF Fits
  <2>5. x = <<a, b, c>> /\ y = <<NamedBy(f, a), NamedBy(f, b), NamedBy(f, c)>>
    BY <1>3, <2>1, <2>2, <2>3, <2>4
  <2>6. /\ y = Renamed(f, x)
        /\ (x[1].type \in {"iri", "blank", "new"}) <=> (y[1].type \in {"iri", "blank"})
        /\ (x[2].type = "iri") <=> (y[2].type = "iri")
        /\ (x[3] # Null) <=> (y[3] # Null)
        /\ x[1].type = "new" => x[1] \in DOMAIN f
        /\ x[3].type = "new" => x[3] \in DOMAIN f
    <3>1. TripleFits(f, a, b, c, x, y)
      BY <2>4, <2>5 DEF TripleFits
    <3> QED BY <3>1, QuadIs
  <2> QED BY <2>6
<1> HIDE DEF X, Y, Good, Wished, made, due
<1>4. ASSUME NEW x \in due PROVE Renamed(f, x) \in made
  <2>1. PICK q \in ToSet(quads), i \in DOMAIN solutions : q.g.t = g /\ x = X(q, i) /\ Wished(x)
    BY <1>2
  <2>2. at[i] \in DOMAIN rows
    BY <1>0
  <2>3. PICK y : y = Y(q, at[i])
    OBVIOUS
  <2>4. y = Renamed(f, x) /\ Good(y)
    BY <1>3, <2>1, <2>3
  <2> QED BY <1>1, <2>1, <2>2, <2>3, <2>4
<1>5. ASSUME NEW y \in made PROVE \E x \in due : y = Renamed(f, x)
  <2>1. PICK q \in ToSet(quads), r \in DOMAIN rows : q.g.t = g /\ y = Y(q, r) /\ Good(y)
    BY <1>1
  <2>2. PICK i \in DOMAIN solutions : at[i] = r
    BY <1>0
  <2>3. PICK x : x = X(q, i)
    OBVIOUS
  <2>4. y = Renamed(f, x) /\ Wished(x)
    BY <1>3, <2>1, <2>2, <2>3
  <2>5. x \in due
    BY <1>2, <2>1, <2>3, <2>4
  <2> QED BY <2>4, <2>5
<1>6. ASSUME NEW x \in due
      PROVE (x[1].type = "new" => x[1] \in DOMAIN f) /\ (x[3].type = "new" => x[3] \in DOMAIN f)
  <2>1. PICK q \in ToSet(quads), i \in DOMAIN solutions : x = X(q, i)
    BY <1>2
  <2>2. PICK y : y = Y(q, at[i])
    OBVIOUS
  <2> QED BY <1>3, <2>1, <2>2
<1>7. made = {Renamed(f, x) : x \in due}
  BY <1>4, <1>5
<1> QED BY <1>6, <1>7 DEF made, due

\* The variables and the labels of a quad are those of its template.
LEMMA NamesOf == ASSUME NEW quads, NEW q \in ToSet(quads)
  PROVE /\ q.t.s.k = "var" => q.t.s.n \in TemplateVars(quads)
        /\ q.t.p.k = "var" => q.t.p.n \in TemplateVars(quads)
        /\ q.t.o.k = "var" => q.t.o.n \in TemplateVars(quads)
        /\ q.t.s.k = "bnode" => q.t.s.n \in TemplateLabels(quads)
        /\ q.t.o.k = "bnode" => q.t.o.n \in TemplateLabels(quads)
<1>1. TripleVars(q.t) \subseteq TemplateVars(quads)
  BY DEF TemplateVars
<1>2. \A nd : nd.k = "var" => nd.n \in NodeVars(nd)
  BY DEF NodeVars
<1>3. NodeVars(q.t.s) \subseteq TripleVars(q.t) /\ NodeVars(q.t.p) \subseteq TripleVars(q.t) /\ NodeVars(q.t.o) \subseteq TripleVars(q.t)
  BY DEF TripleVars
<1>4. ASSUME NEW nd \in {q.t.s, q.t.o}, nd.k = "bnode" PROVE nd.n \in TemplateLabels(quads)
  <2>1. nd \in UNION {{r.t.s, r.t.o} : r \in ToSet(quads)}
    BY <1>4
  <2>2. nd \in {n \in UNION {{r.t.s, r.t.o} : r \in ToSet(quads)} : n.k = "bnode"}
    BY <1>4, <2>1
  <2>3. nd.n \in NodeCols(nd)
    BY <1>4 DEF NodeCols
  <2> QED BY <2>2, <2>3 DEF TemplateLabels
<1> QED BY <1>1, <1>2, <1>3, <1>4

\* A node fits a row that has for it what the solution has, or its name.
LEMMA NodeFits ==
  ASSUME NEW nd, NodeFine(nd, {"term", "var", "bnode"}), NEW row, NEW solutions, NEW i, NEW f, Naming(f),
         nd.k = "var" => /\ row[nd.n] = IF nd.n \in DOMAIN solutions[i] THEN solutions[i][nd.n] ELSE Null
                         /\ row[nd.n].type # "new",
         nd.k = "bnode" => NewNode(nd.n, i) \in DOMAIN f /\ f[NewNode(nd.n, i)] = row[nd.n]
  PROVE /\ Fits(f, nd, solutions, i, row)
        /\ nd.k # "bnode" => NodeValue(nd, solutions, i).type # "new"
<1>1. nd.k \in {"term", "var", "bnode"} /\ (nd.k = "term" => nd.t.type # "new")
  BY DEF NodeFine, KnownTerm
<1>2. \A x : x.type # "new" => NamedBy(f, x) = x
  BY DEF Naming, NamedBy
<1>3. CASE nd.k = "term"
  <2>1. NodeValue(nd, solutions, i) = nd.t /\ TermPattern(nd, row) = nd.t
    BY <1>3 DEF NodeValue, TermPattern
  <2> QED BY <1>1, <1>2, <1>3, <2>1 DEF Fits
<1>4. CASE nd.k = "var"
  <2>1. NodeValue(nd, solutions, i) = row[nd.n] /\ TermPattern(nd, row) = row[nd.n]
    BY <1>4 DEF NodeValue, TermPattern
  <2> QED BY <1>2, <1>4, <2>1 DEF Fits
<1>5. CASE nd.k = "bnode"
  <2>1. NodeValue(nd, solutions, i) = NewNode(nd.n, i) /\ TermPattern(nd, row) = row[nd.n]
    BY <1>5 DEF NodeValue, TermPattern
  <2>2. NamedBy(f, NewNode(nd.n, i)) = row[nd.n] /\ NewNode(nd.n, i) \in DOMAIN f
    BY <1>5 DEF NamedBy
  <2> QED BY <1>5, <2>1, <2>2 DEF Fits
<1> QED BY <1>1, <1>3, <1>4, <1>5

\* A template without labels describes what the recommendation says.
NoNames == [x \in {} |-> x]
LEMMA DescribedIs ==
  ASSUME NEW quads, NEW rows, NEW asked, NEW solutions, NEW m, NEW g,
         TemplateFine(quads), TemplateLabels(quads) = {}, TemplateVars(quads) \subseteq asked,
         KnownRows(rows, asked, m), Solved(rows, asked, solutions)
  PROVE Atomic!At(TemplateToSolutions(rows, quads), g) = Filled(quads, solutions, g)
<1>1. PICK at : SolvedBy(rows, asked, solutions, at)
  BY DEF Solved
<1>2. /\ at \in [DOMAIN solutions -> DOMAIN rows]
      /\ \A r \in DOMAIN rows : \E i \in DOMAIN solutions : at[i] = r
      /\ \A i \in DOMAIN solutions : \A v \in asked :
           rows[at[i]][v] = IF v \in DOMAIN solutions[i] THEN solutions[i][v] ELSE Null
  BY <1>1 DEF SolvedBy
<1>3. Naming(NoNames) /\ \A x : NamedBy(NoNames, x) = x
  BY DEF Naming, NoNames, NamedBy
<1>4. \A i \in DOMAIN solutions : \A v \in asked : rows[at[i]][v].type # "new"
  BY <1>2 DEF KnownRows, KnownTerm
<1>5. ASSUME NEW q \in ToSet(quads), NEW i \in DOMAIN solutions, NEW nd \in {q.t.s, q.t.p, q.t.o}
      PROVE Fits(NoNames, nd, solutions, i, rows[at[i]]) /\ NodeValue(nd, solutions, i).type # "new"
  <2>1. NodeFine(nd, {"term", "var", "bnode"}) /\ nd.k # "bnode"
    BY NamesOf DEF TemplateFine, NodeFine
  <2>2. nd.k = "var" => nd.n \in asked
    BY NamesOf
  <2>3. nd.k = "var" => /\ rows[at[i]][nd.n] = IF nd.n \in DOMAIN solutions[i] THEN solutions[i][nd.n] ELSE Null
                        /\ rows[at[i]][nd.n].type # "new"
    BY <1>2, <1>4, <2>2
  <2>4. PICK row : row = rows[at[i]]
    OBVIOUS
  <2> QED BY <1>3, <2>1, <2>3, <2>4, NodeFits
<1>6. \A q \in ToSet(quads), i \in DOMAIN solutions :
        /\ Fits(NoNames, q.t.s, solutions, i, rows[at[i]])
        /\ Fits(NoNames, q.t.p, solutions, i, rows[at[i]])
        /\ Fits(NoNames, q.t.o, solutions, i, rows[at[i]])
        /\ NodeValue(q.t.p, solutions, i).type # "new"
  BY <1>5
<1>7. Atomic!At(TemplateToSolutions(rows, quads), g) = {Renamed(NoNames, t) : t \in Filled(quads, solutions, g)}
  <2>1. QuadsFit(NoNames, quads, solutions, at, rows)
    BY <1>2, <1>6 DEF QuadsFit
  <2>2. PICK f : f = NoNames
    OBVIOUS
  <2>3. QuadsFit(f, quads, solutions, at, rows) /\ Naming(f)
    BY <1>3, <2>1, <2>2
  <2>4. /\ Atomic!At(TemplateToSolutions(rows, quads), g) = {Renamed(f, t) : t \in Filled(quads, solutions, g)}
        /\ \A t \in Filled(quads, solutions, g) :
             /\ t[1].type = "new" => t[1] \in DOMAIN f
             /\ t[3].type = "new" => t[3] \in DOMAIN f
    BY <2>3, FilledIs
  <2> QED BY <2>2, <2>4
<1>8. ASSUME NEW t \in Filled(quads, solutions, g) PROVE Renamed(NoNames, t) = t
  <2>1. \E a, b, c : t = <<a, b, c>>
    BY DEF Filled
  <2> QED BY <1>3, <2>1 DEF Renamed
<1> QED BY <1>7, <1>8

\* The blank node that an operation makes for each label and solution.
Namer(quads, solutions, at, from) ==
  [x \in {NewNode(l, i) : l \in TemplateLabels(quads), i \in DOMAIN solutions} |->
     MintedBlank(MintedNumber(TemplateLabels(quads), x.label, at[x.row], from))]

\* The numbers are new, and one for each label and row.
LEMMA NumbersNew ==
  ASSUME NEW S, IsFiniteSet(S), NEW r \in Nat, NEW from \in Nat, NEW l \in S, NEW i \in 1..r
  PROVE /\ MintedNumber(S, l, i, from) \in Nat
        /\ from < MintedNumber(S, l, i, from) /\ MintedNumber(S, l, i, from) <= from + r * Cardinality(S)
        /\ \A m \in S, j \in 1..r :
             MintedNumber(S, l, i, from) = MintedNumber(S, m, j, from) => l = m /\ i = j
<1> DEFINE n == Cardinality(S)
           no == Numbering(S)
           at(k, a) == (k - 1) * n + a
<1>1. n \in Nat /\ (\A m \in S : no[m] \in 1..n) /\ \A k, m \in S : no[k] = no[m] => k = m
  BY NumberingIs
<1>2. \A m \in S : \A j \in 1..r : MintedNumber(S, m, j, from) = from + at(j, no[m])
  BY DEF MintedNumber
<1>3. \A j \in 1..r, k \in 1..r, a \in 1..n, b \in 1..n : at(j, a) = at(k, b) => j = k /\ a = b
  BY <1>1, NumbersApart
<1>4. \A j \in 1..r, a \in 1..n : at(j, a) \in 1..(r * n)
  BY <1>1, NumbersApart
<1>5. r * n \in Nat
  BY <1>1
<1> HIDE DEF n, no, at
<1>6. PICK a : a = at(i, no[l]) /\ a \in 1..(r * n)
  BY <1>1, <1>4
<1>7. MintedNumber(S, l, i, from) = from + a
  BY <1>2, <1>6
<1>8. ASSUME NEW m \in S, NEW j \in 1..r, MintedNumber(S, l, i, from) = MintedNumber(S, m, j, from)
      PROVE l = m /\ i = j
  <2>1. PICK b : b = at(j, no[m]) /\ b \in 1..(r * n)
    BY <1>1, <1>4
  <2>2. from + a = from + b
    BY <1>2, <1>7, <1>8, <2>1
  <2>3. a = b
    BY <1>5, <1>6, <2>1, <2>2
  <2>4. no[l] \in 1..n /\ no[m] \in 1..n
    BY <1>1
  <2>5. at(i, no[l]) = at(j, no[m])
    BY <1>6, <2>1, <2>3
  <2>6. i = j /\ no[l] = no[m]
    BY <1>3, <2>4, <2>5
  <2> QED BY <1>1, <2>6
<1>9. PICK p \in Nat : p = r * n
  BY <1>5
<1>10. from + a \in Nat /\ from < from + a /\ from + a <= from + p
  BY <1>6, <1>9
<1> QED BY <1>7, <1>8, <1>9, <1>10 DEF n

\* A name of its own for each, none of which is known.
LEMMA NamerIs ==
  ASSUME NEW quads, IsFiniteSet(TemplateLabels(quads)), NEW rows, NEW asked, NEW solutions, NEW at,
         NEW from \in Nat, Tabled(rows, asked), SolvedBy(rows, asked, solutions, at)
  PROVE LET f == Namer(quads, solutions, at, from)
        IN  /\ Naming(f)
            /\ \A x, y \in DOMAIN f : f[x] = f[y] => x = y
            /\ \A x \in DOMAIN f : ~KnownTerm(f[x], from)
            /\ \A l \in TemplateLabels(quads), i \in DOMAIN solutions :
                 /\ NewNode(l, i) \in DOMAIN f
                 /\ f[NewNode(l, i)] = MintedBlank(MintedNumber(TemplateLabels(quads), l, at[i], from))
<1> DEFINE S == TemplateLabels(quads)
           f == Namer(quads, solutions, at, from)
           r == Len(rows)
<1>1. r \in Nat /\ DOMAIN rows = 1..r
  BY DEF Tabled
<1>2. at \in [DOMAIN solutions -> 1..r] /\ \A i, j \in DOMAIN solutions : at[i] = at[j] => i = j
  BY <1>1 DEF SolvedBy
<1>3. DOMAIN f = {NewNode(l, i) : l \in S, i \in DOMAIN solutions}
  BY DEF Namer
<1>4. ASSUME NEW l \in S, NEW i \in DOMAIN solutions
      PROVE NewNode(l, i) \in DOMAIN f /\ f[NewNode(l, i)] = MintedBlank(MintedNumber(S, l, at[i], from))
  <2>1. NewNode(l, i).label = l /\ NewNode(l, i).row = i
    BY DEF NewNode
  <2>2. PICK x : x = NewNode(l, i)
    OBVIOUS
  <2>3. x \in DOMAIN f
    BY <1>3, <2>2
  <2>4. f[x] = MintedBlank(MintedNumber(S, x.label, at[x.row], from))
    BY <1>3, <2>3 DEF Namer
  <2> QED BY <2>1, <2>2, <2>3, <2>4
<1>5. ASSUME NEW x \in DOMAIN f
      PROVE \E l \in S, i \in DOMAIN solutions :
              /\ x = NewNode(l, i) /\ at[i] \in 1..r
              /\ f[x] = MintedBlank(MintedNumber(S, l, at[i], from))
              /\ MintedNumber(S, l, at[i], from) \in Nat /\ from < MintedNumber(S, l, at[i], from)
  <2>1. PICK l \in S, i \in DOMAIN solutions : x = NewNode(l, i)
    BY <1>3
  <2>2. at[i] \in 1..r
    BY <1>2
  <2>3. MintedNumber(S, l, at[i], from) \in Nat /\ from < MintedNumber(S, l, at[i], from)
    <3>1. PICK k \in 1..r : k = at[i]
      BY <2>2
    <3> HIDE DEF S, r
    <3>2. IsFiniteSet(S)
      BY DEF S
    <3> QED BY <1>1, <3>1, <3>2, NumbersNew
  <2>4. f[x] = MintedBlank(MintedNumber(S, l, at[i], from))
    BY <1>4, <2>1
  <2> QED BY <2>1, <2>2, <2>3, <2>4
<1> HIDE DEF S, f, r
<1>6. Naming(f)
  <2>1. ASSUME NEW x \in DOMAIN f PROVE x.type = "new" /\ f[x].type = "blank"
    <3>1. PICK l, i : x = NewNode(l, i) /\ \E k \in Nat : f[x] = MintedBlank(k)
      BY <1>5
    <3> QED BY <3>1, MintedDiffer DEF NewNode
  <2> QED BY <2>1 DEF Naming
<1>7. ASSUME NEW x \in DOMAIN f, NEW y \in DOMAIN f, f[x] = f[y] PROVE x = y
  <2>1. PICK l \in S, i \in DOMAIN solutions :
          /\ x = NewNode(l, i) /\ at[i] \in 1..r /\ f[x] = MintedBlank(MintedNumber(S, l, at[i], from))
          /\ MintedNumber(S, l, at[i], from) \in Nat
    BY <1>5
  <2>2. PICK m \in S, j \in DOMAIN solutions :
          /\ y = NewNode(m, j) /\ at[j] \in 1..r /\ f[y] = MintedBlank(MintedNumber(S, m, at[j], from))
          /\ MintedNumber(S, m, at[j], from) \in Nat
    BY <1>5
  <2>3. MintedNumber(S, l, at[i], from) = MintedNumber(S, m, at[j], from)
    BY <1>7, <2>1, <2>2, MintedDiffer
  <2>4. IsFiniteSet(S)
    BY DEF S
  <2>5. l = m /\ at[i] = at[j]
    BY <1>1, <2>1, <2>2, <2>3, <2>4, NumbersNew
  <2> QED BY <1>2, <2>1, <2>2, <2>5
<1>8. ASSUME NEW x \in DOMAIN f PROVE ~KnownTerm(f[x], from)
  <2>1. PICK k \in Nat : f[x] = MintedBlank(k) /\ from < k
    BY <1>5
  <2> QED BY <2>1 DEF KnownTerm
<1> QED BY <1>4, <1>6, <1>7, <1>8 DEF f, S

\* What a template makes of the rows with their blank nodes is what the
\* recommendation says, with the blank nodes named.
LEMMA MintedIs ==
  ASSUME NEW quads, TemplateFine(quads), NEW rows, NEW asked, NEW solutions, NEW at, NEW from \in Nat, NEW g,
         TemplateVars(quads) \subseteq asked, TemplateLabels(quads) \cap asked = {},
         Tabled(rows, asked), KnownRows(rows, asked, from), SolvedBy(rows, asked, solutions, at)
  PROVE LET f == Namer(quads, solutions, at, from)
            made == TemplateToSolutions(MintBlankNodes(rows, quads, from), quads)
        IN  /\ Atomic!At(made, g) = {Renamed(f, t) : t \in Filled(quads, solutions, g)}
            /\ \A t \in Filled(quads, solutions, g) :
                 /\ t[1].type = "new" => t[1] \in DOMAIN f
                 /\ t[3].type = "new" => t[3] \in DOMAIN f
<1> DEFINE S == TemplateLabels(quads)
           f == Namer(quads, solutions, at, from)
           mints == MintBlankNodes(rows, quads, from)
<1>1. IsFiniteSet(S)
  BY DEF TemplateFine
<1>2. DOMAIN rows = 1..Len(rows) /\ Len(rows) \in Nat /\ \A i \in DOMAIN rows : asked \subseteq DOMAIN rows[i]
  BY DEF Tabled
<1>3. /\ at \in [DOMAIN solutions -> DOMAIN rows]
      /\ \A r \in DOMAIN rows : \E i \in DOMAIN solutions : at[i] = r
      /\ \A i \in DOMAIN solutions : \A v \in asked :
           rows[at[i]][v] = IF v \in DOMAIN solutions[i] THEN solutions[i][v] ELSE Null
  BY DEF SolvedBy
<1>4. /\ Naming(f)
      /\ \A l \in S, i \in DOMAIN solutions :
           NewNode(l, i) \in DOMAIN f /\ f[NewNode(l, i)] = MintedBlank(MintedNumber(S, l, at[i], from))
  BY <1>1, NamerIs
<1> HIDE DEF f
<1>5. DOMAIN mints = DOMAIN rows
  BY DEF MintBlankNodes
<1> HIDE DEF mints
<1>6. ASSUME NEW i \in DOMAIN rows
      PROVE /\ \A l \in S : mints[i][l] = MintedBlank(MintedNumber(S, l, i, from))
            /\ \A v \in asked : mints[i][v] = rows[i][v]
  <2>1. i \in Nat
    BY <1>2
  <2>2. /\ \A l \in S : mints[i][l] = MintedBlank(MintedNumber(S, l, i, from))
        /\ \A c \in DOMAIN rows[i] \ S : mints[i][c] = rows[i][c]
    BY <1>1, <2>1, MintedRow DEF mints
  <2>3. asked \subseteq DOMAIN rows[i] \ S
    BY <1>2
  <2> QED BY <2>2, <2>3
<1>7. ASSUME NEW q \in ToSet(quads), NEW i \in DOMAIN solutions, NEW nd \in {q.t.s, q.t.p, q.t.o}
      PROVE Fits(f, nd, solutions, i, mints[at[i]]) /\ (nd.k # "bnode" => NodeValue(nd, solutions, i).type # "new")
  <2>1. NodeFine(nd, {"term", "var", "bnode"}) /\ (nd.k = "var" => nd.n \in asked) /\ (nd.k = "bnode" => nd.n \in S)
    BY NamesOf DEF TemplateFine, NodeFine
  <2>2. PICK k \in DOMAIN rows : k = at[i]
    BY <1>3
  <2>3. PICK row : row = mints[k]
    OBVIOUS
  <2>4. nd.k = "var" => /\ row[nd.n] = IF nd.n \in DOMAIN solutions[i] THEN solutions[i][nd.n] ELSE Null
                        /\ row[nd.n].type # "new"
    BY <1>3, <1>6, <2>1, <2>2, <2>3 DEF KnownRows, KnownTerm
  <2>5. nd.k = "bnode" => NewNode(nd.n, i) \in DOMAIN f /\ f[NewNode(nd.n, i)] = row[nd.n]
    BY <1>4, <1>6, <2>1, <2>2, <2>3
  <2>6. Fits(f, nd, solutions, i, row) /\ (nd.k # "bnode" => NodeValue(nd, solutions, i).type # "new")
    BY <1>4, <2>1, <2>4, <2>5, NodeFits
  <2> QED BY <2>2, <2>3, <2>6
<1>8. \A q \in ToSet(quads), i \in DOMAIN solutions :
        /\ Fits(f, q.t.s, solutions, i, mints[at[i]])
        /\ Fits(f, q.t.p, solutions, i, mints[at[i]])
        /\ Fits(f, q.t.o, solutions, i, mints[at[i]])
        /\ NodeValue(q.t.p, solutions, i).type # "new"
  <2>1. \A q \in ToSet(quads) : q.t.p.k # "bnode"
    BY DEF TemplateFine, NodeFine
  <2> QED BY <1>7, <2>1
<1>9. PICK h : h = f
  OBVIOUS
<1>10. PICK m : m = mints
  OBVIOUS
<1>11. at \in [DOMAIN solutions -> DOMAIN m] /\ \A r \in DOMAIN m : \E i \in DOMAIN solutions : at[i] = r
  BY <1>3, <1>5, <1>10
<1>12. QuadsFit(h, quads, solutions, at, m) /\ Naming(h)
  BY <1>4, <1>8, <1>9, <1>10, <1>11 DEF QuadsFit
<1>13. /\ Atomic!At(TemplateToSolutions(m, quads), g) = {Renamed(h, t) : t \in Filled(quads, solutions, g)}
       /\ \A t \in Filled(quads, solutions, g) :
            /\ t[1].type = "new" => t[1] \in DOMAIN h
            /\ t[3].type = "new" => t[3] \in DOMAIN h
  BY <1>12, FilledIs
<1> QED BY <1>9, <1>10, <1>13 DEF f, mints

\* What is inserted is known once its blank nodes are minted.
LEMMA MadeKnown ==
  ASSUME NEW quads, TemplateFine(quads), NEW rows, NEW asked, NEW from \in Nat, NEW g,
         TemplateVars(quads) \subseteq asked, TemplateLabels(quads) \cap asked = {},
         Tabled(rows, asked), KnownRows(rows, asked, from)
  PROVE /\ NewBlanks(rows, quads) \in Nat
        /\ KnownTriples(Atomic!At(TemplateToSolutions(MintBlankNodes(rows, quads, from), quads), g),
                        from + NewBlanks(rows, quads))
<1> DEFINE S == TemplateLabels(quads)
           mints == MintBlankNodes(rows, quads, from)
           r == Len(rows)
           made == Atomic!At(TemplateToSolutions(mints, quads), g)
<1>1. IsFiniteSet(S) /\ Cardinality(S) \in Nat
  BY NumberingIs DEF TemplateFine
<1>2. r \in Nat /\ DOMAIN rows = 1..r /\ \A i \in DOMAIN rows : asked \subseteq DOMAIN rows[i]
  BY DEF Tabled
<1>3. PICK b \in Nat : b = NewBlanks(rows, quads) /\ b = r * Cardinality(S)
  BY <1>1, <1>2 DEF NewBlanks
<1>4. DOMAIN mints = DOMAIN rows
  BY DEF MintBlankNodes
<1> HIDE DEF mints
<1>5. ASSUME NEW i \in DOMAIN rows
      PROVE /\ \A l \in S : KnownTerm(mints[i][l], from + b)
            /\ \A v \in asked : KnownTerm(mints[i][v], from + b)
  <2>1. i \in Nat /\ i \in 1..r
    BY <1>2
  <2>2. /\ \A l \in S : mints[i][l] = MintedBlank(MintedNumber(S, l, i, from))
        /\ \A c \in DOMAIN rows[i] \ S : mints[i][c] = rows[i][c]
    BY <1>1, <2>1, MintedRow DEF mints
  <2>3. ASSUME NEW l \in S PROVE KnownTerm(mints[i][l], from + b)
    <3>1. PICK k : k = MintedNumber(S, l, i, from)
      OBVIOUS
    <3>2. k \in Nat /\ k <= from + b
      <4> HIDE DEF S, r
      <4> QED BY <1>1, <1>2, <1>3, <2>1, <3>1, NumbersNew
    <3>3. from + b \in Nat
      OBVIOUS
    <3> QED BY <2>2, <3>1, <3>2, <3>3, MintedKnown
  <2>4. ASSUME NEW v \in asked PROVE KnownTerm(mints[i][v], from + b)
    <3>1. mints[i][v] = rows[i][v]
      BY <1>2, <2>2
    <3>2. KnownTerm(rows[i][v], from)
      BY DEF KnownRows
    <3>3. from + b \in Nat /\ from <= from + b
      OBVIOUS
    <3> QED BY <3>1, <3>2, <3>3, StillKnown
  <2> QED BY <2>3, <2>4
<1>6. ASSUME NEW q \in ToSet(quads), NEW i \in DOMAIN rows, NEW nd \in {q.t.s, q.t.p, q.t.o}
      PROVE KnownTerm(TermPattern(nd, mints[i]), from + b)
  <2>1. NodeFine(nd, {"term", "var", "bnode"}) /\ (nd.k = "var" => nd.n \in asked) /\ (nd.k = "bnode" => nd.n \in S)
    BY NamesOf DEF TemplateFine, NodeFine
  <2>2. CASE nd.k = "term"
    <3>1. KnownTerm(nd.t, 0) /\ TermPattern(nd, mints[i]) = nd.t
      BY <2>1, <2>2 DEF NodeFine, TermPattern
    <3>2. from + b \in Nat /\ 0 <= from + b /\ 0 \in Nat
      OBVIOUS
    <3> QED BY <3>1, <3>2, StillKnown
  <2>3. CASE nd.k \in {"var", "bnode"}
    <3>1. TermPattern(nd, mints[i]) = mints[i][nd.n]
      BY <2>3 DEF TermPattern
    <3> QED BY <1>5, <2>1, <2>3, <3>1
  <2> QED BY <2>1, <2>2, <2>3 DEF NodeFine
<1>7. ASSUME NEW t \in made
      PROVE \E q \in ToSet(quads), i \in DOMAIN rows :
              t = <<TermPattern(q.t.s, mints[i]), TermPattern(q.t.p, mints[i]), TermPattern(q.t.o, mints[i])>>
  <2>1. \E q \in ToSet(quads) : t \in QuadTriples(q, mints)
    BY DEF TemplateToSolutions, Atomic!At
  <2> QED BY <1>4, <2>1 DEF QuadTriples
<1> HIDE DEF made
<1>8. ASSUME NEW t \in made
      PROVE KnownTerm(t[1], from + b) /\ KnownTerm(t[2], from + b) /\ KnownTerm(t[3], from + b)
  <2>1. PICK q \in ToSet(quads), i \in DOMAIN rows :
              t = <<TermPattern(q.t.s, mints[i]), TermPattern(q.t.p, mints[i]), TermPattern(q.t.o, mints[i])>>
    BY <1>7
  <2>2. t[1] = TermPattern(q.t.s, mints[i]) /\ t[2] = TermPattern(q.t.p, mints[i]) /\ t[3] = TermPattern(q.t.o, mints[i])
    BY <2>1
  <2> QED BY <1>6, <2>2
<1>9. KnownTriples(made, from + b)
  BY <1>8 DEF KnownTriples
<1> QED BY <1>3, <1>9 DEF made, mints

---------------------------------------------------------------------------
(* The invariant of an operation and its answer.                           *)

\* What an operation inserts when it begins to after so many blank nodes.
Made(from) == TemplateToSolutions(MintBlankNodes(tab.rows, Head(todo).insert, from), Head(todo).insert)

\* The table answers the pattern of the operation that is on its way.
Answered ==
  /\ todo # <<>> /\ Head(todo) \in Implemented
  /\ Tabled(tab.rows, Variables(Head(todo)))
  /\ Once(before) => Solved(tab.rows, Variables(Head(todo)), Solutions(Head(todo).p, before))

\* While graphs are inserted into: what was deleted is gone, and some of what
\* is inserted is there.
Inserting ==
  \E from \in Nat :
    /\ minted = from + NewBlanks(tab.rows, Head(todo).insert)
    /\ KnownData(before, from) /\ KnownRows(tab.rows, Variables(Head(todo)), from)
    /\ DOMAIN ins \subseteq DOMAIN Made(from) /\ \A g \in DOMAIN ins : ins[g] = Made(from)[g]
    /\ \A g : Contents(ds, g) = (Contents(before, g) \ Atomic!At(Deletes, g))
                                  \cup (IF g \in DOMAIN ins THEN {} ELSE Atomic!At(Made(from), g))

JInv ==
  /\ minted \in Nat /\ KnownData(ds, minted) /\ todo \in Seq(Operations)
  /\ phase \in {"deleting", "inserting"} => Answered
  /\ phase = "deleting" => KnownData(before, minted) /\ KnownRows(tab.rows, Variables(Head(todo)), minted)
  /\ phase = "inserting" => Inserting

\* A dataset stays known if its graphs only lose triples.
LEMMA LessKnown == ASSUME NEW d, NEW e, NEW m, KnownData(d, m), \A g : Contents(e, g) \subseteq Contents(d, g)
  PROVE KnownData(e, m)
BY DEF KnownData, KnownTriples

\* Or get triples that are known.
LEMMA MoreKnown == ASSUME NEW d, NEW e, NEW m, KnownData(d, m), NEW h, NEW ts, KnownTriples(ts, m),
                          \A g : Contents(e, g) \subseteq Contents(d, g) \cup (IF g = h THEN ts ELSE {})
  PROVE KnownData(e, m)
BY DEF KnownData, KnownTriples

\* What a graph contains after one has been written.
LEMMA PutIs == ASSUME NEW d, NEW h, NEW graph, NEW g
  PROVE Contents(Put(d, h, graph), g) = IF g = h THEN Atomic!Triples(graph) ELSE Contents(d, g)
<1> DEFINE e == Put(d, h, graph)
<1>1. DOMAIN e = DOMAIN d \cup {h} /\ e[h] = graph /\ \A k \in DOMAIN d \ {h} : e[k] = d[k]
  BY DEF Put
<1>2. CASE g = h
  BY <1>1, <1>2, SameTriples
<1>3. CASE g # h
  <2>1. PICK k : k = e
    OBVIOUS
  <2>2. (g \in DOMAIN k <=> g \in DOMAIN d) /\ (g \in DOMAIN d => k[g] = d[g])
    BY <1>1, <1>3, <2>1
  <2>3. Contents(k, g) = Contents(d, g)
    BY <2>2 DEF Contents
  <2> QED BY <1>3, <2>1, <2>3
<1> QED BY <1>2, <1>3

\* Nothing is minted at the start.
LEMMA AnswersInitially == ASSUME RequestsFine, Init PROVE JInv
<1>1. KnownData(ds, minted) /\ minted = 0 /\ todo = <<>> /\ phase = "idle"
  BY DEF Init, RequestsFine
<1>2. <<>> \in Seq(Operations)
  OBVIOUS
<1> QED BY <1>1, <1>2 DEF JInv

\* The templates of an operation.
LEMMA OperationFine == ASSUME RequestsFine, NEW op \in Implemented
  PROVE /\ TemplateFine(op.delete) /\ TemplateLabels(op.delete) = {}
        /\ TemplateVars(op.delete) \subseteq Variables(op)
        /\ TemplateFine(op.insert) /\ TemplateLabels(op.insert) \cap Variables(op) = {}
        /\ TemplateVars(op.insert) \subseteq Variables(op)
BY DEF RequestsFine, Variables

\* A failure leaves nothing to be done, and the dataset to be known.
LEMMA FailureKeeps == ASSUME JInv, Fail, UNCHANGED <<ds, minted>> PROVE JInv'
<1>1. todo' = <<>> /\ phase' = "failed"
  BY DEF Fail
<1>2. minted' \in Nat /\ KnownData(ds', minted')
  BY DEF JInv
<1>3. todo' \in Seq(Operations)
  BY <1>1
<1> QED BY <1>1, <1>2, <1>3 DEF JInv

\* The table that an operation begins with.
LEMMA SolveKeeps == ASSUME RequestsFine, JInv, EvaluatorRight, Solve PROVE JInv'
<1> DEFINE op == Head(todo)
           found == Evaluate(ds, DefaultGraph, Wanted(op))
<1>1. /\ phase = "idle" /\ todo # <<>> /\ op.op = "deleteinsert" /\ ~Unimplemented(op)
      /\ BeginDeletes(found, op.delete) /\ before' = ds /\ UNCHANGED <<ds, minted>>
  BY DEF Solve
<1>2. todo \in Seq(Operations) /\ minted \in Nat /\ KnownData(ds, minted)
  BY DEF JInv
<1>3. op \in Operations
  BY <1>1, <1>2
<1>4. op \in Implemented
  BY <1>1, <1>3 DEF Implemented
<1>5. /\ AnswerRight(found, Variables(op), ds, minted)
      /\ found.ok /\ Once(ds) => Solved(found.rows, Variables(op), Solutions(op.p, ds))
  BY <1>1, <1>4 DEF EvaluatorRight
<1> HIDE DEF found
<1>6. CASE Fail
  BY <1>1, <1>6, FailureKeeps
<1>7. CASE found.ok /\ tab' = found /\ phase' = "deleting" /\ todo' = todo
  <2>1. Tabled(found.rows, Variables(op)) /\ KnownRows(found.rows, Variables(op), minted)
    BY <1>2, <1>5, <1>7 DEF AnswerRight
  <2>2. Answered'
    BY <1>1, <1>4, <1>5, <1>7, <2>1 DEF Answered
  <2>3. KnownData(before', minted') /\ KnownRows(tab'.rows, Variables(Head(todo')), minted')
    BY <1>1, <1>2, <1>7, <2>1
  <2> QED BY <1>1, <1>2, <1>7, <2>2, <2>3 DEF JInv
<1> QED BY <1>1, <1>6, <1>7 DEF BeginDeletes

\* A deletion takes triples away.
LEMMA DeleteKeeps == ASSUME IInv, JInv, NEW g \in DOMAIN dels, DeleteGraph(g) PROVE JInv'
<1>1. phase = "deleting" /\ UNCHANGED <<minted, before>> /\ IsMap(ds)
  BY DEF DeleteGraph, IInv
<1>2. CASE g \notin DOMAIN ds
  BY <1>1, <1>2, FailureKeeps DEF DeleteGraph
<1>3. CASE g \in DOMAIN ds
  <2>1. ds' = [ds EXCEPT ![g] = AfterDeletion(ds[g], dels[g])] /\ UNCHANGED <<todo, tab, phase>>
    BY <1>3 DEF DeleteGraph
  <2>2. DOMAIN ds' = DOMAIN ds /\ ds'[g] = AfterDeletion(ds[g], dels[g]) /\ \A h \in DOMAIN ds \ {g} : ds'[h] = ds[h]
    BY <1>1, <1>3, <2>1 DEF IsMap
  <2>3. Contents(ds', g) \subseteq Contents(ds, g)
    <3>1. Contents(ds', g) = Atomic!Triples(ds'[g])
      BY <1>3, <2>2, SameTriples
    <3>2. Contents(ds, g) = Atomic!Triples(ds[g])
      BY <1>3, SameTriples
    <3>3. Atomic!Triples(AfterDeletion(ds[g], dels[g])) = Atomic!Triples(ds[g]) \ dels[g]
      BY DeletedFrom
    <3> QED BY <2>2, <3>1, <3>2, <3>3
  <2>4. ASSUME NEW h PROVE Contents(ds', h) \subseteq Contents(ds, h)
    <3>1. CASE h = g
      BY <2>3, <3>1
    <3>2. CASE h # g
      BY <2>2, <3>2 DEF Contents
    <3> QED BY <3>1, <3>2
  <2>5. KnownData(ds', minted')
    <3>1. KnownData(ds, minted)
      BY DEF JInv
    <3> QED BY <1>1, <2>4, <3>1, LessKnown
  <2>6. Answered'
    <3>1. Answered
      BY <1>1 DEF JInv
    <3> QED BY <1>1, <2>1, <3>1 DEF Answered
  <2>7. KnownData(before', minted') /\ KnownRows(tab'.rows, Variables(Head(todo')), minted')
    BY <1>1, <2>1 DEF JInv
  <2>8. minted' \in Nat /\ todo' \in Seq(Operations) /\ phase' = "deleting"
    BY <1>1, <2>1 DEF JInv
  <2> QED BY <2>5, <2>6, <2>7, <2>8 DEF JInv
<1> QED BY <1>2, <1>3

\* When the insertions are known the deletions are done, in every graph.
LEMMA BeginInsertsKeeps == ASSUME RequestsFine, IInv, JInv, BeginInserts PROVE JInv'
<1> DEFINE op == Head(todo)
<1>1. phase = "deleting" /\ DOMAIN dels = {} /\ UNCHANGED <<ds, before>>
  BY DEF BeginInserts, NoGraphs
<1>2. CASE BadGraph(op.insert)
  BY <1>1, <1>2, FailureKeeps DEF BeginInserts
<1>3. CASE ~BadGraph(op.insert)
  <2>1. /\ ins' = Made(minted) /\ minted' = minted + NewBlanks(tab.rows, op.insert)
        /\ phase' = "inserting" /\ UNCHANGED <<todo, tab, dels>>
    BY <1>3 DEF BeginInserts, Made
  <2>2. /\ minted \in Nat /\ KnownData(ds, minted) /\ todo \in Seq(Operations)
        /\ Answered /\ KnownData(before, minted) /\ KnownRows(tab.rows, Variables(op), minted)
    BY <1>1 DEF JInv
  <2>3. op \in Implemented /\ Tabled(tab.rows, Variables(op))
    BY <2>2 DEF Answered
  <2>4. NewBlanks(tab.rows, op.insert) \in Nat
    BY <2>2, <2>3, MadeKnown, OperationFine
  <2>5. minted' \in Nat /\ minted <= minted'
    BY <2>1, <2>2, <2>4
  <2>6. KnownData(ds', minted')
    BY <1>1, <2>2, <2>5, DataStillKnown
  <2>7. Answered'
    BY <1>1, <2>1, <2>2 DEF Answered
  <2>8. Made(minted)' = Made(minted') /\ Deletes' = Deletes /\ \A k : Made(k)' = Made(k)
    BY <2>1 DEF Made, Deletes
  <2>9. ASSUME NEW g PROVE Contents(ds, g) = Contents(before, g) \ Atomic!At(Deletes, g)
    <3>1. /\ DOMAIN ds = DOMAIN before
          /\ \A h \in DOMAIN ds :
               Contents(ds, h) = IF h \in DOMAIN Deletes THEN Contents(before, h) \ Deletes[h] ELSE Contents(before, h)
      BY <1>1 DEF IInv, Deleting
    <3>2. CASE g \in DOMAIN ds
      BY <3>1, <3>2 DEF Atomic!At
    <3>3. CASE g \notin DOMAIN ds
      BY <3>1, <3>3 DEF Contents
    <3> QED BY <3>2, <3>3
  <2>10. ASSUME NEW g
         PROVE Contents(ds', g) = (Contents(before', g) \ Atomic!At(Deletes', g))
                                    \cup (IF g \in DOMAIN ins' THEN {} ELSE Atomic!At(Made(minted), g))
    <3>1. (IF g \in DOMAIN ins' THEN {} ELSE Atomic!At(Made(minted), g)) = {}
      BY <2>1 DEF Atomic!At
    <3> QED BY <1>1, <2>8, <2>9, <3>1
  <2>11. Inserting'
    <3>1. /\ minted' = minted + NewBlanks(tab'.rows, Head(todo').insert)
          /\ KnownData(before', minted) /\ KnownRows(tab'.rows, Variables(Head(todo')), minted)
      BY <1>1, <2>1, <2>2
    <3>2. DOMAIN ins' \subseteq DOMAIN Made(minted) /\ \A g \in DOMAIN ins' : ins'[g] = Made(minted)[g]
      BY <2>1
    <3>3. PICK from \in Nat : from = minted
      BY <2>2
    <3>4. /\ minted' = from + NewBlanks(tab'.rows, Head(todo').insert)
          /\ KnownData(before', from) /\ KnownRows(tab'.rows, Variables(Head(todo')), from)
          /\ DOMAIN ins' \subseteq DOMAIN Made(from)' /\ \A g \in DOMAIN ins' : ins'[g] = Made(from)'[g]
          /\ \A g : Contents(ds', g) = (Contents(before', g) \ Atomic!At(Deletes', g))
                                    \cup (IF g \in DOMAIN ins' THEN {} ELSE Atomic!At(Made(from)', g))
      BY <2>8, <2>10, <3>1, <3>2, <3>3
    <3> QED BY <3>4 DEF Inserting
  <2> QED BY <2>1, <2>2, <2>5, <2>6, <2>7, <2>11 DEF JInv
<1> QED BY <1>2, <1>3

\* An insertion of a graph takes it from what is left.
LEMMA InsertKeeps == ASSUME RequestsFine, JInv, NEW h \in DOMAIN ins, InsertGraph(h) PROVE JInv'
<1>1. /\ phase = "inserting" /\ UNCHANGED <<todo, tab, phase, minted, before>>
      /\ ds' = Put(ds, h, WithTriples(GraphOf(ds, h), ins[h]))
      /\ ins' = [g \in DOMAIN ins \ {h} |-> ins[g]]
  BY DEF InsertGraph
<1>2. minted \in Nat /\ KnownData(ds, minted) /\ todo \in Seq(Operations) /\ Answered /\ Inserting
  BY <1>1 DEF JInv
<1>3. PICK from \in Nat :
        /\ minted = from + NewBlanks(tab.rows, Head(todo).insert)
        /\ KnownData(before, from) /\ KnownRows(tab.rows, Variables(Head(todo)), from)
        /\ DOMAIN ins \subseteq DOMAIN Made(from) /\ \A g \in DOMAIN ins : ins[g] = Made(from)[g]
        /\ \A g : Contents(ds, g) = (Contents(before, g) \ Atomic!At(Deletes, g))
                                      \cup (IF g \in DOMAIN ins THEN {} ELSE Atomic!At(Made(from), g))
  BY <1>2 DEF Inserting
<1>4. DOMAIN ins' = DOMAIN ins \ {h} /\ \A g \in DOMAIN ins' : ins'[g] = ins[g]
  BY <1>1
<1>5. ins[h] = Atomic!At(Made(from), h)
  BY <1>3 DEF Atomic!At
<1>6. ASSUME NEW g PROVE Contents(ds', g) = Contents(ds, g) \cup (IF g = h THEN ins[h] ELSE {})
  <2>1. PICK ts : ts = ins[h]
    OBVIOUS
  <2>2. ds' = Put(ds, h, WithTriples(GraphOf(ds, h), ts))
    BY <1>1, <2>1
  <2>3. Atomic!Triples(WithTriples(GraphOf(ds, h), ts)) = Contents(ds, h) \cup ts
    BY InsertedInto, SameTriples
  <2>4. Contents(ds', g) = IF g = h THEN Contents(ds, h) \cup ts ELSE Contents(ds, g)
    BY <2>2, <2>3, PutIs
  <2> QED BY <2>1, <2>4
<1>7. Deletes' = Deletes /\ Made(from)' = Made(from)
  BY <1>1 DEF Made, Deletes
<1>8. ASSUME NEW g
      PROVE Contents(ds', g) = (Contents(before, g) \ Atomic!At(Deletes, g))
                                 \cup (IF g \in DOMAIN ins' THEN {} ELSE Atomic!At(Made(from), g))
  <2>1. CASE g = h
    BY <1>3, <1>4, <1>5, <1>6, <2>1
  <2>2. CASE g # h
    BY <1>3, <1>4, <1>6, <2>2
  <2> QED BY <2>1, <2>2
<1>9. Inserting'
  <2>1. /\ minted' = from + NewBlanks(tab'.rows, Head(todo').insert)
        /\ KnownData(before', from) /\ KnownRows(tab'.rows, Variables(Head(todo')), from)
        /\ DOMAIN ins' \subseteq DOMAIN Made(from)' /\ \A g \in DOMAIN ins' : ins'[g] = Made(from)'[g]
    BY <1>1, <1>3, <1>4, <1>7
  <2>2. \A g : Contents(ds', g) = (Contents(before', g) \ Atomic!At(Deletes', g))
                                 \cup (IF g \in DOMAIN ins' THEN {} ELSE Atomic!At(Made(from)', g))
    BY <1>1, <1>7, <1>8
  <2> QED BY <2>1, <2>2 DEF Inserting
<1>10. KnownTriples(ins[h], minted)
  <2>1. Head(todo) \in Implemented /\ Tabled(tab.rows, Variables(Head(todo)))
    BY <1>2 DEF Answered
  <2>2. KnownTriples(Atomic!At(Made(from), h), from + NewBlanks(tab.rows, Head(todo).insert))
    BY <1>3, <2>1, MadeKnown, OperationFine DEF Made
  <2> QED BY <1>3, <1>5, <2>2
<1>11. KnownData(ds', minted')
  <2>1. PICK ts : ts = ins[h]
    OBVIOUS
  <2>2. KnownTriples(ts, minted) /\ \A g : Contents(ds', g) \subseteq Contents(ds, g) \cup (IF g = h THEN ts ELSE {})
    BY <1>6, <1>10, <2>1
  <2>3. KnownData(ds, minted)
    BY <1>2
  <2>4. KnownData(ds', minted)
    BY <2>2, <2>3, MoreKnown
  <2> QED BY <1>1, <2>4
<1>12. Answered'
  BY <1>1, <1>2 DEF Answered
<1> QED BY <1>1, <1>2, <1>9, <1>11, <1>12 DEF JInv

\* What is inserted of a CONSTRUCT query is known.
LEMMA ConstructKeeps ==
  ASSUME RequestsFine, JInv, EvaluatorRight, NEW c \in Constructs, NEW source \in DOMAIN Start, NEW target,
         NEW transient \in BOOLEAN, InsertConstruct(c, source, target, transient)
  PROVE JInv'
<1> DEFINE found == Evaluate(ds, source, c.p)
           minting == MintBlankNodes(found.rows, c.template, minted)
           new   == TemplateToSolutions(minting, c.template)
<1>1. phase = "idle" /\ UNCHANGED <<todo, phase>>
  BY DEF InsertConstruct
<1>2. minted \in Nat /\ KnownData(ds, minted) /\ todo \in Seq(Operations)
  BY DEF JInv
<1>3. CASE UNCHANGED <<ds, minted>>
  BY <1>1, <1>2, <1>3 DEF JInv
<1>4. CASE /\ found.ok /\ DefaultGraph \in DOMAIN new
           /\ ds' = Put(ds, target, Constructed(c, minting, GraphOf(ds, target), transient))
           /\ minted' = minted + NewBlanks(found.rows, c.template)
  <2>1. AnswerRight(found, TemplateVars(c.template), ds, minted)
    BY <1>1 DEF EvaluatorRight
  <2>2. Tabled(found.rows, TemplateVars(c.template)) /\ KnownRows(found.rows, TemplateVars(c.template), minted)
    BY <1>2, <1>4, <2>1 DEF AnswerRight
  <2>3. TemplateFine(c.template) /\ TemplateLabels(c.template) \cap TemplateVars(c.template) = {}
    BY DEF RequestsFine
  <2>4. PICK asked : asked = TemplateVars(c.template)
    OBVIOUS
  <2>5. PICK rows : rows = found.rows
    OBVIOUS
  <2> HIDE DEF found
  <2>6. /\ NewBlanks(rows, c.template) \in Nat
        /\ KnownTriples(Atomic!At(TemplateToSolutions(MintBlankNodes(rows, c.template, minted), c.template), DefaultGraph),
                        minted + NewBlanks(rows, c.template))
    <3>1. TemplateVars(c.template) \subseteq asked /\ TemplateLabels(c.template) \cap asked = {}
      BY <2>3, <2>4
    <3>2. Tabled(rows, asked) /\ KnownRows(rows, asked, minted)
      BY <2>2, <2>4, <2>5
    <3> QED BY <1>2, <2>3, <3>1, <3>2, MadeKnown
  <2>7. KnownTriples(new[DefaultGraph], minted')
    BY <1>4, <2>5, <2>6 DEF Atomic!At
  <2>8. minted' \in Nat /\ minted <= minted'
    BY <1>2, <1>4, <2>5, <2>6
  <2>9. KnownData(ds, minted')
    BY <1>2, <2>8, DataStillKnown
  <2>10. PICK ts : ts = new[DefaultGraph]
    OBVIOUS
  <2>11. PICK graph : graph = Constructed(c, minting, GraphOf(ds, target), transient)
    OBVIOUS
  <2>12. Atomic!Triples(graph) \subseteq Contents(ds, target) \cup ts
    <3>1. PICK was : was = GraphOf(ds, target)
      OBVIOUS
    <3>2. PICK given : given = minting
      OBVIOUS
    <3> HIDE DEF minting
    <3>3. \E K : Atomic!Triples(graph) = (Atomic!Triples(was) \ Atomic!Inferred(was, K)) \cup ts
      <4>1. DefaultGraph \in DOMAIN TemplateToSolutions(given, c.template)
            /\ ts = TemplateToSolutions(given, c.template)[DefaultGraph]
            /\ graph = Constructed(c, given, was, transient)
        BY <1>4, <2>10, <2>11, <3>1, <3>2
      <4> QED BY <4>1, ConstructedIs
    <3>4. Atomic!Triples(was) = Contents(ds, target)
      BY <3>1, SameTriples
    <3> QED BY <3>3, <3>4
  <2> HIDE DEF new, minting
  <2>13. ds' = Put(ds, target, graph)
    BY <1>4, <2>11
  <2>14. \A g : Contents(ds', g) \subseteq Contents(ds, g) \cup (IF g = target THEN ts ELSE {})
    BY <2>12, <2>13, PutIs
  <2>15. KnownData(ds', minted')
    BY <2>7, <2>9, <2>10, <2>14, MoreKnown
  <2> QED BY <1>1, <1>2, <2>8, <2>15 DEF JInv
<1> QED BY <1>3, <1>4 DEF InsertConstruct, Constructed

\* The step of the invariant.
LEMMA AnswersKept == ASSUME RequestsFine, IInv, JInv, EvaluatorRight, [Next]_vars PROVE JInv'
<1>0. minted \in Nat /\ KnownData(ds, minted) /\ todo \in Seq(Operations)
  BY DEF JInv
<1>1. CASE \E request \in Requests : Update(request)
  <2>1. PICK request \in Requests : Update(request)
    BY <1>1
  <2>2. phase' = "idle" /\ todo' = request /\ UNCHANGED <<ds, minted>>
    BY <2>1 DEF Update
  <2>3. request \in Seq(Operations)
    BY <2>1 DEF RequestsFine
  <2> QED BY <1>0, <2>2, <2>3 DEF JInv
<1>2. CASE RefuseOperation
  BY <1>2, FailureKeeps DEF RefuseOperation
<1>3. CASE IgnoreOperation
  <2>1. phase' = "idle" /\ todo # <<>> /\ todo' = Tail(todo) /\ UNCHANGED <<ds, minted>>
    BY <1>3 DEF IgnoreOperation
  <2>2. todo' \in Seq(Operations)
    BY <1>0, <2>1
  <2> QED BY <1>0, <2>1, <2>2 DEF JInv
<1>4. CASE Solve
  BY <1>4, SolveKeeps
<1>5. CASE \E g \in DOMAIN dels : DeleteGraph(g)
  BY <1>5, DeleteKeeps
<1>6. CASE BeginInserts
  BY <1>6, BeginInsertsKeeps
<1>7. CASE \E g \in DOMAIN ins : InsertGraph(g)
  BY <1>7, InsertKeeps
<1>8. CASE EndOperation
  <2>1. phase = "inserting" /\ phase' = "idle" /\ todo' = Tail(todo) /\ UNCHANGED <<ds, minted>>
    BY <1>8 DEF EndOperation
  <2>2. todo # <<>>
    BY <2>1 DEF IInv
  <2>3. todo' \in Seq(Operations)
    BY <1>0, <2>1, <2>2
  <2> QED BY <1>0, <2>1, <2>3 DEF JInv
<1>9. CASE Raise
  <2>1. phase' = "idle" /\ UNCHANGED <<ds, minted, todo>>
    BY <1>9 DEF Raise
  <2> QED BY <1>0, <2>1 DEF JInv
<1>10. CASE \E c \in Constructs, source, target \in DOMAIN Start, transient \in BOOLEAN :
               InsertConstruct(c, source, target, transient)
  BY <1>10, ConstructKeeps
<1>11. CASE UNCHANGED vars
  <2>1. UNCHANGED <<ds, todo, tab, dels, ins, phase, minted, before>>
    BY <1>11 DEF vars
  <2>2. Answered' <=> Answered
    BY <2>1 DEF Answered
  <2>3. Deletes' = Deletes /\ \A k : Made(k)' = Made(k)
    BY <2>1 DEF Deletes, Made
  <2>4. Inserting' <=> Inserting
    BY <2>1, <2>3 DEF Inserting
  <2> QED BY <2>1, <2>2, <2>4 DEF JInv
<1> QED BY <1>1, <1>2, <1>3, <1>4, <1>5, <1>6, <1>7, <1>8, <1>9, <1>10, <1>11 DEF Next

\* An operation that ends has happened in one step.
LEMMA EndIsOneStep ==
  ASSUME RequestsFine, JInv, EndOperation, Once(before)
  PROVE LET op        == Head(todo)
            solutions == Solutions(op.p, before)
            graphs    == DOMAIN ds \cup {q.g.t : q \in ToSet(op.insert)}
            Due(g)    == Filled(op.insert, solutions, g)
            Kept(g)   == Contents(before, g) \ Filled(op.delete, solutions, g)
            due       == {x \in Ends(UNION {Due(g) : g \in graphs}) : x.type = "new"}
            news      == {x \in Ends(UNION {Contents(ds, g) : g \in graphs}) : x.type = "blank"}
                           \ Ends(UNION {Contents(before, g) : g \in graphs})
        IN  \E f \in [due -> news] :
              /\ \A x, y \in due : f[x] = f[y] => x = y
              /\ \A g \in graphs : Contents(ds, g) = Kept(g) \cup {Renamed(f, t) : t \in Due(g)}
<1> DEFINE op        == Head(todo)
           solutions == Solutions(op.p, before)
           graphs    == DOMAIN ds \cup {q.g.t : q \in ToSet(op.insert)}
           Due(g)    == Filled(op.insert, solutions, g)
           Kept(g)   == Contents(before, g) \ Filled(op.delete, solutions, g)
           due       == {x \in Ends(UNION {Due(g) : g \in graphs}) : x.type = "new"}
           news      == {x \in Ends(UNION {Contents(ds, g) : g \in graphs}) : x.type = "blank"}
                          \ Ends(UNION {Contents(before, g) : g \in graphs})
<1>1. phase = "inserting" /\ DOMAIN ins = {}
  BY DEF EndOperation, NoGraphs
<1>2. Answered /\ Inserting
  BY <1>1 DEF JInv
<1>3. op \in Implemented /\ Tabled(tab.rows, Variables(op)) /\ Solved(tab.rows, Variables(op), solutions)
  BY <1>2 DEF Answered
<1>4. PICK from \in Nat :
        /\ KnownData(before, from) /\ KnownRows(tab.rows, Variables(op), from)
        /\ \A g : Contents(ds, g) = (Contents(before, g) \ Atomic!At(Deletes, g))
                                      \cup (IF g \in DOMAIN ins THEN {} ELSE Atomic!At(Made(from), g))
  BY <1>2 DEF Inserting
<1>5. PICK at : SolvedBy(tab.rows, Variables(op), solutions, at)
  BY <1>3 DEF Solved
<1> DEFINE F == Namer(op.insert, solutions, at, from)
<1>6. /\ TemplateFine(op.delete) /\ TemplateLabels(op.delete) = {} /\ TemplateVars(op.delete) \subseteq Variables(op)
      /\ TemplateFine(op.insert) /\ TemplateLabels(op.insert) \cap Variables(op) = {}
      /\ TemplateVars(op.insert) \subseteq Variables(op)
  BY <1>3, OperationFine
<1> HIDE DEF op, solutions
<1>7. ASSUME NEW g PROVE Atomic!At(Deletes, g) = Filled(op.delete, solutions, g)
  <2>1. PICK asked : asked = Variables(op)
    OBVIOUS
  <2>2. PICK rows : rows = tab.rows
    OBVIOUS
  <2>3. /\ TemplateFine(op.delete) /\ TemplateLabels(op.delete) = {} /\ TemplateVars(op.delete) \subseteq asked
        /\ KnownRows(rows, asked, from) /\ Solved(rows, asked, solutions)
    BY <1>3, <1>4, <1>6, <2>1, <2>2
  <2>4. Atomic!At(TemplateToSolutions(rows, op.delete), g) = Filled(op.delete, solutions, g)
    BY <2>3, DescribedIs
  <2> QED BY <2>2, <2>4 DEF Deletes, op
<1>8. ASSUME NEW g
      PROVE /\ Atomic!At(Made(from), g) = {Renamed(F, t) : t \in Due(g)}
            /\ \A t \in Due(g) : (t[1].type = "new" => t[1] \in DOMAIN F) /\ (t[3].type = "new" => t[3] \in DOMAIN F)
  <2>1. PICK asked : asked = Variables(op)
    OBVIOUS
  <2>2. PICK rows : rows = tab.rows
    OBVIOUS
  <2>3. /\ TemplateFine(op.insert) /\ TemplateLabels(op.insert) \cap asked = {} /\ TemplateVars(op.insert) \subseteq asked
        /\ Tabled(rows, asked) /\ KnownRows(rows, asked, from) /\ SolvedBy(rows, asked, solutions, at)
    BY <1>3, <1>4, <1>5, <1>6, <2>1, <2>2
  <2>4. LET f == Namer(op.insert, solutions, at, from)
            made == TemplateToSolutions(MintBlankNodes(rows, op.insert, from), op.insert)
        IN  /\ Atomic!At(made, g) = {Renamed(f, t) : t \in Filled(op.insert, solutions, g)}
            /\ \A t \in Filled(op.insert, solutions, g) :
                 /\ t[1].type = "new" => t[1] \in DOMAIN f
                 /\ t[3].type = "new" => t[3] \in DOMAIN f
    BY <2>3, MintedIs
  <2> QED BY <2>2, <2>4 DEF Made, op
<1>9. /\ Naming(F)
      /\ \A x, y \in DOMAIN F : F[x] = F[y] => x = y
      /\ \A x \in DOMAIN F : ~KnownTerm(F[x], from)
  <2>1. IsFiniteSet(TemplateLabels(op.insert))
    BY <1>6 DEF TemplateFine
  <2> QED BY <1>3, <1>5, <2>1, NamerIs
<1> HIDE DEF F
<1>10. ASSUME NEW g PROVE Contents(ds, g) = Kept(g) \cup {Renamed(F, t) : t \in Due(g)}
  BY <1>1, <1>4, <1>7, <1>8
<1> HIDE DEF Due, graphs
<1>11. \A x : x \in due <=> x.type = "new" /\ \E g \in graphs : \E t \in Due(g) : x \in {t[1], t[3]}
  BY DEF Ends
<1>12. \A x : x \in news <=> /\ x.type = "blank"
                             /\ \E g \in graphs : \E t \in Contents(ds, g) : x \in {t[1], t[3]}
                             /\ ~\E g \in graphs : \E t \in Contents(before, g) : x \in {t[1], t[3]}
  BY DEF Ends
<1> HIDE DEF due, news, Kept
<1>13. due \subseteq DOMAIN F
  BY <1>8, <1>11
<1>14. ASSUME NEW x \in due PROVE F[x] \in news
  <2>1. PICK g \in graphs : \E t \in Due(g) : x \in {t[1], t[3]}
    BY <1>11
  <2>0. PICK t \in Due(g) : x \in {t[1], t[3]}
    BY <2>1
  <2>2. PICK u : u = Renamed(F, t)
    OBVIOUS
  <2>3. u \in Contents(ds, g)
    BY <1>10, <2>2
  <2>4. NamedBy(F, x) = F[x]
    BY <1>13 DEF NamedBy
  <2>5. u[1] = NamedBy(F, t[1]) /\ u[3] = NamedBy(F, t[3])
    BY <2>2 DEF Renamed
  <2>6. F[x] \in {u[1], u[3]}
    BY <2>0, <2>4, <2>5
  <2>7. F[x].type = "blank"
    BY <1>9, <1>13 DEF Naming
  <2>8. ASSUME NEW h \in graphs, NEW v \in Contents(before, h), F[x] \in {v[1], v[3]} PROVE FALSE
    <3>1. KnownTerm(v[1], from) /\ KnownTerm(v[3], from)
      BY <1>4 DEF KnownData, KnownTriples
    <3> QED BY <1>9, <1>13, <2>8, <3>1
  <2> QED BY <1>12, <2>3, <2>6, <2>7, <2>8
<1> DEFINE f == [x \in due |-> F[x]]
<1>15. f \in [due -> news]
  BY <1>14
<1>16. DOMAIN f = due /\ \A x \in due : f[x] = F[x]
  OBVIOUS
<1> HIDE DEF f
<1>17. \A x, y \in due : f[x] = f[y] => x = y
  BY <1>9, <1>13, <1>16
<1>18. ASSUME NEW g \in graphs, NEW t \in Due(g) PROVE Renamed(f, t) = Renamed(F, t)
  <2>1. ASSUME NEW x \in {t[1], t[3]} PROVE NamedBy(f, x) = NamedBy(F, x)
    <3>1. x \in DOMAIN F => x \in due
      BY <1>9, <1>11, <2>1 DEF Naming
    <3> QED BY <1>13, <1>16, <3>1 DEF NamedBy
  <2> QED BY <2>1 DEF Renamed
<1>19. ASSUME NEW g \in graphs PROVE Contents(ds, g) = Kept(g) \cup {Renamed(f, t) : t \in Due(g)}
  <2>1. {Renamed(f, t) : t \in Due(g)} = {Renamed(F, t) : t \in Due(g)}
    BY <1>18
  <2> QED BY <1>10, <2>1
<1>20. \E h \in [due -> news] :
         /\ \A x, y \in due : h[x] = h[y] => x = y
         /\ \A g \in graphs : Contents(ds, g) = Kept(g) \cup {Renamed(h, t) : t \in Due(g)}
  BY <1>15, <1>17, <1>19
<1> QED BY <1>20 DEF Kept, due, news, Due, graphs, solutions, op

\* For every set of requests whose templates the grammar allows, and every
\* evaluator that is right about the datasets it is asked about, an operation
\* that ends has deleted and then inserted what the recommendation says, with
\* a new blank node for every label and solution.
THEOREM OperationsCorrect ==
  ASSUME RequestsFine PROVE Spec /\ []EvaluatorRight => OperationAsOneStep
<1>1. Init => IInv /\ JInv
  BY Initially, AnswersInitially
<1>2. IInv /\ JInv /\ EvaluatorRight /\ [Next]_vars => (IInv /\ JInv)'
  BY InvariantKept, AnswersKept
<1>3. JInv => [EndOperation /\ Once(before) =>
       LET op        == Head(todo)
           solutions == Solutions(op.p, before)
           graphs    == DOMAIN ds \cup {q.g.t : q \in ToSet(op.insert)}
           Due(g)    == Filled(op.insert, solutions, g)
           Kept(g)   == Contents(before, g) \ Filled(op.delete, solutions, g)
           due       == {x \in Ends(UNION {Due(g) : g \in graphs}) : x.type = "new"}
           news      == {x \in Ends(UNION {Contents(ds, g) : g \in graphs}) : x.type = "blank"}
                          \ Ends(UNION {Contents(before, g) : g \in graphs})
       IN  \E f \in [due -> news] :
             /\ \A x, y \in due : f[x] = f[y] => x = y
             /\ \A g \in graphs : Contents(ds, g) = Kept(g) \cup {Renamed(f, t) : t \in Due(g)}]_vars
  BY EndIsOneStep
<1> QED BY <1>1, <1>2, <1>3, PTL DEF Spec, OperationAsOneStep
=============================================================================
