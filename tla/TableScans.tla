----------------------------- MODULE TableScans -----------------------------
(***************************************************************************)
(* How the triples of one predicate are read.  There is a table per pair   *)
(* of types, once for the asserted and once for the transient triples,     *)
(* sorted by subject and, for some predicates, by object too.  What is     *)
(* known of subjects and objects selects the tables and the rows; it may   *)
(* leave rows too many but never one too few.                              *)
(* A graph is a record of two sets of triples <<s, p, o>>; a term has a    *)
(* type and a number, for a string its place in the order of strings.      *)
(***************************************************************************)
EXTENDS SparseIndex

CONSTANT ObjectSorted        \* predicates with a sort by object

All       == [on |-> FALSE, set |-> {}]
Only(set) == [on |-> TRUE, set |-> set]

CanIndex(ty)                      == ty \in {"iri", "blank", "string"}
CanAndShouldIndexObject(ty, pred) == CanIndex(ty) /\ pred \in ObjectSorted

---------------------------------------------------------------------------
(* One table: a set of rows <<s, o>>.                                      *)

\* By one column, and by the other among equals.
RowBefore(a, b, i, j) == a[i].n < b[i].n \/ (a[i].n = b[i].n /\ a[j].n < b[j].n)
SortedBy(rows, i, j) == OrderedBy(rows, {m \in rows \X rows : RowBefore(m[1], m[2], i, j)})
SortedRows(rows) == SortedBy(rows, 1, 2)
ObjectRows(rows) == SortedBy(rows, 2, 1)

\* The number of rows that the intervals say they have.
HeightOf(ivs) ==
  LET upTo[n \in 0..Len(ivs)] == IF n = 0 THEN 0 ELSE upTo[n - 1] + ivs[n][2]
  IN  upTo[Len(ivs)]

StringsOf(terms) == {t.n : t \in terms}
Offsets(rows, i, terms) ==
  LET col == [k \in DOMAIN rows |-> rows[k][i].n]
  IN  LookupOffsets(StringsOf(terms), CreateSparseIndex(col), Len(col))
LookedIn(rows, ivs)    == [rows |-> SlicesOf(rows, ivs), h |-> HeightOf(ivs)]
Looked(rows, i, terms) == LookedIn(rows, Offsets(rows, i, terms))

\* By subject when subjects are known, by object when objects are known and
\* there is such a sort, otherwise everything.
LazyFrames(pred, ot, rows, subjects, objects) ==
  LET useObjects == ~subjects.on /\ objects.on /\ CanAndShouldIndexObject(ot, pred)
  IN  CASE subjects.on -> Looked(SortedRows(rows), 1, subjects.set)
        [] useObjects  -> Looked(ObjectRows(rows), 2, objects.set)
        [] OTHER       -> [rows |-> SortedRows(rows), h |-> Cardinality(rows)]

\* Only a single value is compared exactly.
Passes(terms, t) == terms.on /\ Cardinality(terms.set) = 1 => t \in terms.set
Picked(rows, kept) == LET at == Ascending(kept) IN [k \in DOMAIN at |-> rows[at[k]]]
SingleTriples(pred, ot, rows, subjects, objects) ==
  LET read == LazyFrames(pred, ot, rows, subjects, objects)
      kept == {k \in DOMAIN read.rows : Passes(subjects, read.rows[k][1]) /\ Passes(objects, read.rows[k][2])}
  IN  [rows |-> Picked(read.rows, kept), h |-> read.h]

---------------------------------------------------------------------------
(* The tables of a predicate.                                              *)

FilterTerms(terms, ty) == IF terms.on THEN Only({t \in terms.set : t.type = ty}) ELSE All
NoneLeft(terms)        == terms.on /\ terms.set = {}

AllCompatibleTypes(tables, sTypes, oTypes) ==
  {ty \in tables : (sTypes.on => ty[1] \in sTypes.set) /\ (oTypes.on => ty[2] \in oTypes.set)}

TypePair(t) == <<t[1].type, t[3].type>>
ReadTable(triples, pred, ty, subjects, objects) ==
  LET read == SingleTriples(pred, ty[2], {<<t[1], t[3]>> : t \in {u \in triples : TypePair(u) = ty}},
                            FilterTerms(subjects, ty[1]), FilterTerms(objects, ty[2]))
  IN  [pred |-> pred, st |-> ty[1], ot |-> ty[2], rows |-> read.rows, h |-> read.h]

\* The tables of one of the two maps, but for those in which no row is read.
MultipleTables(triples, pred, subjects, objects, sTypes, oTypes) ==
  LET Of    == {t \in triples : t[2] = pred}
      types == AllCompatibleTypes({TypePair(t) : t \in Of}, sTypes, oTypes)
      used  == {ty \in types : ~NoneLeft(FilterTerms(subjects, ty[1])) /\ ~NoneLeft(FilterTerms(objects, ty[2]))}
  IN  {tab \in {ReadTable(Of, pred, ty, subjects, objects) : ty \in used} : tab.h > 0}

\* Mutant: transient triples are read if nothing is asserted.
PredicateTablesEither(graph, pred, subjects, objects, sTypes, oTypes) ==
  LET Of(triples) == MultipleTables(triples, pred, subjects, objects, sTypes, oTypes)
  IN  [asserted  |-> Of(graph.asserted),
       transient |-> IF Of(graph.asserted) # {} THEN {} ELSE Of(graph.transient)]
PredicateTables(graph, pred, subjects, objects, sTypes, oTypes) ==
  [map \in {"asserted", "transient"} |-> MultipleTables(graph[map], pred, subjects, objects, sTypes, oTypes)]
=============================================================================
