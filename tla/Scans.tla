------------------------------- MODULE Scans -------------------------------
(***************************************************************************)
(* How a triple pattern is read from the tables of a graph: what is known  *)
(* of its variables selects the tables and the rows, the rows of all of    *)
(* them are put into one table with a column for each variable, and that   *)
(* is joined with the solutions so far.                                    *)
(***************************************************************************)
EXTENDS Pushdowns, TableScans

\* The columns of a pattern, the subject's and the object's.
Name(nd)     == IF nd.k = "term" THEN "" ELSE nd.n
SameName(a, b) == Name(a) # "" /\ Name(a) = Name(b)

\* Constants, and the variables whose values are known; never blank nodes.
CreateSubjects(nd, pd) ==
  CASE nd.k = "term" -> Only({nd.t})
    [] nd.k = "var" /\ nd.n \in DOMAIN pd.vals ->
         Only({t \in pd.vals[nd.n] : t.type \in {"iri", "blank"}})
    [] OTHER -> All
CreateObjects(nd, pd) ==
  CASE nd.k = "term" -> Only({nd.t})
    [] nd.k = "var" /\ nd.n \in DOMAIN pd.vals -> Only(pd.vals[nd.n])
    [] OTHER -> All
CreateTypeConstraint(nd, pd) ==
  CASE nd.k = "term" -> Only(Subtypes(nd.t.type))
    [] nd.k = "var" /\ nd.n \in DOMAIN pd.types -> Only(pd.types[nd.n])
    [] OTHER -> All

---------------------------------------------------------------------------
AllPredicates(graph) == {t[2] : t \in graph.asserted \cup graph.transient}

---------------------------------------------------------------------------
(* All tables of a pattern, put together.                                  *)

EmptyTable(cols) == Table([c \in cols |-> NoneType], <<>>, 0)
Differ(tables, Type(_)) == \E i, j \in DOMAIN tables : Type(tables[i]) # Type(tables[j])

\* Columns of one name need tables of one type.
Fits(s, p, o, tab) ==
  /\ SameName(s, o) => tab.st = tab.ot
  /\ SameName(s, p) => tab.st = "iri"
  /\ SameName(o, p) => tab.ot = "iri"
Agrees(s, p, o, tab, r) ==
  /\ SameName(s, o) => r[1] = r[2]
  /\ SameName(s, p) => r[1] = tab.pred
  /\ SameName(o, p) => r[2] = tab.pred

RowsOfTable(s, p, o, tab) ==
  LET cols == (NodeCols(s) \cup NodeCols(p)) \cup NodeCols(o)
      rows == SelectSeq(tab.rows, LAMBDA r : Agrees(s, p, o, tab, r))
  IN  [i \in DOMAIN rows |->
        [c \in cols |-> CASE c = Name(s) -> rows[i][1]
                          [] c # Name(s) /\ c = Name(p) -> tab.pred
                          [] OTHER -> rows[i][2]]]

\* Whether a column needs a field per type is decided before tables are left
\* out: it is an error if one type is left then, and a panic if no table is.
PutTogether(s, p, o, tables) ==
  LET fits     == SelectSeq(tables, LAMBDA tab : Fits(s, p, o, tab))
      sTypes   == {tab.st : tab \in ToSet(fits)}
      oTypes   == {tab.ot : tab \in ToSet(fits)}
      cols     == (NodeCols(s) \cup NodeCols(p)) \cup NodeCols(o)
      broken   == \/ Name(s) # "" /\ Differ(tables, LAMBDA t : t.st) /\ ~Multi(sTypes)
                  \/ Name(o) # "" /\ Differ(tables, LAMBDA t : t.ot) /\ ~Multi(oTypes)
  IN  IF fits = <<>> \/ broken THEN Failed
      ELSE Table([c \in cols |-> CASE c = Name(s) -> sTypes
                                   [] c # Name(s) /\ c = Name(p) -> {"iri"}
                                   [] OTHER -> oTypes],
                 FlattenSeq([i \in DOMAIN fits |-> RowsOfTable(s, p, o, fits[i])]),
                 FoldLeft(LAMBDA n, tab : n + tab.h, 0, fits))

\* The tables of both maps, the asserted ones first.
FromBoth(tables) == AsSeq(tables.asserted) \o AsSeq(tables.transient)
\* preds are the predicates known, all of the graph if none are.
AllTables(t, tables) ==
  IF tables = <<>> THEN EmptyTable((NodeCols(t.s) \cup NodeCols(t.p)) \cup NodeCols(t.o))
  ELSE PutTogether(t.s, t.p, t.o, tables)
MultiPredicates(ds, g, preds, t, subjects, objects, sTypes, oTypes) ==
  LET preds2 == IF preds.on THEN preds.set ELSE AllPredicates(ds[g])
  IN  AllTables(t, IF g \notin DOMAIN ds \/ (NoneLeft(subjects) /\ NoneLeft(objects)) THEN <<>>
            ELSE FlattenSeq(AsSeq({FromBoth(PredicateTables(ds[g], pred, subjects, objects, sTypes, oTypes)) :
                                     pred \in preds2})))

---------------------------------------------------------------------------
(* A triple pattern, joined with the solutions so far.                     *)

NoInput == [ok |-> TRUE, none |-> TRUE]
IsInput(tab) == tab.ok /\ "rows" \in DOMAIN tab

KnownPredicates(nd, pd, input) ==
  LET Iris(set) == Only({t \in set : t.type = "iri"})
  IN  CASE nd.k = "term" -> Only({nd.t})
        [] nd.k # "term" /\ nd.n \in DOMAIN pd.vals -> Iris(pd.vals[nd.n])
        [] nd.k # "term" /\ nd.n \notin DOMAIN pd.vals /\ IsInput(input) /\ nd.n \in Cols(input) ->
             IF input.types[nd.n] = {"iri"}
             THEN Iris({input.rows[i][nd.n] : i \in DOMAIN input.rows} \ {Null}) ELSE Only({})
        [] OTHER -> All

\* Solutions said to be empty are not joined: every row with every row, and
\* the columns of the pattern in place of theirs.
CrossWithEmpty(input, scan) ==
  LET rest == DropColumns(input, Cols(input) \cap Cols(scan))
  IN  [rest EXCEPT !.types = scan.types @@ @,
                   !.rows  = FlattenSeq([i \in DOMAIN @ |-> [j \in DOMAIN scan.rows |-> scan.rows[j] @@ @[i]]])]

KnownFrom(pd, input) == IF IsInput(input) THEN AddFromSolutionMappings(pd, input) ELSE pd

JoinedWith(input, scan) ==
  CASE ~input.ok \/ ~scan.ok -> Failed
    [] input.ok /\ scan.ok /\ ~IsInput(input) -> scan
    [] OTHER -> IF input.h = 0 THEN CrossWithEmpty(input, scan) ELSE JoinTables(input, scan, "inner")
LazyTriplePattern(ds, g, input, t, pd) ==
  LET know == KnownFrom(pd, input)
  IN  JoinedWith(input, MultiPredicates(ds, g, KnownPredicates(t.p, know, input), t,
                          CreateSubjects(t.s, know), CreateObjects(t.o, know),
                          CreateTypeConstraint(t.s, know), CreateTypeConstraint(t.o, know)))
=============================================================================
