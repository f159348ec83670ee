------------------------------- MODULE Tables -------------------------------
(***************************************************************************)
(* Solution mappings: tables with one column per variable, the types that  *)
(* each column may hold, and an estimate of the number of rows.  A column  *)
(* of several types is stored as one field per type, of which at most one  *)
(* is filled; a column of the one type "none" holds nothing.               *)
(***************************************************************************)
EXTENDS Sparql, FiniteSetsExt, TLC

Table(types, rows, h) == [ok |-> TRUE, types |-> types, rows |-> rows, h |-> h]
Failed    == [ok |-> FALSE]                        \* an error or a panic
NoColumns == [c \in {} |-> {}]
NoneType  == {"none"}
Cols(tab) == DOMAIN tab.types
Multi(ts) == Cardinality(ts) > 1

\* What the fields of these types hold of a term.
Field(ts, x) == IF x.type \in ts THEN x ELSE Null
OnTypes(rows, c, ts) == [i \in DOMAIN rows |-> [rows[i] EXCEPT ![c] = Field(ts, @)]]
OnlyWith(rows, c)    == SelectSeq(rows, LAMBDA r : r[c] # Null)
NoRows(tab, c)       == [tab EXCEPT !.rows = <<>>, !.types[c] = NoneType]
DropColumns(tab, cs) ==
  [tab EXCEPT !.types = [c \in DOMAIN @ \ cs |-> @[c]],
              !.rows  = [i \in DOMAIN @ |-> [c \in DOMAIN @[i] \ cs |-> @[i][c]]]]
WithColumn(tab, v, ts, vals) ==
  [tab EXCEPT !.types = (v :> ts) @@ @, !.rows = [i \in DOMAIN @ |-> (v :> vals[i]) @@ @[i]]]
Keep(tab, Test(_)) == [tab EXCEPT !.rows = SelectSeq(@, Test)]

---------------------------------------------------------------------------
(* Joins.                                                                  *)

\* A column with a field per type loses the rows that hold none of the types
\* kept, a column that is converted to one type keeps them.
Reduce(tab, c, keep) ==
  LET rows == OnTypes(tab.rows, c, keep)
  IN  [tab EXCEPT !.types[c] = keep, !.rows = IF Multi(keep) THEN OnlyWith(rows, c) ELSE rows]

\* Both sides with types in a common column that can be compared.
Reconciled(l, r, c, how) ==
  LET keep == l.types[c] \cap r.types[c]
  IN  CASE l.types[c] = r.types[c]          -> <<l, r>>
        [] l.types[c] # r.types[c] /\ keep = {} ->
             <<IF how = "inner" THEN NoRows(l, c) ELSE l, NoRows(r, c)>>
        [] OTHER -> <<IF how = "inner" /\ l.types[c] # keep THEN Reduce(l, c, keep) ELSE l,
                      IF r.types[c] # keep THEN Reduce(r, c, keep) ELSE r>>

\* The columns both sides are compared on: one per type they share.
OnColumns(l, r)  == {ct \in (Cols(l) \cap Cols(r)) \X (AllTypes \cup NoneType) :
                       ct[2] \in l.types[ct[1]] \cap r.types[ct[1]]}
NeverEqual(l, r) == \E c \in Cols(l) \cap Cols(r) :
                      \/ l.types[c] \cap r.types[c] = {}
                      \/ Multi(l.types[c]) /\ r.types[c] = NoneType

JoinHeight(l, r) ==
  LET top == IF l.h > r.h THEN l.h ELSE r.h
      Estimate(n) == IF n = 0 THEN l.h * r.h ELSE (top * (IF 15 - n > 11 THEN 15 - n ELSE 11)) \div 10
  IN  IF NeverEqual(l, r) THEN 0 ELSE Estimate(Cardinality(OnColumns(l, r)))

\* Nulls are equal to each other and to nothing else; the left value is kept.
JoinReconciled(l, r, how) ==
  LET common   == Cols(l) \cap Cols(r)
      on       == OnColumns(l, r)
      Meet(a, b)  == ~NeverEqual(l, r) /\ \A ct \in on :
                       Field({ct[2]}, a[ct[1]]) = Field({ct[2]}, b[ct[1]])
      Alone(a)    == [c \in Cols(r) \ common |-> Null] @@ a
      Matches(a)  == LET found == SelectSeq(r.rows, LAMBDA b : Meet(a, b))
                     IN  [i \in DOMAIN found |-> a @@ found[i]]
      Of(a)       == IF how = "left" /\ Matches(a) = <<>> THEN <<Alone(a)>> ELSE Matches(a)
  IN  Table(l.types @@ r.types, FlattenSeq([i \in DOMAIN l.rows |-> Of(l.rows[i])]), JoinHeight(l, r))

JoinTables(l, r, how) ==
  IF ~l.ok \/ ~r.ok THEN Failed
  ELSE LET Both(lr) == JoinReconciled(lr[1], lr[2], how)
       IN  Both(FoldLeft(LAMBDA lr, c : Reconciled(lr[1], lr[2], c, how), <<l, r>>, AsSeq(Cols(l) \cap Cols(r))))

\* The rows of the left side without an equal one: here nulls are not equal,
\* and the types of the columns are not reconciled, so they must be the same.
MinusTables(l, r) ==
  LET common    == Cols(l) \cap Cols(r)
      Meet(a, b) == \A c \in common : a[c] # Null /\ a[c] = b[c]
  IN  CASE ~l.ok \/ ~r.ok -> Failed
        [] l.ok /\ r.ok /\ common = {} -> l
        [] l.ok /\ r.ok /\ common # {} /\ (\E c \in common : l.types[c] # r.types[c]) -> Failed
        [] OTHER -> Keep(l, LAMBDA a : \A b \in ToSet(r.rows) : ~Meet(a, b))

UnionTables(l, r) ==
  IF ~l.ok \/ ~r.ok THEN Failed
  ELSE LET cols  == Cols(l) \cup Cols(r)
           Wide(rows) == [i \in DOMAIN rows |-> [c \in cols |-> IF c \in DOMAIN rows[i] THEN rows[i][c] ELSE Null]]
           Types(tab, c) == IF c \in Cols(tab) THEN tab.types[c] ELSE {}
       IN  Table([c \in cols |-> Types(l, c) \cup Types(r, c)], Wide(l.rows) \o Wide(r.rows), l.h + r.h)

---------------------------------------------------------------------------
(* Operations on one table.                                                *)

DistinctTable(tab) ==
  [tab EXCEPT !.rows = FoldLeft(LAMBDA d, x : IF Contains(d, x) THEN d ELSE Append(d, x), <<>>, @)]

ProjectTable(tab, vs, strict) ==
  LET vars == ToSet(vs)
      Has(v) == v \in Cols(tab)
  IN  IF strict /\ \E v \in vars : ~Has(v) THEN Failed
      ELSE [tab EXCEPT !.types = [v \in vars |-> IF Has(v) THEN @[v] ELSE NoneType],
                       !.rows  = [i \in DOMAIN @ |-> [v \in vars |-> IF Has(v) THEN @[i][v] ELSE Null]]]

SliceTable(tab, from, len) ==
  [tab EXCEPT !.rows = SubSeq(@, from + 1, Min({Len(@), from + len}))]

\* UNDEF is a null.  A column of nothing else has no rows at all, which does
\* not fit beside the other columns.
ValuesTable(vs, rows) ==
  LET Types(i) == {rows[r][i].type : r \in DOMAIN rows} \ NoneType
      empty    == {i \in DOMAIN vs : Types(i) = {}}
      At(v)    == CHOOSE i \in DOMAIN vs : vs[i] = v
      types    == [v \in ToSet(vs) |-> IF Types(At(v)) = {} THEN NoneType ELSE Types(At(v))]
  IN  CASE empty = {} -> Table(types, [r \in DOMAIN rows |-> [v \in ToSet(vs) |-> rows[r][At(v)]]], Len(rows))
        [] empty # {} /\ empty = DOMAIN vs -> Table(types, <<>>, 0)
        [] OTHER -> Failed

---------------------------------------------------------------------------
(* Order.  Nulls come first, then the types in this order; the last key of *)
(* a descending order are the nulls.                                       *)

TypeRank(ty) == CASE ty = "none" -> 0 [] ty = "iri" -> 1 [] ty = "blank" -> 2
                  [] ty = "boolean" -> 3 [] ty = "integer" -> 4 [] ty = "short" -> 5
                  [] ty = "string" -> 6
TermBefore(a, b) == TypeRank(a.type) < TypeRank(b.type) \/ (a.type = b.type /\ a.n < b.n)

\* keys[i] are the values row i is sorted by.  The code leaves the order of
\* ties to the library; here they keep it.
SortRows(rows, keys, descs) ==
  LET Before(i, j) ==
        LET differ == {k \in DOMAIN descs : keys[i][k] # keys[j][k]}
        IN  IF differ = {} THEN i < j
            ELSE LET k == Min(differ)
                 IN  IF descs[k] THEN TermBefore(keys[j][k], keys[i][k]) ELSE TermBefore(keys[i][k], keys[j][k])
      order == SortSeq([i \in DOMAIN rows |-> i], Before)
  IN  [i \in DOMAIN rows |-> rows[order[i]]]
=============================================================================
