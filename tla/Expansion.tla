----------------------------- MODULE Expansion -----------------------------
(***************************************************************************)
(* What mapping a table through a template makes of it.  Every instance in *)
(* a body renames the columns it passes on, adds its constants and         *)
(* explodes its lists, until only instances of ottr:Triple are left, each  *)
(* a table of triples.                                                     *)
(* A constant blank node is named by its label, its layer, the position of *)
(* the template in the body it was called from, and its row.               *)
(* An error and a panic both count as a failure of the call.               *)
(* What types and values constants have comes in as constants.             *)
(***************************************************************************)
EXTENDS Templates

CONSTANTS MaxLayer,          \* templates may call each other this deep
          HasBlankNode(_),   \* does a constant hold a blank node?
          Consistent(_),     \* does a constant have one type?
          TypeOf(_),         \* the column type of a constant
          ValueOf(_)         \* the value of a constant

---------------------------------------------------------------------------
(* Defaults.  A frame has rows of the dynamic columns, their types, and    *)
(* the constants of the static ones.  A table that is not there has no     *)
(* rows but counts as one.                                                 *)

NoDefaultFor(p) == p.default = NoDefault

\* Can the nulls of this column be filled?  A default that is a blank node is
\* not supported, unless there are none.
DefaultFits(fr, p) ==
  IF HasBlankNode(p.default)
  THEN Has(fr.dyn, p.v) /\ \A r \in DOMAIN fr.rows : ~IsNull(fr.rows[r][p.v])
  ELSE Consistent(p.default) /\ Has(fr.dyn, p.v) /\ fr.dyn[p.v] \in {Flat("None"), TypeOf(p.default)}

\* The columns of the parameters ps, each with a default.
FillNullsWithDefaults(fr, ps) ==
  LET plain == {p \in ps : ~HasBlankNode(p.default)}
      cols  == {p.v : p \in plain}
      DefaultOf(n) == (CHOOSE p \in plain : p.v = n).default
      Filled(n, v) == IF n \in cols /\ (IsNull(v) \/ fr.dyn[n] = Flat("None")) THEN ValueOf(DefaultOf(n)) ELSE v
  IN  IF fr.ok /\ \A p \in ps : DefaultFits(fr, p)
      THEN [fr EXCEPT !.rows = [r \in DOMAIN @ |-> [n \in DOMAIN @[r] |-> Filled(n, @[r][n])]],
                      !.dyn  = [n \in DOMAIN @ |-> IF n \in cols THEN TypeOf(DefaultOf(n)) ELSE @[n]]]
      ELSE Failed

\* Of the template that is mapped: columns that are missing become static.
WithDefaults(fr, params) ==
  LET ps      == {p \in ToSet(params) : ~NoDefaultFor(p)}
      missing == {p \in ps : ~Has(fr.dyn, p.v)}
      DefaultOf(n) == (CHOOSE p \in missing : p.v = n).default
  IN  FillNullsWithDefaults([fr EXCEPT !.static = [n \in {p.v : p \in missing} |-> DefaultOf(n)]], ps \ missing)

---------------------------------------------------------------------------
(* The instances of a body.                                                *)

\* Lists are exploded by the data frame library: a null list gives one null,
\* an empty list no row, several columns at once need lists of equal length.
\* A pick has a position in every list: any for each, or the same for all.
RowPicks(row, le, cols) ==
  LET at == [c \in cols |-> DOMAIN Items(row[c])]
      together == {pick \in [cols -> UNION {at[c] : c \in cols}] : \A c \in cols : pick[c] \in at[c]}
  IN  IF le = "cross" THEN together ELSE {pick \in together : \A c, d \in cols : pick[c] = pick[d]}
AtPick(row, pick) == [n \in DOMAIN row |-> IF Has(pick, n) THEN Items(row[n])[pick[n]] ELSE row[n]]

\* The rows come in any order.
Exploded(rows, le, cols) ==
  LET made == UNION {{<<r, pick>> : pick \in RowPicks(rows[r], le, cols)} : r \in DOMAIN rows}
      kept == {m \in made : le = "zipMin" => \A c \in cols : ~IsNull(AtPick(rows[m[1]], m[2])[c])}
      list == SetToSeq(kept)
  IN  [k \in DOMAIN list |-> AtPick(rows[list[k][1]], list[k][2])]
InStep(rows, cols) ==
  \A r \in DOMAIN rows : \A c, d \in cols : DOMAIN Items(rows[r][c]) = DOMAIN Items(rows[r][d])

ExpandLists(fr, le, cols) ==
  CASE le = "none" \/ cols = {} -> fr
    [] le # "none" /\ cols # {} /\ (\E n \in cols : ~Has(fr.dyn, n) \/ fr.dyn[n].k # "Nested") -> Failed
    [] OTHER ->
         IF le = "cross" \/ InStep(fr.rows, cols)
         THEN [fr EXCEPT !.dyn  = [n \in DOMAIN @ |-> IF n \in cols THEN @[n].of ELSE @[n]],
                         !.rows = Exploded(@, le, cols)]
         ELSE Failed

\* Mutant: one blank node for all rows.
BlankNameOfLabel(label, layer, num, n) == <<"c", label, layer, num, 0>>
BlankName(label, layer, num, n) == <<"c", label, layer, num, n>>

\* How each argument is passed on.
ArgumentKind(a, p, calling, fr) ==
  LET Named == {i \in DOMAIN calling : calling[i].v = a.t.n}
      Plain(c) == ~HasBlankNode(c) /\ Consistent(c)
  IN  CASE a.t.k = "list" -> "fail"
        [] a.t.k = "const" ->
             CASE a.t.c.k = "bnode" -> "blank"
               [] a.t.c.k # "bnode" /\ ~Plain(a.t.c) -> "fail"
               [] OTHER -> CASE a.expand -> "expand"
                             [] ~a.expand /\ a.t.c = NoneConst /\ ~NoDefaultFor(p) -> "default"
                             [] OTHER -> "static"
        [] OTHER ->
             CASE Has(fr.dyn, a.t.n) -> "column"
               [] ~Has(fr.dyn, a.t.n) /\ Has(fr.static, a.t.n) ->
                    IF ~a.expand THEN "static" ELSE IF Plain(fr.static[a.t.n]) THEN "expand" ELSE "fail"
               [] OTHER -> CASE ~NoDefaultFor(p) -> "default"
                             [] NoDefaultFor(p) /\ Named # {} /\ p.optional -> "absent"
                             [] NoDefaultFor(p) /\ Named # {} /\ ~p.optional
                                  /\ calling[CHOOSE i \in Named : TRUE].optional -> "skip"
                             [] OTHER -> "fail"

Skipped == [ok |-> TRUE, skip |-> TRUE]

\* The frame that an instance passes to its template, argument by parameter as
\* far as both go.  h is the height of the frame of the caller, counter the
\* model's number of blank nodes so far.
CreateRemapped(counter, layer, num, inst, params, calling, fr, h) ==
  LET as      == inst.args
      kind    == [i \in DOMAIN as \cap DOMAIN params |-> ArgumentKind(as[i], params[i], calling, fr)]
      Is(ks)  == {i \in DOMAIN kind : kind[i] \in ks}
      Names(is)     == {params[i].v : i \in is}
      Source(is, n) == CHOOSE i \in is : params[i].v = n
      stops   == Is({"skip", "fail"})
      columns == Is({"column", "blank", "expand"})
      fixed   == Is({"static", "default"})
      Const(i) == CASE kind[i] = "default" -> params[i].default
                    [] kind[i] # "default" /\ as[i].t.k = "const" -> as[i].t.c
                    [] OTHER -> fr.static[as[i].t.n]
      Value(i, r) == CASE kind[i] = "column" -> fr.rows[r][as[i].t.n]
                       [] kind[i] = "blank"  -> Raw(BlankName(as[i].t.c.v, layer, num, counter + r - 1))
                       [] kind[i] = "expand" -> ValueOf(Const(i))
      Mct(i)  == CASE kind[i] = "column" -> fr.dyn[as[i].t.n]
                   [] kind[i] = "blank"  -> Flat("Blank")
                   [] kind[i] = "expand" -> TypeOf(Const(i))
      height  == CASE Is({"column", "blank"}) # {} -> h
                   [] Is({"column", "blank"}) = {} /\ columns # {} -> 1
                   [] OTHER -> 0
      made    == [ok |-> TRUE, skip |-> FALSE, table |-> TRUE,
                  rows |-> [r \in 1..height |-> [n \in Names(columns) |-> Value(Source(columns, n), r)]],
                  dyn  |-> [n \in Names(columns) |-> Mct(Source(columns, n))],
                  static |-> [n \in Names(fixed) |-> Const(Source(fixed, n))],
                  counter |-> counter + IF Is({"blank"}) = {} THEN 0 ELSE h]
      expanded == ExpandLists(made, inst.expander, Names({i \in DOMAIN kind : as[i].expand}))
      \* The parameters of the template, looked up among the caller's columns.
      filled  == {p \in ToSet(params) : Has(fr.dyn, p.v) /\ ~NoDefaultFor(p)}
  IN  CASE stops = {} -> FillNullsWithDefaults(expanded, filled)
        [] stops # {} /\ kind[CHOOSE i \in stops : \A j \in stops : i <= j] = "skip" -> Skipped
        [] OTHER -> Failed

\* What the instances of the body of a template pass on.  Each starts from
\* the counter of the model, not from the one its caller was given.
RemapInstances(ts, start, layer, num, name, fr) ==
  LET t == ts[name]
      h == IF fr.table THEN Len(fr.rows) ELSE 1
      Passed(inst) == IF Has(ts, inst.of)
                      THEN CreateRemapped(start, layer, num, inst, ts[inst.of].params, t.params, fr, h)
                      ELSE Failed
  IN  [i \in DOMAIN t.body |-> Passed(t.body[i])]

\* Mutant: what was numbered below the body is not counted.
GatheredHere(counter, made) == counter
\* The counter behind what a body numbered; skipped instances number nothing.
Gathered(counter, made) ==
  Highest({counter} \cup {made[i].counter : i \in {j \in DOMAIN made : ~made[j].skip}})

---------------------------------------------------------------------------
(* Triples.                                                                *)

Term(m, v)  == IF IsNull(v) THEN Null ELSE [k |-> "term", type |-> m.of, v |-> v.v]
IriTerm(v)  == [k |-> "term", type |-> "IRI", v |-> v]
RdfFirst    == IriTerm(<<"rdf:first">>)
RdfRest     == IriTerm(<<"rdf:rest">>)
RdfNil      == IriTerm(<<"rdf:nil">>)

\* A node of the i-th kind of list, in row n, at a position.
ListNode(i, n, pos) == [k |-> "term", type |-> "Blank", v |-> <<"l", i, n, pos>>]

\* The position of a node counts the items before it that are not null.
CreateListTriples(i, n, m, items) ==
  LET Node(j) == ListNode(i, n, Cardinality({a \in 1..j : ~IsNull(items[a])}) - 1)
  IN  {<<Node(j), RdfFirst, Term(m, items[j])>> : j \in DOMAIN items}
      \cup {<<Node(j), RdfRest, IF j = Len(items) THEN RdfNil ELSE Node(j + 1)>> : j \in DOMAIN items}

\* A list becomes its first node, whether or not it has one.
CreateTriples(i, counter, fr) ==
  LET dummy == IF DOMAIN fr.dyn = {} /\ fr.rows = <<>> THEN <<[n \in {} |-> Null]>> ELSE fr.rows
      moved == DOMAIN fr.static \ {"predicate"}
      dyn   == [n \in moved \cup DOMAIN fr.dyn |-> IF n \in moved THEN TypeOf(fr.static[n]) ELSE fr.dyn[n]]
      Of(n, r) == IF n \in moved THEN ValueOf(fr.static[n]) ELSE dummy[r][n]
      Node(n, k, r) ==
        IF dyn[n].k = "Nested" THEN ListNode(k, counter + r - 1, 0) ELSE Term(dyn[n], Of(n, r))
      Predicate(r) == IF Has(fr.static, "predicate") THEN IriTerm(fr.static["predicate"].v)
                      ELSE LET v == dummy[r]["predicate"] IN IF IsNull(v) THEN Null ELSE IriTerm(v.v)
      Lists(n, k) == IF dyn[n].k # "Nested" THEN {}
                     ELSE UNION {CreateListTriples(k, counter + r - 1, dyn[n].of, Items(Of(n, r))) : r \in DOMAIN dummy}
      Deep(n)     == dyn[n].k = "Nested" /\ dyn[n].of.k = "Nested"
  IN  IF \/ Has(fr.static, "predicate") /\ fr.static["predicate"].k # "iri"
         \/ \E n \in moved : HasBlankNode(fr.static[n]) \/ ~Consistent(fr.static[n])
         \/ ~({"subject", "object"} \subseteq DOMAIN dyn)
         \/ ~Has(fr.static, "predicate") /\ ~Has(dyn, "predicate")
         \/ Deep("subject") \/ Deep("object")
      THEN Failed
      ELSE [ok |-> TRUE,
            triples |-> {<<Node("subject", i, r), Predicate(r), Node("object", i + 1, r)>> : r \in DOMAIN dummy}
                        \cup Lists("subject", i) \cup Lists("object", i + 1),
            counter |-> counter + IF "Nested" \in {dyn["subject"].k, dyn["object"].k} THEN Len(dummy) ELSE 0]

\* Rows with a null are dropped when they are stored.
ProcessResults(frames, counter) ==
  LET made == [i \in DOMAIN frames |-> CreateTriples(2 * (i - 1), counter, frames[i])]
  IN  IF \E i \in DOMAIN made : ~made[i].ok THEN Failed
      ELSE [ok |-> TRUE, counter |-> Highest({counter} \cup {made[i].counter : i \in DOMAIN made}),
            triples |-> {t \in UNION {made[i].triples : i \in DOMAIN made} : Null \notin {t[1], t[2], t[3]}}]
=============================================================================
