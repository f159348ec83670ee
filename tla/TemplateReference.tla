------------------------- MODULE TemplateReference -------------------------
(***************************************************************************)
(* What the instances of a template stand for, one row of a table and one  *)
(* instance at a time.  A blank node belongs to one instance of the        *)
(* template it is written in, and is named by the way there.               *)
(***************************************************************************)
EXTENDS Mappings, TemplateTypes

\* A value with its column type; what no column or constant gives is absent.
Typed(m, v) == [m |-> m, v |-> v]
Absent      == Typed([k |-> "absent"], Null)

BlankOf(tag, path) == Typed(Flat("Blank"), Raw(tag \o path))

Given(a, b, path) ==
  CASE a.t.k = "var" -> IF Has(b, a.t.n) THEN b[a.t.n] ELSE Absent
    [] a.t.k = "const" /\ a.t.c.k = "bnode" -> BlankOf(<<a.t.c.v>>, path)
    [] OTHER -> Typed(ConstMct(a.t.c), ConstValue(a.t.c))

\* Which items a list expander picks: all combinations, or those in step.
Picks(inst, vals) ==
  LET es   == {i \in DOMAIN vals : inst.args[i].expand}
      n(i) == Len(Items(vals[i].v))
      all  == {f \in [es -> 1..Highest({n(i) : i \in es} \cup {0})] : \A i \in es : f[i] <= n(i)}
  IN  CASE inst.expander = "none" \/ es = {} -> {<<>>}
        [] inst.expander = "cross" /\ es # {} -> all
        [] OTHER -> {f \in all : \A i, j \in es : f[i] = f[j]}
Picked(vals, f) ==
  [i \in DOMAIN vals |-> IF Has(f, i) /\ vals[i] # Absent THEN Typed(vals[i].m.of, Items(vals[i].v)[f[i]]) ELSE vals[i]]

RefTerm(val)  == Term(val.m, val.v)
\* A list is its first node, and the nodes behind it.
RefList(val, tag, path) ==
  LET node(j) == RefTerm(BlankOf(<<"list", tag, j>>, path))
      its     == val.v.items
  IN  [head |-> node(1),
       triples |-> UNION {{<<node(j), RdfFirst, Term(val.m.of, its[j])>>,
                           <<node(j), RdfRest, IF j = Len(its) THEN RdfNil ELSE node(j + 1)>>} : j \in DOMAIN its}]

PlainList(val) == /\ ~IsNull(val.v) /\ val.v.items # <<>>
                  /\ \A i \in DOMAIN val.v.items : ~IsNull(val.v.items[i])

BaseTriples(b, path) ==
  LET s == b["subject"]
      o == b["object"]
      End(val, tag) == IF val.m.k = "Nested" /\ PlainList(val) THEN RefList(val, tag, path)
                       ELSE [head |-> RefTerm(val), triples |-> {}]
      complete == ~IsNull(s.v) /\ ~IsNull(b["predicate"].v) /\ ~IsNull(o.v)
  IN  [triples |-> IF ~complete THEN {}
                   ELSE {<<End(s, 1).head, IriTerm(b["predicate"].v.v), End(o, 2).head>>}
                        \cup End(s, 1).triples \cup End(o, 2).triples,
       plain |-> \A val \in {s, o} : val.m.k = "Nested" => PlainList(val)]

Union2(rs) == [triples |-> UNION {r.triples : r \in rs}, plain |-> \A r \in rs : r.plain]

\* One instance of the template "name" with its parameters bound.  An instance
\* that lacks a required argument stands for nothing.  Not plain: a null of a
\* column as a required argument or one with a default, and lists with gaps.
RECURSIVE Instances(_, _, _, _)
Instances(ts, name, b, path) ==
  LET t == ts[name]
      OfInstance(i, f) ==
        LET inst   == t.body[i]
            params == ts[inst.of].params
            here   == [j \in DOMAIN inst.args |-> Given(inst.args[j], b, path)]
            vals   == Picked(here, f)
            val(j) == IF IsNull(vals[j].v) /\ params[j].default # NoDefault
                      THEN Typed(ConstMct(params[j].default), ConstValue(params[j].default)) ELSE vals[j]
            gaps   == {j \in DOMAIN vals : IsNull(vals[j].v) /\ (~params[j].optional \/ params[j].default # NoDefault)}
            plain  == inst.of = OttrTriple \/ \A j \in gaps : vals[j] = Absent
            stop   == inst.of # OttrTriple /\ \E j \in DOMAIN vals : ~params[j].optional /\ IsNull(val(j).v)
            way    == path \o <<i>> \o [k \in 1..Cardinality(DOMAIN f) |-> f[SetToSortSeq(DOMAIN f, <)[k]]]
            r      == IF stop THEN [triples |-> {}, plain |-> TRUE]
                      ELSE Instances(ts, inst.of, [n \in {params[j].v : j \in DOMAIN vals} |->
                                                     val(CHOOSE j \in DOMAIN vals : params[j].v = n)], way)
        IN  [r EXCEPT !.plain = @ /\ plain]
      All(i) == Picks(t.body[i], [j \in DOMAIN t.body[i].args |-> Given(t.body[i].args[j], b, path)])
  IN  IF name = OttrTriple THEN BaseTriples(b, path)
      ELSE Union2(UNION {{OfInstance(i, f) : f \in All(i)} : i \in DOMAIN t.body})

\* A mapped table is an instance for every row.
RefMap(ts, name, table, valid) ==
  LET params == ts[name].params
      Bound(r) == [n \in {params[i].v : i \in DOMAIN params} |->
                     LET p == params[CHOOSE i \in DOMAIN params : params[i].v = n]
                         v == IF Has(valid.dyn, n) THEN Typed(valid.dyn[n], valid.rows[r][n]) ELSE Absent
                     IN  IF IsNull(v.v) /\ p.default # NoDefault
                         THEN Typed(ConstMct(p.default), ConstValue(p.default)) ELSE v]
  IN  IF table = NoTable THEN Instances(ts, name, [n \in {} |-> Absent], <<0>>)
      ELSE Union2({Instances(ts, name, Bound(r), <<r>>) : r \in DOMAIN valid.rows})

---------------------------------------------------------------------------
(* Where a blank node is written: the ways from the mapped template.       *)

RECURSIVE Ways(_, _, _)
Ways(ts, name, path) ==
  {<<path, {a.t.c.v : a \in {b \in UNION {ToSet(ts[name].body[i].args) : i \in DOMAIN ts[name].body} :
                               b.t.k = "const" /\ b.t.c.k = "bnode"}}>>}
  \cup UNION {Ways(ts, ts[name].body[i].of, Append(path, i)) : i \in DOMAIN ts[name].body}

\* Two calls at one depth, with the same position in the bodies they are
\* written in, and with a label in common, share their blank nodes.
Apart(ts, name) ==
  LET ways == Ways(ts, name, <<>>)
  IN  \A v, w \in ways : v # w /\ Len(v[1]) = Len(w[1]) /\ Last(v[1]) = Last(w[1]) => v[2] \cap w[2] = {}

---------------------------------------------------------------------------
(* Equality up to the names of blank nodes.                                *)

Ends(t)      == {t[1], t[2], t[3]}
BlanksOf(ts) == {x \in UNION {Ends(t) : t \in ts} : x.type = "Blank"}
SameUpToNames(a, b) ==
  LET left  == BlanksOf(a)
      right == BlanksOf(b)
      Moved(f, x) == IF x \in left THEN f[x] ELSE x
  IN  /\ Cardinality(a) = Cardinality(b)
      /\ Cardinality(left) = Cardinality(right)
      /\ \E f \in {g \in [left -> right] : \A x, y \in left : x # y => g[x] # g[y]} :
           {<<Moved(f, t[1]), t[2], Moved(f, t[3])>> : t \in a} = b

---------------------------------------------------------------------------
(* Properties.                                                             *)

\* What a mapping stores is what its template stands for, row by row and
\* instance by instance, up to the names of blank nodes: renaming columns,
\* filling defaults, skipping instances, exploding lists and numbering blank
\* nodes, layer by layer and for all rows at once, come to the same (_expand,
\* create_remapped, create_triples).  Said of plain rows, and of templates
\* whose blank nodes the naming scheme can tell apart.
TriplesAsInstances ==
  last.k = "map" =>
    LET Matches(ref) == ref.plain /\ Apart(last.ts, last.name) => SameUpToNames(ref.triples, last.triples)
  IN  Matches(RefMap(last.ts, last.name, last.table, last.valid))
=============================================================================
