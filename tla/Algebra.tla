------------------------------ MODULE Algebra ------------------------------
(***************************************************************************)
(* The SPARQL algebra of spargebra: terms, triple patterns, property       *)
(* paths, expressions, graph patterns and updates, and the triples that a  *)
(* template makes of the solutions of a pattern.  Terms are a kind and a   *)
(* number: string literals are runs of one letter, so their number is      *)
(* their length; the two kinds of numbers are xsd:integer and xsd:short.   *)
(* A blank node of a query is a node with a label of its own, which joins  *)
(* like a variable but is in no scope.                                     *)
(***************************************************************************)
EXTENDS Integers, FiniteSets, SequencesExt, TLC

\* The elements of a set in some order; SetToSeq would look for it among all
\* functions.
AsSeq(S) == FoldSet(LAMBDA x, s : Append(s, x), <<>>, S)

---------------------------------------------------------------------------
(* Terms and nodes. *)

Term(ty, n) == [type |-> ty, n |-> n]
Iri(n)      == Term("iri", n)
Blank(n)    == Term("blank", n)
Num(n)      == Term("integer", n)
Str(n)      == Term("string", n)
Bool(b)     == Term("boolean", IF b THEN 1 ELSE 0)
Null        == Term("none", 0)           \* no value: an unbound variable or an error

NumberTypes  == {"integer", "short"}
LiteralTypes == NumberTypes \cup {"string", "boolean"}
AllTypes     == {"iri", "blank"} \cup LiteralTypes

Var(v)   == [k |-> "var", n |-> v]
Const(t) == [k |-> "term", t |-> t]
Label(l) == [k |-> "bnode", n |-> l]

\* The column a node gets in a table, if any: variables and blank nodes.
NodeCols(nd) == IF nd.k = "term" THEN {} ELSE {nd.n}
NodeVars(nd) == IF nd.k = "var" THEN {nd.n} ELSE {}

Triple(s, p, o) == [s |-> s, p |-> p, o |-> o]
TripleVars(t)   == NodeVars(t.s) \cup NodeVars(t.p) \cup NodeVars(t.o)

---------------------------------------------------------------------------
(* Property paths. *)

PathIri(n)     == [op |-> "iri", n |-> n]
PathReverse(a) == [op |-> "reverse", a |-> a]
PathSeq(a, b)  == [op |-> "seq", a |-> a, b |-> b]
PathAlt(a, b)  == [op |-> "alt", a |-> a, b |-> b]
PathMany(a)    == [op |-> "many", a |-> a]
PathSome(a)    == [op |-> "some", a |-> a]
PathMaybe(a)   == [op |-> "maybe", a |-> a]
PathNot(ns)    == [op |-> "not", ns |-> ns]

---------------------------------------------------------------------------
(* Expressions: a leaf, EXISTS, or an operation on arguments.  IN has the  *)
(* value first and the list after it; a function call has its name in f.   *)

Ex(op, args)  == [op |-> op, args |-> args]
ExVar(v)      == [op |-> "var", v |-> v]
ExConst(t)    == [op |-> "const", t |-> t]
ExBound(v)    == [op |-> "bound", v |-> v]
ExExists(p)   == [op |-> "exists", p |-> p]
ExCall(f, as) == [op |-> "call", f |-> f, args |-> as]
NoExpr        == [op |-> "none"]

ExArgs(e) == IF e.op \in {"var", "const", "bound", "exists", "none"}
             THEN <<>> ELSE e.args

---------------------------------------------------------------------------
(* Graph patterns. *)

Bgp(ts)             == [op |-> "bgp", ts |-> ts]
PathOf(s, path, o)  == [op |-> "path", s |-> s, path |-> path, o |-> o]
Join(l, r)          == [op |-> "join", l |-> l, r |-> r]
LeftJoin(l, r, e)   == [op |-> "leftjoin", l |-> l, r |-> r, e |-> e]
Filter(e, p)        == [op |-> "filter", e |-> e, p |-> p]
Union(l, r)         == [op |-> "union", l |-> l, r |-> r]
Graph(g, p)         == [op |-> "graph", g |-> g, p |-> p]
Extend(p, v, e)     == [op |-> "extend", p |-> p, v |-> v, e |-> e]
Minus(l, r)         == [op |-> "minus", l |-> l, r |-> r]
Values(vs, rows)    == [op |-> "values", vs |-> vs, rows |-> rows]
OrderBy(p, keys)    == [op |-> "orderby", p |-> p, keys |-> keys]
Project(p, vs)      == [op |-> "project", p |-> p, vs |-> vs]
Distinct(p)         == [op |-> "distinct", p |-> p]
Reduced(p)          == [op |-> "reduced", p |-> p]
Slice(p, from, len) == [op |-> "slice", p |-> p, from |-> from, len |-> len]
Group(p, vs, as)    == [op |-> "group", p |-> p, vs |-> vs, aggs |-> as]

NoLimit      == 1000000
Key(e, desc) == [e |-> e, desc |-> desc]                 \* OrderExpression
Agg(v, f, e, distinct) ==                                \* e = NoExpr: COUNT(*)
  [v |-> v, f |-> f, e |-> e, distinct |-> distinct]

TwoSided == {"join", "leftjoin", "union", "minus"}
Leaves   == {"bgp", "path", "values", "error"}      \* error: a refused text
Children(p) == IF p.op \in TwoSided THEN <<p.l, p.r>>
               ELSE IF p.op \in Leaves THEN <<>> ELSE <<p.p>>

WithChildren(p, cs) ==
  IF p.op \in TwoSided THEN [p EXCEPT !.l = cs[1], !.r = cs[2]]
  ELSE IF p.op \in Leaves THEN p ELSE [p EXCEPT !.p = cs[1]]

---------------------------------------------------------------------------
(* Updates.  A quad has a graph: a node, or Const(DefaultGraph).           *)

DefaultGraph == Iri(900)
Quad(t, g)   == [t |-> t, g |-> g]
InDefault(t) == Quad(t, Const(DefaultGraph))
NoUsing      == <<>>

DeleteInsert(del, ins, using, p) ==
  [op |-> "deleteinsert", delete |-> del, insert |-> ins, using |-> using, p |-> p]
InsertData(quads) == [op |-> "insertdata", quads |-> quads]
DeleteData(quads) == [op |-> "deletedata", quads |-> quads]
Drop(g)           == [op |-> "drop", g |-> g]
Clear(g)          == [op |-> "clear", g |-> g]

---------------------------------------------------------------------------
(* Templates: the quads of an update, or of a CONSTRUCT query.             *)

MintedBlank(n) == Blank(100 + n)

\* As the code collects them: the graph of a template may be no variable.
TemplateVars(quads) == UNION {TripleVars(q.t) : q \in ToSet(quads)}
TemplateLabels(quads) ==
  UNION {NodeCols(nd) : nd \in {n \in UNION {{q.t.s, q.t.o} : q \in ToSet(quads)} : n.k = "bnode"}}

\* One new blank node per row for every label of the whole template.
Numbering(S) == CHOOSE at \in [S -> 1..Cardinality(S)] : \A l, m \in S : at[l] = at[m] => l = m
MintBlankNodes(rows, quads, next) ==
  LET labels == TemplateLabels(quads)
      New(l, i) == MintedBlank(next + (i - 1) * Cardinality(labels) + Numbering(labels)[l])
  IN  [i \in DOMAIN rows |->
         [c \in labels \cup DOMAIN rows[i] |-> IF c \in labels THEN New(c, i) ELSE rows[i][c]]]
NewBlanks(rows, quads) == Len(rows) * Cardinality(TemplateLabels(quads))

TermPattern(nd, row) == IF nd.k = "term" THEN nd.t ELSE row[nd.n]
\* A subject that is a literal is no subject; a row with a null is no triple.
QuadTriples(quad, rows) ==
  LET Of(row) == <<TermPattern(quad.t.s, row), TermPattern(quad.t.p, row), TermPattern(quad.t.o, row)>>
  IN  {t \in {Of(rows[i]) : i \in DOMAIN rows} :
         t[1].type \in {"iri", "blank"} /\ t[2].type = "iri" /\ t[3] # Null}

\* The triples of the quads of each graph that has any.
TemplateToSolutions(rows, quads) ==
  LET Of(g) == UNION {QuadTriples(q, rows) : q \in {r \in ToSet(quads) : r.g.t = g}}
      gs    == {q.g.t : q \in ToSet(quads)}
  IN  [g \in {h \in gs : Of(h) # {}} |-> Of(g)]

\* The same for one graph, quad by quad.
TemplateBatches(rows, quads, g) ==
  [i \in DOMAIN quads |-> IF quads[i].g.t = g THEN QuadTriples(quads[i], rows) ELSE {}]

\* A graph may be no variable (todo!).  A variable predicate that is a literal
\* is left out of the requests: it is refused or misread by its types.
BadGraph(quads) == \E q \in ToSet(quads) : q.g.k # "term"

\* LOAD, CLEAR, CREATE and DROP do nothing.
Ignored == {"load", "clear", "create", "drop"}
\* INSERT DATA, DELETE DATA and USING are not implemented: the call panics.
Unimplemented(op) == op.op \in {"insertdata", "deletedata"} \/ (op.op = "deleteinsert" /\ op.using # NoUsing)
\* What the pattern of an operation is asked for.
Wanted(op) == Project(op.p, AsSeq(TemplateVars(op.delete \o op.insert)))
=============================================================================
