---------------------------- MODULE SparqlParser ----------------------------
(***************************************************************************)
(* From the text of a query to its algebra, as the grammar of spargebra    *)
(* does it.  Text is a tree of tokens: an expression is a sequence of      *)
(* tokens, a group a sequence of items, and the labels that the parser     *)
(* draws at random (of blank nodes and of aggregates) come with the text.  *)
(***************************************************************************)
EXTENDS Sparql, TLC

Wrong == [op |-> "error"]                \* the text is refused

---------------------------------------------------------------------------
(* The text of expressions. *)

Leaf(e)        == [tok |-> "leaf", e |-> e]           \* variable, literal, IRI
Op(o)          == [tok |-> "op", o |-> o]
Paren(ts)      == [tok |-> "paren", ts |-> ts]
Call(f, args)  == [tok |-> "call", f |-> f, args |-> args]   \* args: texts
ListOf(args)   == [tok |-> "list", args |-> args]
ExistsTok(g, not) == [tok |-> "exists", g |-> g, not |-> not]
AggTok(f, ts, distinct) ==                              \* ts = <<>>: COUNT(*)
  [tok |-> "agg", f |-> f, ts |-> ts, distinct |-> distinct]

IsOp(t, os)    == t.tok = "op" /\ t.o \in os
RelationOps    == {"=", "!=", ">", ">=", "<", "<=", "IN", "NOT IN"}
OpNames        == [o \in {"=", ">", ">=", "<", "<=", "+", "-", "*", "/"} |->
  CASE o = "=" -> "eq" [] o = ">" -> "gt" [] o = ">=" -> "ge" [] o = "<" -> "lt"
    [] o = "<=" -> "le" [] o = "+" -> "add" [] o = "-" -> "sub" [] o = "*" -> "mul"
    [] o = "/" -> "div"]

\* The first operator among os in a text that stands between two operands.
FirstBinary(ts, os) ==
  LET at == {i \in 2..Len(ts) : IsOp(ts[i], os) /\ ts[i - 1].tok # "op"}
  IN  IF at = {} THEN 0 ELSE CHOOSE i \in at : \A j \in at : i <= j
Before(ts, i) == SubSeq(ts, 1, i - 1)
After(ts, i)  == SubSeq(ts, i + 1, Len(ts))

RECURSIVE AggregatesIn(_)
\* The aggregates of a text, in the order they are met, each one once.
AggregatesIn(ts) ==
  FoldLeft(LAMBDA found, t :
    LET here == CASE t.tok = "agg" -> <<t>>
                  [] t.tok = "paren" -> AggregatesIn(t.ts)
                  [] t.tok \in {"call", "list"} -> FlattenSeq([i \in DOMAIN t.args |-> AggregatesIn(t.args[i])])
                  [] OTHER -> <<>>
    IN  found \o SelectSeq(here, LAMBDA a : ~Contains(found, a)), <<>>, ts)

---------------------------------------------------------------------------
(* The text of patterns: subjects with their properties, and the items of  *)
(* a group.  An object is a node, a list, or a blank node with properties. *)

Atom(nd)              == [y |-> "atom", n |-> nd]
Anon(label, props)    == [y |-> "anon", n |-> Label(label), props |-> props]
ListNode(labels, os)  == [y |-> "list", labels |-> labels, os |-> os]
Prop(verb, objects)   == [verb |-> verb, os |-> objects]
Verb(path)            == [v |-> "path", path |-> path]
VerbVar(v)            == [v |-> "var", n |-> v]
Subject(o, props)     == [o |-> o, props |-> props]

Block(ss)             == [i |-> "triples", ss |-> ss]
Optional(g)           == [i |-> "optional", g |-> g]
MinusItem(g)          == [i |-> "minus", g |-> g]
FilterItem(ts)        == [i |-> "filter", ts |-> ts]
BindItem(ts, v)       == [i |-> "bind", ts |-> ts, v |-> v]
Groups(gs)            == [i |-> "union", gs |-> gs]
GraphItem(nd, g)      == [i |-> "graph", n |-> nd, g |-> g]
ValuesItem(vs, rows)  == [i |-> "values", vs |-> vs, rows |-> rows]

Items(its)  == [select |-> FALSE, items |-> its]
Select(q)   == [select |-> TRUE, q |-> q]

\* A select query: option is "default", "distinct" or "reduced"; vars is
\* <<"star">>, <<"all">> (no projection: CONSTRUCT and ASK) or members.
Member(v, ts) == [v |-> v, ts |-> ts]                  \* ts = <<>>: only ?v
Query(id, option, vars, where) ==
  [id |-> id, option |-> option, vars |-> vars, where |-> where, grouped |-> FALSE,
   group |-> <<>>, having |-> <<>>, order |-> <<>>, from |-> 0, len |-> NoLimit,
   values |-> <<>>]
RdfFirst == Iri(901)
RdfRest  == Iri(902)
RdfNil   == Iri(903)

---------------------------------------------------------------------------
(* Triples and property paths. *)

\* A negated property set has direct and reversed members.
NegatedSet(direct, inverse) ==
  LET back == PathReverse(PathNot(inverse))
  IN  CASE inverse = <<>> -> PathNot(direct)
        [] inverse # <<>> /\ direct = <<>> -> back
        [] OTHER -> PathAlt(PathNot(direct), back)
PathAlternative(ps) == FoldLeft(PathAlt, Head(ps), Tail(ps))
PathSequence(ps)    == FoldLeft(PathSeq, Head(ps), Tail(ps))

PathPattern(s, path, o) == [t |-> FALSE, s |-> s, path |-> path, o |-> o]
TriplePattern(s, p, o)  == [t |-> TRUE, tr |-> Triple(s, p, o)]

RECURSIVE AddPattern(_, _, _)
\* A path that is one IRI is a triple, a reversed one swaps its ends.
AddPattern(s, verb, o) ==
  IF verb.v = "var" THEN TriplePattern(s, Var(verb.n), o)
  ELSE CASE verb.path.op = "iri" -> TriplePattern(s, Const(Iri(verb.path.n)), o)
         [] verb.path.op = "reverse" -> AddPattern(o, Verb(verb.path.a), s)
         [] OTHER -> PathPattern(s, verb.path, o)

RECURSIVE ReadNode(_), ReadProps(_, _)
\* The patterns that come with a node, and the node that stands for it: a
\* list is read from its end.
ReadNode(o) ==
  CASE o.y = "atom" -> [focus |-> o.n, ps |-> <<>>]
    [] o.y = "anon" -> [focus |-> o.n, ps |-> ReadProps(o.n, o.props)]
    [] o.y = "list" ->
       FoldRight(LAMBDA i, acc :
         LET cell == Label(o.labels[i])
             item == ReadNode(o.os[i])
         IN  [focus |-> cell,
              ps |-> acc.ps \o <<TriplePattern(cell, Const(RdfFirst), item.focus),
                                 TriplePattern(cell, Const(RdfRest), acc.focus)>> \o item.ps],
         [i \in DOMAIN o.os |-> i], [focus |-> Const(RdfNil), ps |-> <<>>])
\* The patterns of the objects come first, then the triples of the subject.
ReadProps(subject, props) ==
  LET read == [i \in DOMAIN props |-> [j \in DOMAIN props[i].os |-> ReadNode(props[i].os[j])]]
      ObjectsOf(i) == FlattenSeq([j \in DOMAIN read[i] |-> read[i][j].ps])
      TriplesOf(i) == [j \in DOMAIN read[i] |->
                         AddPattern(subject, props[i].verb, read[i][j].focus)]
  IN  FlattenSeq([i \in DOMAIN props |-> ObjectsOf(i)])
      \o FlattenSeq([i \in DOMAIN props |-> TriplesOf(i)])

TriplesSameSubjectPath(s) ==
  LET node == ReadNode(s.o) IN node.ps \o ReadProps(node.focus, s.props)
TriplesBlock(ss) == FlattenSeq([i \in DOMAIN ss |-> TriplesSameSubjectPath(ss[i])])

EmptyBgp == Bgp(<<>>)
NewJoin(l, r) ==
  CASE l = EmptyBgp -> r
    [] l # EmptyBgp /\ r = EmptyBgp -> l
    [] l # EmptyBgp /\ r # EmptyBgp /\ l.op = "bgp" /\ r.op = "bgp" -> Bgp(l.ts \o r.ts)
    [] OTHER -> Join(l, r)

\* Triples up to a path make one basic graph pattern.
BuildBgp(ps) ==
  LET Close(acc) == IF acc.ts = <<>> THEN acc.g ELSE NewJoin(acc.g, Bgp(acc.ts))
  IN  Close(FoldLeft(LAMBDA acc, p :
        IF p.t THEN [acc EXCEPT !.ts = Append(@, p.tr)]
        ELSE [g |-> NewJoin(Close(acc), PathOf(p.s, p.path, p.o)), ts |-> <<>>],
        [g |-> EmptyBgp, ts |-> <<>>], ps))

---------------------------------------------------------------------------
(* Expressions, groups and selections. *)

\* The value a SELECT gives to each of its aggregates.
AggVar(q, i) == q.id \o ToString(i)
QueryAggregates(q) ==
  LET texts == FlattenSeq([i \in DOMAIN q.vars |-> q.vars[i].ts])
               \o FlattenSeq([i \in DOMAIN q.group |-> q.group[i].ts])
               \o FlattenSeq(q.having)
               \o FlattenSeq([i \in DOMAIN q.order |-> q.order[i].ts])
  IN  AggregatesIn(texts)

\* Consecutive triples are one block.
MergeBlocks(items) ==
  FoldLeft(LAMBDA done, it :
    IF done # <<>> /\ Last(done).i = "triples" /\ it.i = "triples"
    THEN Append(Front(done), Block(Last(done).ss \o it.ss)) ELSE Append(done, it),
    <<>>, items)

AndAll(es) == FoldLeft(LAMBDA a, b : Ex("and", <<a, b>>), Head(es), Tail(es))

RECURSIVE AllBound(_, _)
\* Whether every variable of an expression of a SELECT has a value.
AllBound(e, vars) ==
  CASE e.op = "var" -> e.v \in vars
    [] e.op \in {"const", "bound", "coalesce", "exists"} -> TRUE
    [] OTHER -> \A a \in ToSet(ExArgs(e)) : AllBound(a, vars)

\* The rows of VALUES have as many terms as there are variables, all distinct.
DataBlock(vs, rows) ==
  IF Cardinality(ToSet(vs)) = Len(vs) /\ \A r \in ToSet(rows) : Len(r) = Len(vs)
  THEN Values(vs, rows) ELSE Wrong

\* The operator of an expression that is applied last.  || and && group to the
\* left, + - * / to the right.  No operator: 0.
TopOperator(ts) ==
  LET First(os) == FirstBinary(ts, os)
      LastOf(o) == CHOOSE i \in DOMAIN ts : /\ IsOp(ts[i], {o})
                                            /\ \A j \in i+1..Len(ts) : ~IsOp(ts[j], {o})
      levels    == <<{"||"}, {"&&"}, RelationOps, {"+", "-"}, {"*", "/"}>>
      used      == SelectSeq(<<1, 2, 3, 4, 5>>, LAMBDA l : First(levels[l]) > 0)
  IN  CASE used = <<>> -> 0
        [] used # <<>> /\ Head(used) = 1 -> LastOf("||")
        [] used # <<>> /\ Head(used) = 2 -> LastOf("&&")
        [] OTHER -> First(levels[Head(used)])

BinaryNames == [o \in {"||", "&&"} \cup DOMAIN OpNames |->
                  CASE o = "||" -> "or" [] o = "&&" -> "and" [] OTHER -> OpNames[o]]
Not(e)      == Ex("not", <<e>>)
Binary(o, left, right, list) ==
  CASE o = "!="     -> Not(Ex("eq", <<left, right>>))
    [] o = "IN"     -> Ex("in", <<left>> \o list)
    [] o = "NOT IN" -> Not(Ex("in", <<left>> \o list))
    [] OTHER        -> Ex(BinaryNames[o], <<left, right>>)
Called(f, args) == IF f \in {"if", "coalesce", "same"} THEN Ex(f, args) ELSE ExCall(f, args)

RECURSIVE ParseExpr(_, _), ParseGroup(_), AddItem(_, _), BuildSelect(_)

ParsePrimary(t, names) ==
  CASE t.tok = "leaf"   -> t.e
    [] t.tok = "paren"  -> ParseExpr(t.ts, names)
    [] t.tok = "agg"    -> IF t \in DOMAIN names THEN ExVar(names[t]) ELSE Wrong
    [] t.tok = "exists" -> LET Given(e) == IF t.not THEN Not(e) ELSE e
                           IN  Given(ExExists(ParseGroup(t.g)))
    [] t.tok = "call"   -> Called(t.f, [i \in DOMAIN t.args |-> ParseExpr(t.args[i], names)])
    [] OTHER -> Wrong

\* There is at most one comparison.
ParseExpr(ts, names) ==
  LET i     == TopOperator(ts)
      items == IF IsOp(ts[i], {"IN", "NOT IN"}) THEN ts[i + 1].args ELSE <<>>
      Unary == IF Len(ts) = 1 THEN "" ELSE ts[1].o
      Signed(e) == CASE Unary = ""  -> e
                     [] Unary = "!" -> Not(e)
                     [] Unary = "+" -> Ex("uplus", <<e>>)
                     [] Unary = "-" -> Ex("uminus", <<e>>)
  IN  CASE ts = <<>> -> Wrong
        [] ts # <<>> /\ i > 0 ->
             IF IsOp(ts[i], RelationOps) /\ FirstBinary(After(ts, i), RelationOps) > 0 THEN Wrong
             ELSE Binary(ts[i].o, ParseExpr(Before(ts, i), names), ParseExpr(After(ts, i), names),
                         [j \in DOMAIN items |-> ParseExpr(items[j], names)])
        [] OTHER -> IF Len(ts) = 1 \/ (Len(ts) = 2 /\ IsOp(ts[1], {"!", "+", "-"}))
                    THEN Signed(ParsePrimary(Last(ts), names)) ELSE Wrong
NoNames == [t \in {} |-> ""]

\* One more item of a group: acc has the pattern so far and the filters.
AddItem(acc, it) ==
  LET Grow(g)  == [acc EXCEPT !.g = g]
      Other(g) == Grow(NewJoin(acc.g, g))
      Left(p)  == IF p.op = "filter" THEN Grow(LeftJoin(acc.g, p.p, p.e)) ELSE Grow(LeftJoin(acc.g, p, NoExpr))
      Union1(gs) == FoldLeft(Union, Head(gs), Tail(gs))
      Expr     == ParseExpr(it.ts, NoNames)
      More(e)  == [acc EXCEPT !.f = IF @ = NoExpr THEN e ELSE Ex("and", <<@, e>>)]
  IN  CASE it.i = "triples"  -> Other(BuildBgp(TriplesBlock(it.ss)))
        [] it.i = "optional" -> Left(ParseGroup(it.g))
        [] it.i = "minus"    -> Grow(Minus(acc.g, ParseGroup(it.g)))
        [] it.i = "filter"   -> More(Expr)
        [] it.i = "bind"     -> Grow(IF it.v \in InScope(acc.g) THEN Wrong ELSE Extend(acc.g, it.v, Expr))
        [] it.i = "union"    -> Other(Union1([i \in DOMAIN it.gs |-> ParseGroup(it.gs[i])]))
        [] it.i = "graph"    -> Other(Graph(it.n, ParseGroup(it.g)))
        [] it.i = "values"   -> Other(DataBlock(it.vs, it.rows))

\* The filters of a group apply to the whole group, wherever they stand.
ParseGroup(g) ==
  LET Closed(acc) == IF acc.f = NoExpr THEN acc.g ELSE Filter(acc.f, acc.g)
  IN  IF g.select THEN BuildSelect(g.q)
      ELSE Closed(FoldLeft(AddItem, [g |-> EmptyBgp, f |-> NoExpr], MergeBlocks(g.items)))

Explicit(q) == q.vars # <<>> /\ q.vars[1].v \notin {"*", "all"}

\* The members of a SELECT that add a value: those the pattern binds come late.
ExtendMembers(p, q, names, vs) ==
  FoldLeft(LAMBDA g, m : IF m.ts # <<>> /\ m.v \in vs THEN Extend(g, m.v, ParseExpr(m.ts, names)) ELSE g,
           p, IF Explicit(q) THEN q.vars ELSE <<>>)

\* GROUP BY, VALUES, the expressions of the SELECT, HAVING, ORDER BY, the
\* projection, DISTINCT and LIMIT, in this order around the pattern.
SelectAround(q, where, found) ==
  LET names    == [t \in ToSet(found) |-> AggVar(q, CHOOSE i \in DOMAIN found : found[i] = t)]
      Expr(ts) == ParseExpr(ts, names)
      visible  == InScope(where)
      others   == {m.v : m \in ToSet(q.vars)} \ visible
      grouping == q.grouped \/ found # <<>>
      Aggregate(i) == Agg(AggVar(q, i), found[i].f, IF found[i].ts = <<>> THEN NoExpr ELSE Expr(found[i].ts),
                          found[i].distinct)
      Keyed(p) == FoldLeft(LAMBDA g, m : IF m.ts = <<>> THEN g ELSE Extend(g, m.v, Expr(m.ts)), p, q.group)
      Grouped(p) == IF grouping THEN Group(p, [i \in DOMAIN q.group |-> q.group[i].v],
                                           [i \in DOMAIN found |-> Aggregate(i)]) ELSE p
      Valued(p) == IF q.values = <<>> THEN p ELSE NewJoin(p, q.values[1])
      Having(p) == IF q.having = <<>> THEN p ELSE Filter(AndAll([i \in DOMAIN q.having |-> Expr(q.having[i])]), p)
      Refused(scope) ==
        LET Bad(m) == IF m.ts = <<>> THEN grouping /\ m.v \notin scope
                      ELSE m.v \in visible /\ (m.v \in scope \/ (grouping /\ ~AllBound(Expr(m.ts), scope)))
        IN  \/ Explicit(q) /\ \E i \in DOMAIN q.vars :
                 Bad(q.vars[i]) \/ \E j \in 1..i-1 : q.vars[j].v = q.vars[i].v
            \/ ~Explicit(q) /\ q.vars[1].v = "*" /\ grouping
      Ordered(p) == IF q.order = <<>> THEN p
                    ELSE OrderBy(p, [i \in DOMAIN q.order |-> Key(Expr(q.order[i].ts), q.order[i].desc)])
      Chosen(p) == CASE Explicit(q) -> Project(p, [i \in DOMAIN q.vars |-> q.vars[i].v])
                     [] ~Explicit(q) /\ q.vars[1].v = "*" -> Project(p, AsSeq(InScope(p)))
                     [] OTHER -> p
      Option(p) == CASE q.option = "distinct" -> Distinct(p)
                     [] q.option = "reduced"  -> Reduced(p)
                     [] OTHER -> p
      Sliced(p) == IF q.from > 0 \/ q.len < NoLimit THEN Slice(p, q.from, q.len) ELSE p
      Finished(p) == IF Refused(InScope(p)) THEN Wrong
                     ELSE Sliced(Option(Chosen(Ordered(ExtendMembers(p, q, names, visible)))))
  IN  Finished(Having(ExtendMembers(Valued(Grouped(Keyed(where))), q, names, others)))
BuildSelect(q) == SelectAround(q, ParseGroup(q.where), QueryAggregates(q))

RECURSIVE IsWrong(_), IsWrongExpr(_)
\* One refusal refuses the whole text.
IsWrong(p) == \/ p.op = "error"
              \/ p.op # "error" /\ \E c \in ToSet(Children(p)) : IsWrong(c)
              \/ p.op \in {"filter", "leftjoin", "extend"} /\ IsWrongExpr(p.e)
IsWrongExpr(e) == \/ e.op = "error"
                  \/ e.op = "exists" /\ IsWrong(e.p)
                  \/ e.op # "error" /\ \E a \in ToSet(ExArgs(e)) : IsWrongExpr(a)

---------------------------------------------------------------------------
(* Updates that are written as other updates.                              *)

InGraph(g, p) == IF g = Const(DefaultGraph) THEN p ELSE Graph(g, p)
CopyGraph(from, to) ==
  LET t == Triple(Var("s"), Var("p"), Var("o"))
  IN  DeleteInsert(<<>>, <<Quad(t, to)>>, NoUsing, InGraph(from, Bgp(<<t>>)))

\* ADD, COPY and MOVE become other updates, and nothing for a graph and itself.
AddGraph(from, to)  == IF from = to THEN <<>> ELSE <<CopyGraph(from, to)>>
Copy(from, to)      == IF from = to THEN <<>> ELSE <<Drop(to), CopyGraph(from, to)>>
Move(from, to)      == IF from = to THEN <<>> ELSE <<Drop(to), CopyGraph(from, to), Drop(from)>>

DeleteWhere(quads) ==
  LET parts == [i \in DOMAIN quads |-> InGraph(quads[i].g, Bgp(<<quads[i].t>>))]
  IN  <<DeleteInsert(quads, <<>>, NoUsing, FoldLeft(NewJoin, EmptyBgp, parts))>>

\* WITH g: g takes the place of the default graph in the templates, and is
\* the dataset of the pattern unless there is a USING.
Modify(with, del, ins, using, where) ==
  LET Put(q)  == IF with # NoUsing /\ q.g = Const(DefaultGraph)
                 THEN [q EXCEPT !.g = with[1]] ELSE q
      All(qs) == [i \in DOMAIN qs |-> Put(qs[i])]
  IN  <<DeleteInsert(All(del), All(ins), IF using = NoUsing THEN with ELSE using,
                     ParseGroup(where))>>
=============================================================================
