------------------------------- MODULE Engine -------------------------------
(***************************************************************************)
(* The evaluation of graph patterns: solutions so far go into a pattern    *)
(* and come out joined with it.  An environment is the dataset, the graph  *)
(* that is queried, and a name under which new columns are unique.         *)
(***************************************************************************)
EXTENDS Scans, Expressions

---------------------------------------------------------------------------
(* The order in which the triple patterns of a block and the elements of a *)
(* group are evaluated: what is connected to the solutions so far comes    *)
(* first, and what needs a cross join or all predicates comes last.        *)

TripleCols(t) == (NodeCols(t.s) \cup NodeCols(t.p)) \cup NodeCols(t.o)

---------------------------------------------------------------------------
(* Triple patterns.                                                        *)

\* known are the variables whose values are known.
StrictlyBefore(a, b, visited, known) ==
  LET Connected(t) == TripleCols(t) \cap visited # {}
      IsVar(t)     == t.p.k = "var"
      Valued(t)    == t.p.n \in known
      Visited(t)   == t.p.n \in visited
  IN  CASE Connected(a) # Connected(b) -> Connected(a)
        [] Connected(a) = Connected(b) /\ IsVar(a) # IsVar(b) -> IsVar(b)
        [] Connected(a) = Connected(b) /\ ~IsVar(a) /\ ~IsVar(b) -> FALSE
        [] OTHER -> IF Valued(a) # Valued(b) THEN Valued(a) ELSE Visited(a) /\ ~Visited(b)

\* The first of the best.
BestTriple(ts, visited, known) ==
  FoldLeft(LAMBDA i, j : IF StrictlyBefore(ts[j], ts[i], visited, known) THEN j ELSE i,
           1, [j \in DOMAIN ts |-> j])

RECURSIVE OrderTriplePatterns(_, _, _)
OrderTriplePatterns(ts, visited, known) ==
  IF ts = <<>> THEN <<>>
  ELSE LET best == BestTriple(ts, visited, known)
       IN  <<ts[best]>> \o
           OrderTriplePatterns(RemoveAt(ts, best), visited \cup TripleCols(ts[best]), known)

---------------------------------------------------------------------------
(* Elements of a group.  A cost is a number of cross joins and a number of *)
(* variable predicates.  The columns that come in are All or Only(cols).   *)

Cost(crosses, predicates) == [crosses |-> crosses, predicates |-> predicates]
Plus(a, b)  == Cost(a.crosses + b.crosses, a.predicates + b.predicates)
Less(a, b)  == a.crosses < b.crosses \/ (a.crosses = b.crosses /\ a.predicates < b.predicates)
Properties(cost, cols)  == [cost |-> cost, cols |-> cols]
Incoming(incoming, cols)    == Only(incoming.set \cup cols)
Disconnected(incoming, cols) == incoming.on /\ incoming.set \cap cols = {}

RECURSIVE CrossesOf(_, _, _)
\* The triple patterns one by one, a connected one if there is one.
CrossesOf(ts, cols, incoming) ==
  IF ts = <<>> THEN 0
  ELSE LET joined == {i \in DOMAIN ts : TripleCols(ts[i]) \cap (cols \cup incoming.set) # {}}
           next   == IF joined = {} THEN Len(ts) ELSE Min(joined)
           cross  == joined = {} /\ (incoming.on \/ cols # {})
       IN  (IF cross THEN 1 ELSE 0) + CrossesOf(RemoveAt(ts, next), cols \cup TripleCols(ts[next]), incoming)

RECURSIVE BadProperties(_, _)

\* Both orders of a nested join; the right side first on a tie.
BadJoin(p, incoming) ==
  LET Order(first, second) ==
        LET Pair(one, two) == Properties(Plus(one.cost, two.cost), one.cols \cup two.cols)
            Then(one) == Pair(one, BadProperties(second, Incoming(incoming, one.cols)))
        IN  Then(BadProperties(first, incoming))
      Better(left, right) == IF Less(left.cost, right.cost) THEN left ELSE right
  IN  Better(Order(p.l, p.r), Order(p.r, p.l))

BadBoth(l, r, cols) == Properties(Plus(l.cost, r.cost), cols)

BadProperties(p, incoming) ==
  LET Of(q) == BadProperties(q, incoming)
      Leaf(cols, out) == Properties(Cost(IF Disconnected(incoming, cols) THEN 1 ELSE 0, 0), out)
  IN  CASE p.op = "bgp" ->
             Properties(Cost(CrossesOf(p.ts, {}, incoming),
                             Cardinality({i \in DOMAIN p.ts : p.ts[i].p.k = "var"})),
                        incoming.set \cup UNION {TripleCols(t) : t \in ToSet(p.ts)})
        [] p.op = "path"     -> LET cols == NodeCols(p.s) \cup NodeCols(p.o) IN Leaf(cols, cols)
        [] p.op = "values"   -> Leaf(ToSet(p.vs), ToSet(p.vs) \cup incoming.set)
        [] p.op = "join"     -> BadJoin(p, incoming)
        [] p.op = "leftjoin" -> LET r == BadProperties(p.r, All) IN BadBoth(Of(p.l), r, Of(p.l).cols \cup r.cols)
        [] p.op = "union"    -> BadBoth(Of(p.l), Of(p.r), Of(p.l).cols \cup Of(p.r).cols)
        [] p.op = "minus"    -> BadBoth(Of(p.l), Of(p.r), Of(p.l).cols)
        [] p.op = "project"  -> Properties(BadProperties(p.p, All).cost, ToSet(p.vs))
        [] p.op = "group"    -> Properties(BadProperties(p.p, All).cost, ToSet(p.vs) \cup {a.v : a \in ToSet(p.aggs)})
        [] p.op = "extend"   -> Properties(Of(p.p).cost, Of(p.p).cols \cup {p.v})
        [] OTHER             -> Of(p.p)

RECURSIVE FlattenJoin(_)
FlattenJoin(p) == IF p.op = "join" THEN FlattenJoin(p.l) \o FlattenJoin(p.r) ELSE <<p>>

RECURSIVE CostOf(_, _)
\* The elements in this order, each after those before it.
CostOf(gps, incoming) ==
  IF gps = <<>> THEN Cost(0, 0)
  ELSE LET Then(first) == Plus(first.cost, CostOf(Tail(gps), Incoming(incoming, first.cols)))
       IN  Then(BadProperties(Head(gps), incoming))

\* The first in the order of the text of those with the least cost; the code
\* finds one of them with a heap.
TakenIn(gps, order) == [i \in DOMAIN gps |-> gps[order[i]]]
Cheapest(costs) ==
  LET best == {s \in DOMAIN costs : \A t \in DOMAIN costs : ~Less(costs[t], costs[s])}
      Before(s, t) == \E k \in DOMAIN s : s[k] < t[k] /\ \A j \in 1..(k - 1) : s[j] = t[j]
  IN  CHOOSE s \in best : \A t \in best \ {s} : Before(s, t)
OrderGraphPatterns(gps, incoming) ==
  TakenIn(gps, Cheapest([s \in SetToSeqs(DOMAIN gps) |-> CostOf(TakenIn(gps, s), incoming)]))

---------------------------------------------------------------------------
(* Environments and inputs.                                                *)

Env(ds, g)       == [ds |-> ds, g |-> g, name |-> "x"]
Inside(env, w)   == [env EXCEPT !.name = @ \o w]
UnitTable        == Table(NoColumns, <<NoColumns>>, 1)
InputCols(input) == IF IsInput(input) THEN Only(Cols(input)) ELSE All
Joined(input, tab) == IF IsInput(input) THEN JoinTables(input, tab, "inner")
                      ELSE IF input.ok THEN tab ELSE Failed

RECURSIVE LazyGraphPattern(_, _, _, _), LazyExpression(_, _, _, _)

---------------------------------------------------------------------------
(* Blocks, joins, unions.                                                  *)

\* Every triple pattern adds what its input says to what is known.
RECURSIVE ScanAll(_, _, _, _)
ScanAll(env, ts, tab, pd) ==
  IF ts = <<>> THEN tab
  ELSE ScanAll(env, Tail(ts), LazyTriplePattern(env.ds, env.g, tab, Head(ts), pd), KnownFrom(pd, tab))
LazyBgp(env, p, input, pd) ==
  LET InOrder(known) ==
        ScanAll(env, OrderTriplePatterns(p.ts, InputCols(input).set, DOMAIN known.vals), input, known)
  IN  IF p.ts = <<>> THEN (IF IsInput(input) THEN input ELSE UnitTable)
      ELSE InOrder(AddPatterns(pd, p.ts))

LazyJoin(env, p, input, pd) ==
  FoldLeft(LAMBDA tab, q : LazyGraphPattern(env, q, tab, pd), input,
           OrderGraphPatterns(FlattenJoin(p), InputCols(input)))

LazyUnion(env, p, input, pd) ==
  UnionTables(LazyGraphPattern(env, p.l, input, AddPattern1(pd, p.l)),
              LazyGraphPattern(env, p.r, input, AddPattern1(pd, p.r)))

\* Nothing of the left side is known on the right side of MINUS.
LazyMinus(env, p, input, pd) ==
  MinusTables(LazyGraphPattern(env, p.l, input, pd), LazyGraphPattern(env, p.r, input, NoPushdowns))

LazyValues(p, input) ==
  LET values == ValuesTable(p.vs, p.rows) IN Joined(input, values)

---------------------------------------------------------------------------
(* Filters and values computed.                                            *)

\* The pushdowns reach a pattern in an expression.
ForExpression(e, pd) == IF HasPattern(e) THEN pd ELSE NoPushdowns

\* Only rows that are true are kept; the column must be of booleans.
FilterTable(tab, c) ==
  IF ~tab.ok \/ ~c.ok THEN Failed
  ELSE IF ~IsNone(c) /\ ~IsBoolean(c) THEN Failed
  ELSE [tab EXCEPT !.rows =
          LET kept == SelectSeq([i \in DOMAIN @ |-> i], LAMBDA i : c.vals[i] = Bool(TRUE))
          IN  [k \in DOMAIN kept |-> @[kept[k]]]]

LazyFilter(env, p, input, pd) ==
  LET Kept(tab) == FilterTable(tab, LazyExpression(env, p.e, tab, ForExpression(p.e, pd)))
  IN  Kept(LazyGraphPattern(env, p.p, input, pd))

\* The right side is evaluated and filtered on its own.
LazyLeftJoin(env, p, input, pd) ==
  LET known == AddPattern1(pd, p.r)
      push  == IF p.e = NoExpr THEN known ELSE AddFilter(known, p.e, AnyVars)
      Kept(right) == IF p.e = NoExpr THEN right
                     ELSE FilterTable(right, LazyExpression(env, p.e, right, ForExpression(p.e, push)))
  IN  JoinTables(LazyGraphPattern(env, p.l, input, pd), Kept(LazyGraphPattern(env, p.r, NoInput, push)), "left")

\* A variable that has a column already is compared with it.
ExtendTable(tab, v, c) ==
  IF ~tab.ok \/ ~c.ok THEN Failed
  ELSE IF v \in Cols(tab) THEN FilterTable(tab, TypedEquals(VariableColumn(tab, v), c))
  ELSE WithColumn(tab, v, c.types, c.vals)

LazyExtend(env, p, input, pd) ==
  LET known == RemoveVariable(pd, p.v)
      With(tab) == ExtendTable(tab, p.v, LazyExpression(env, p.e, tab, ForExpression(p.e, known)))
  IN  With(LazyGraphPattern(env, p.p, input, known))

---------------------------------------------------------------------------
(* Solution modifiers.                                                     *)

LazyProject(env, p, input, pd) ==
  LET known == AddPattern1(LimitToVariables(pd, ToSet(p.vs)), p.p)
      Chosen(tab) == IF tab.ok THEN ProjectTable(tab, p.vs, FALSE) ELSE Failed
  IN  Joined(input, Chosen(LazyGraphPattern(env, p.p, NoInput, known)))

\* The columns sorted by stay known, with their types, after they are dropped.
LazyOrderBy(env, p, input, pd) ==
  LET Sorted(tab, keys) ==
        IF ~tab.ok \/ \E k \in DOMAIN keys : ~keys[k].ok THEN Failed
        ELSE [tab EXCEPT !.rows = SortRows(@, [i \in DOMAIN @ |-> [k \in DOMAIN keys |-> keys[k].vals[i]]],
                                           [k \in DOMAIN keys |-> p.keys[k].desc])]
      ByKeys(tab) == Sorted(tab, [k \in DOMAIN p.keys |-> LazyExpression(env, p.keys[k].e, tab, NoPushdowns)])
  IN  ByKeys(LazyGraphPattern(env, p.p, input, pd))

OnRows(tab, F(_)) == IF tab.ok THEN [tab EXCEPT !.rows = F(@)] ELSE Failed
LazyReduced(env, p, input, pd) ==
  OnRows(LazyGraphPattern(env, p.p, input, pd), LAMBDA rows : SubSeq(rows, 1, Min({1, Len(rows)})))
LazySlice(env, p, input, pd) ==
  LET Slice1(tab) == IF tab.ok THEN SliceTable(tab, p.from, p.len) ELSE Failed
  IN  Slice1(LazyGraphPattern(env, p.p, input, pd))
LazyDistinct(env, p, input, pd) ==
  LET Unique(tab) == IF tab.ok THEN DistinctTable(tab) ELSE Failed
  IN  Unique(LazyGraphPattern(env, p.p, input, pd))

---------------------------------------------------------------------------
(* Groups.                                                                 *)

\* The value of an aggregate in a group of rows (by number).
NumbersOf(vals) == SelectSeq(vals, LAMBDA x : x # Null)
Aggregated(a, vals, group) ==
  LET some == NumbersOf(vals)
      used == IF a.distinct THEN AsSeq(ToSet(some)) ELSE some
      Sum(s) == FoldLeft(LAMBDA n, x : n + x.n, 0, s)
  IN  CASE a.f = "count"  -> Num(IF a.distinct THEN Cardinality(ToSet(vals)) ELSE Len(some))
        [] a.f = "sample" -> Head(vals)
        [] a.f = "sum"    -> Term(group, Sum(used))
        [] a.f = "min"    -> IF some = <<>> THEN Null ELSE Term(group, Min({x.n : x \in ToSet(some)}))
        [] a.f = "max"    -> IF some = <<>> THEN Null ELSE Term(group, Max({x.n : x \in ToSet(some)}))

\* COUNT(*) counts the rows that bind something; its DISTINCT is not there.
CountSolutions(rows, is) == Num(Cardinality({i \in is : \E c \in DOMAIN rows[i] : rows[i][c] # Null}))

CountsIn(p) == {a.v : a \in {b \in ToSet(p.aggs) : b.f = "count"}}
\* With a count among the aggregates there is a row even if there is no group.
NoGroups(p, types) ==
  Table(types, IF CountsIn(p) = {} THEN <<>>
               ELSE <<[c \in DOMAIN types |-> IF c \in CountsIn(p) THEN Num(0) ELSE Null]>>, 1)

GroupTable(p, tab, columns) ==
  LET keys      == ToSet(p.vs)
      KeyOf(i)  == [v \in keys |-> tab.rows[i][v]]
      groups    == AsSeq({KeyOf(i) : i \in DOMAIN tab.rows})
      In(key)   == SelectSeq([i \in DOMAIN tab.rows |-> i], LAMBDA i : KeyOf(i) = key)
      TypeOf(k) == CASE p.aggs[k].f = "count" -> {"integer"}
                     [] p.aggs[k].f # "count" /\ IsBoolean(columns[k]) -> {"integer"}
                     [] OTHER -> columns[k].types
      Value(k, key) ==
        IF p.aggs[k].e = NoExpr THEN CountSolutions(tab.rows, ToSet(In(key)))
        ELSE Aggregated(p.aggs[k], [i \in DOMAIN In(key) |-> columns[k].vals[In(key)[i]]],
                        CHOOSE ty \in TypeOf(k) : TRUE)
      At(v)     == CHOOSE k \in DOMAIN p.aggs : p.aggs[k].v = v
      types     == [c \in keys \cup {a.v : a \in ToSet(p.aggs)} |->
                      IF c \in keys THEN tab.types[c] ELSE TypeOf(At(c))]
      rows      == [g \in DOMAIN groups |->
                      [c \in DOMAIN types |-> IF c \in keys THEN groups[g][c] ELSE Value(At(c), groups[g])]]
  IN  IF groups = <<>> THEN NoGroups(p, types) ELSE Table(types, rows, tab.h)

\* Group keys must be columns; other aggregates take columns of one type, and
\* COUNT(*) needs a column to look at.
LazyGroup(env, p, input, pd) ==
  LET Aggregand(tab, a) == IF a.e = NoExpr THEN NoneColumn(Len(tab.rows)) ELSE LazyExpression(env, a.e, tab, NoPushdowns)
      Broken(tab, a, column) ==
        \/ ~column.ok
        \/ a.e = NoExpr /\ (a.distinct \/ Cols(tab) = {})
        \/ a.f \in {"sum", "min", "max"} /\ \A ty \in NumberTypes : column.types # {ty}
      Grouped(tab, columns) == IF \E k \in DOMAIN p.aggs : Broken(tab, p.aggs[k], columns[k]) THEN Failed
                               ELSE Joined(input, GroupTable(p, tab, columns))
      Groups(tab) ==
        IF ~tab.ok THEN Failed
        ELSE IF ~(ToSet(p.vs) \subseteq Cols(tab)) THEN Failed
        ELSE Grouped(tab, [k \in DOMAIN p.aggs |-> Aggregand(tab, p.aggs[k])])
  IN  Groups(LazyGraphPattern(env, p.p, NoInput, AddPattern1(LimitToVariables(pd, ToSet(p.vs)), p.p)))

---------------------------------------------------------------------------
(* Property paths.                                                         *)

RECURSIVE NeedSparseMatrix(_)
NeedSparseMatrix(path) ==
  CASE path.op = "iri" -> FALSE
    [] path.op = "reverse" -> NeedSparseMatrix(path.a)
    [] path.op \in {"seq", "alt"} -> NeedSparseMatrix(path.a) \/ NeedSparseMatrix(path.b)
    [] OTHER -> TRUE

RECURSIVE CreateGraphPattern(_, _, _, _), HasNegation(_)
HasNegation(path) ==
  CASE path.op = "not" -> TRUE
    [] path.op = "iri" -> FALSE
    [] path.op \in {"seq", "alt"} -> HasNegation(path.a) \/ HasNegation(path.b)
    [] OTHER -> HasNegation(path.a)
\* name keeps the nodes between the steps of a sequence apart.
CreateGraphPattern(path, s, o, name) ==
  LET between == Var(name)
  IN  CASE path.op = "iri"     -> Bgp(<<Triple(s, Const(Iri(path.n)), o)>>)
        [] path.op = "reverse" -> CreateGraphPattern(path.a, o, s, name)
        [] path.op = "seq"     -> Join(CreateGraphPattern(path.a, s, between, name \o "l"),
                                       CreateGraphPattern(path.b, between, o, name \o "r"))
        [] path.op = "alt"     -> Union(CreateGraphPattern(path.a, s, o, name \o "l"),
                                        CreateGraphPattern(path.b, s, o, name \o "r"))

\* Duplicates are removed while the nodes between are still there.
PathAsPattern(env, p, input, pd) ==
  LET With(tab) == IF IsInput(input) THEN JoinTables(tab, input, "inner") ELSE tab
      Ends(tab) == IF tab.ok THEN With(DropColumns(tab, Cols(tab) \ (NodeCols(p.s) \cup NodeCols(p.o)))) ELSE Failed
  IN  Ends(LazyGraphPattern(Inside(env, "p"),
             Distinct(CreateGraphPattern(p.path, p.s, p.o, env.name \o "m")), NoInput, pd))

\* The triples of the predicates of a path, as pairs of terms.
RECURSIVE PathPredicates(_)
PathPredicates(path) ==
  CASE path.op = "iri" -> {Iri(path.n)}
    [] path.op \in {"seq", "alt"} -> PathPredicates(path.a) \cup PathPredicates(path.b)
    [] OTHER -> PathPredicates(path.a)
PairsOf(env, pred) ==
  IF env.g \notin DOMAIN env.ds THEN {}
  ELSE {<<t[1], t[3]>> : t \in {u \in env.ds[env.g].asserted \cup env.ds[env.g].transient : u[2] = pred}}
Nodes(env, path) ==
  LET pairs == UNION {PairsOf(env, pred) : pred \in PathPredicates(path)}
  IN  {pr[1] : pr \in pairs} \cup {pr[2] : pr \in pairs}

Composed(a, b) == {<<xy[1][1], xy[2][2]>> : xy \in {q \in a \X b : q[1][2] = q[2][1]}}
Eye(nodes) == {<<n, n>> : n \in nodes}
RECURSIVE OneOrMore(_), ZeroOrMore(_)
OneOrMore(r)  == LET next == r \cup Composed(r, r) IN IF next = r THEN r ELSE OneOrMore(next)
ZeroOrMore(r) == LET next == Composed(r, r) IN IF next = r THEN r ELSE ZeroOrMore(next)

\* eye: whether every node is related to itself.
RECURSIVE SparsePath(_, _, _)
SparsePath(env, path, nodes) ==
  LET a == SparsePath(env, path.a, nodes)
      b == SparsePath(env, path.b, nodes)
      R(pairs, eye) == [pairs |-> pairs, eye |-> eye]
  IN  CASE path.op = "iri"     -> R(PairsOf(env, Iri(path.n)), FALSE)
        [] path.op = "reverse" -> R({<<x[2], x[1]>> : x \in a.pairs}, a.eye)
        [] path.op = "seq"     -> R(UNION {Composed(a.pairs, b.pairs), IF a.eye THEN b.pairs ELSE {},
                                           IF b.eye THEN a.pairs ELSE {}}, a.eye /\ b.eye)
        [] path.op = "alt"     -> R(a.pairs \cup b.pairs, a.eye \/ b.eye)
        [] path.op = "many"    -> R(ZeroOrMore(a.pairs \cup Eye(nodes)), TRUE)
        [] path.op = "some"    -> R(OneOrMore(a.pairs), a.eye)
        [] path.op = "maybe"   -> R(a.pairs \cup Eye(nodes), TRUE)

\* The pairs become a table: constants select, and a column of several types
\* keeps those that are in it.  A constant of a type that no node has is
\* outside this model, and so are two columns of one name, which is an error.
PathAsMatrix(env, p, input) ==
  LET nodes    == Nodes(env, p.path)
      types    == {n.type : n \in nodes}
      pairs    == SparsePath(env, p.path, nodes).pairs
      Wrong(nd) == nd.k = "term" /\ types # {} /\ nd.t.type \notin types
      Ok(nd, x)   == nd.k = "term" => x = nd.t
      kept     == AsSeq({x \in pairs : Ok(p.s, x[1]) /\ Ok(p.o, x[2])})
      Actual(i) == CASE types = {} -> NoneType
                     [] types # {} /\ ~Multi(types) -> types
                     [] OTHER -> {x[i].type : x \in pairs}
      cols     == NodeCols(p.s) \cup NodeCols(p.o)
      tab      == Table([c \in cols |-> IF c = Name(p.s) THEN Actual(1) ELSE Actual(2)],
                        [i \in DOMAIN kept |-> [c \in cols |-> IF c = Name(p.s) THEN kept[i][1] ELSE kept[i][2]]],
                        Len(kept))
  IN  IF Wrong(p.s) \/ Wrong(p.o) \/ SameName(p.s, p.o) THEN Failed
      ELSE IF IsInput(input) THEN JoinTables(tab, input, "inner") ELSE tab

LazyPath(env, p, input, pd) ==
  IF HasNegation(p.path) THEN Failed                    \* not supported
  ELSE IF NeedSparseMatrix(p.path) THEN PathAsMatrix(env, p, input)
  ELSE PathAsPattern(env, p, input, pd)

---------------------------------------------------------------------------
(* A GRAPH clause with a variable is not supported.                        *)
LazyGraph(env, p, input, pd) ==
  IF p.g.k = "term" THEN LazyGraphPattern([env EXCEPT !.g = p.g.t], p.p, input, pd) ELSE Failed

LazyGraphPattern(env, p, input, pd) ==
  IF ~input.ok THEN Failed
  ELSE CASE p.op = "bgp"      -> LazyBgp(env, p, input, pd)
         [] p.op = "path"     -> LazyPath(env, p, input, pd)
         [] p.op = "join"     -> LazyJoin(env, p, input, pd)
         [] p.op = "leftjoin" -> LazyLeftJoin(env, p, input, pd)
         [] p.op = "filter"   -> LazyFilter(env, p, input, pd)
         [] p.op = "union"    -> LazyUnion(env, p, input, pd)
         [] p.op = "graph"    -> LazyGraph(env, p, input, pd)
         [] p.op = "extend"   -> LazyExtend(env, p, input, pd)
         [] p.op = "minus"    -> LazyMinus(env, p, input, pd)
         [] p.op = "values"   -> LazyValues(p, input)
         [] p.op = "orderby"  -> LazyOrderBy(env, p, input, pd)
         [] p.op = "project"  -> LazyProject(env, p, input, pd)
         [] p.op = "distinct" -> LazyDistinct(env, p, input, pd)
         [] p.op = "reduced"  -> LazyReduced(env, p, input, pd)
         [] p.op = "slice"    -> LazySlice(env, p, input, pd)
         [] p.op = "group"    -> LazyGroup(env, p, input, pd)
         [] p.op = "error"    -> Failed

---------------------------------------------------------------------------
(* Expressions.  EXISTS numbers the rows, evaluates its pattern on them,   *)
(* and is true of those whose number comes back.                           *)

Exists(env, p, tab, pd) ==
  LET index   == "#" \o env.name
      indexed == WithColumn(tab, index, {"integer"}, [i \in DOMAIN tab.rows |-> Num(i)])
      Found(f) == IF ~f.ok THEN Failed
                  ELSE Booleans([i \in DOMAIN tab.rows |-> Bool(\E r \in ToSet(f.rows) : r[index] = Num(i))])
  IN  Found(LazyGraphPattern(Inside(env, "e"), p, indexed, pd))

OnArguments(e, cs) == IF \E i \in DOMAIN cs : ~cs[i].ok THEN Failed ELSE Operation(e, cs)

LazyExpression(env, e, tab, pd) ==
  IF ~tab.ok THEN Failed
  ELSE CASE e.op = "var"    -> VariableColumn(tab, e.v)
         [] e.op = "bound"  -> BoundColumn(tab, e.v)
         [] e.op = "const"  -> Constant(e.t, Len(tab.rows))
         [] e.op = "exists" -> Exists(env, e.p, tab, pd)
         [] OTHER -> OnArguments(e, [i \in DOMAIN e.args |-> LazyExpression(env, e.args[i], tab, pd)])

---------------------------------------------------------------------------
(* A query: the pattern after rewriting, on the graph of the query.        *)

QueryParsed(ds, g, pattern) == LazyGraphPattern(Env(ds, g), pattern, NoInput, NoPushdowns)
=============================================================================
