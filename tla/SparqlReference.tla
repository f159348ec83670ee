-------------------------- MODULE SparqlReference --------------------------
(***************************************************************************)
(* What a query means by the SPARQL 1.1 recommendation: the abstract       *)
(* specification that the evaluation is compared with.  A solution is a    *)
(* partial function from variables to terms, an answer is a bag of them,   *)
(* kept as a sequence.  A dataset maps graph names to sets of triples.     *)
(***************************************************************************)
EXTENDS Sparql, FiniteSetsExt, TLC

Cross(A, B, Merge(_, _)) ==
  [i \in 1..(Len(A) * Len(B)) |->
     Merge(A[((i - 1) \div Len(B)) + 1], B[((i - 1) % Len(B)) + 1])]
MergedWith(a, b) == b @@ a
Agree(a, b)      == \A v \in DOMAIN a \cap DOMAIN b : a[v] = b[v]
NoSolution       == [v \in {} |-> Null]
Restricted(m, V) == [v \in DOMAIN m \cap V |-> m[v]]

CountOf(x, s)  == Cardinality({i \in DOMAIN s : s[i] = x})
SameBag(s, t)  == Len(s) = Len(t) /\ \A x \in ToSet(s) : CountOf(x, s) = CountOf(x, t)
BagWithin(s, t)   == \A x \in ToSet(s) : CountOf(x, s) <= CountOf(x, t)
DistinctSeq(s) == FoldLeft(LAMBDA d, x : IF Contains(d, x) THEN d ELSE Append(d, x), <<>>, s)

---------------------------------------------------------------------------
(* Matching.  Blank nodes of a pattern match like variables; their labels  *)
(* are taken out of the answer at the end of the whole pattern.            *)

\* The solution that maps the nodes of a pattern to the terms, if there is one.
BindNodes(nodes, terms) ==
  LET cols == UNION {NodeCols(nodes[i]) : i \in DOMAIN nodes}
      ok   == \A i \in DOMAIN nodes :
                /\ nodes[i].k = "term" => nodes[i].t = terms[i]
                /\ \A j \in DOMAIN nodes :
                     (NodeCols(nodes[i]) = NodeCols(nodes[j]) /\ nodes[i].k # "term")
                       => terms[i] = terms[j]
  IN  IF ~ok THEN {}
      ELSE {[c \in cols |-> terms[CHOOSE i \in DOMAIN nodes : c \in NodeCols(nodes[i])]]}

MatchTriple(t, G) ==
  UNION {BindNodes(<<t.s, t.p, t.o>>, <<x[1], x[2], x[3]>>) : x \in G}

NodesOf(G) == {x[1] : x \in G} \cup {x[3] : x \in G}
Compose(A, B) == {<<ab[1][1], ab[2][2]>> : ab \in {xy \in A \X B : xy[1][2] = xy[2][1]}}

RECURSIVE Closure(_, _)
Closure(R, step) == LET next == R \cup Compose(R, step)
                    IN  IF next = R THEN R ELSE Closure(next, step)

RECURSIVE PathPairs(_, _, _)
\* The pairs that a path joins, a bag; more are the ends a path of length
\* zero may have besides the nodes of the graph.
PathPairs(p, G, more) ==
  LET Pairs(S)  == AsSeq(S)
      Of(q)     == PathPairs(q, G, more)
      Same      == {<<x, x>> : x \in NodesOf(G) \cup more}
  IN  CASE p.op = "iri"     -> Pairs({<<x[1], x[3]>> : x \in {y \in G : y[2] = Iri(p.n)}})
        [] p.op = "not"     -> [i \in 1..Cardinality({y \in G : y[2].n \notin ToSet(p.ns)}) |->
                                 LET xs == AsSeq({y \in G : y[2].n \notin ToSet(p.ns)})
                                 IN  <<xs[i][1], xs[i][3]>>]
        [] p.op = "reverse" -> [i \in DOMAIN Of(p.a) |-> <<Of(p.a)[i][2], Of(p.a)[i][1]>>]
        [] p.op = "alt"     -> Of(p.a) \o Of(p.b)
        [] p.op = "seq"     ->
             LET both == SelectSeq(Cross(Of(p.a), Of(p.b), LAMBDA a, b : <<a, b>>),
                                   LAMBDA ab : ab[1][2] = ab[2][1])
             IN  [i \in DOMAIN both |-> <<both[i][1][1], both[i][2][2]>>]
        [] p.op = "maybe"   -> Pairs(ToSet(Of(p.a)) \cup Same)
        [] p.op = "some"    -> Pairs(Closure(ToSet(Of(p.a)), ToSet(Of(p.a))))
        [] p.op = "many"    -> Pairs(Closure(Same, ToSet(Of(p.a))))

---------------------------------------------------------------------------
(* Values of expressions; Null is the error.                               *)

IsNumber(t) == t.type \in NumberTypes
EffectiveBool(t) ==
  CASE t.type = "boolean" -> t
    [] IsNumber(t) \/ t.type = "string" -> Bool(t.n # 0)
    [] OTHER -> Null
True3(t)  == t = Bool(TRUE)
False3(t) == t = Bool(FALSE)

EqualTerms(a, b) ==
  CASE a = Null \/ b = Null -> Null
    [] a # Null /\ b # Null /\ IsNumber(a) /\ IsNumber(b) -> Bool(a.n = b.n)
    [] OTHER -> Bool(a = b)
CompareTerms(op, a, b) ==
  IF (IsNumber(a) /\ IsNumber(b)) \/ (a.type = b.type /\ a.type \in {"string", "boolean"})
  THEN Bool(CASE op = "gt" -> a.n > b.n [] op = "ge" -> a.n >= b.n
              [] op = "lt" -> a.n < b.n [] op = "le" -> a.n <= b.n)
  ELSE Null
Calculate(op, a, b) ==
  IF ~(IsNumber(a) /\ IsNumber(b)) THEN Null
  ELSE Num(CASE op = "add" -> a.n + b.n [] op = "sub" -> a.n - b.n [] op = "mul" -> a.n * b.n)
Or3(a, b)  == CASE True3(a) \/ True3(b) -> Bool(TRUE)
                [] False3(a) /\ False3(b) -> Bool(FALSE)
                [] OTHER -> Null
Not3(a)    == IF a = Null THEN Null ELSE Bool(False3(a))
And3(a, b) == Not3(Or3(Not3(a), Not3(b)))

CallOf(f, args) ==
  CASE f = "isiri"     -> IF args[1] = Null THEN Null ELSE Bool(args[1].type = "iri")
    [] f = "isblank"   -> IF args[1] = Null THEN Null ELSE Bool(args[1].type = "blank")
    [] f = "isliteral" -> IF args[1] = Null THEN Null ELSE Bool(args[1].type \in LiteralTypes)
    [] f = "strlen"    -> IF args[1].type = "string" THEN Num(args[1].n) ELSE Null
    [] f = "contains"  -> IF args[1].type = "string" /\ args[2].type = "string"
                          THEN Bool(args[1].n >= args[2].n) ELSE Null
    [] f = "concat"    -> IF \A i \in DOMAIN args : args[i].type = "string"
                          THEN Str(FoldLeft(LAMBDA n, a : n + a.n, 0, args)) ELSE Null
    [] f = "decode"    -> args[1]                \* a function of this engine

RECURSIVE Eval(_, _, _), ValueOf(_, _, _, _), Joined(_, _, _, _)

\* The solutions of a pattern that agree with one solution: EXISTS.
Joined(p, m, ds, G) == SelectSeq(Eval(p, ds, G), LAMBDA x : Agree(m, x))

ValueOf(e, m, ds, G) ==
  LET V(i) == ValueOf(e.args[i], m, ds, G)
  IN  CASE e.op = "var"    -> IF e.v \in DOMAIN m THEN m[e.v] ELSE Null
        [] e.op = "const"  -> e.t
        [] e.op = "bound"  -> Bool(e.v \in DOMAIN m)
        [] e.op = "exists" -> Bool(Joined(e.p, m, ds, G) # <<>>)
        [] e.op = "or"     -> Or3(EffectiveBool(V(1)), EffectiveBool(V(2)))
        [] e.op = "and"    -> And3(EffectiveBool(V(1)), EffectiveBool(V(2)))
        [] e.op = "not"    -> Not3(EffectiveBool(V(1)))
        [] e.op = "eq"     -> EqualTerms(V(1), V(2))
        [] e.op = "same"   -> IF V(1) = Null \/ V(2) = Null THEN Null ELSE Bool(V(1) = V(2))
        [] e.op \in {"gt", "ge", "lt", "le"} -> CompareTerms(e.op, V(1), V(2))
        [] e.op = "in"     ->
             FoldLeft(LAMBDA r, i : Or3(r, EqualTerms(V(1), V(i))), Bool(FALSE),
                      [i \in 1..(Len(e.args) - 1) |-> i + 1])
        [] e.op \in {"add", "sub", "mul"} -> Calculate(e.op, V(1), V(2))
        [] e.op = "uplus"  -> V(1)
        [] e.op = "uminus" -> IF IsNumber(V(1)) THEN Num(0 - V(1).n) ELSE Null
        [] e.op = "if"     -> LET c == EffectiveBool(V(1))
                              IN  IF c = Null THEN Null ELSE IF True3(c) THEN V(2) ELSE V(3)
        [] e.op = "coalesce" ->
             FoldLeft(LAMBDA r, i : IF r = Null THEN V(i) ELSE r, Null, [i \in DOMAIN e.args |-> i])
        [] e.op = "call"   -> CallOf(e.f, [i \in DOMAIN e.args |-> V(i)])

AggregateOf(a, rows, ds, G) ==
  LET vals == IF a.e = NoExpr THEN rows
              ELSE SelectSeq([i \in DOMAIN rows |-> ValueOf(a.e, rows[i], ds, G)], LAMBDA t : t # Null)
      used == IF a.distinct THEN DistinctSeq(vals) ELSE vals
      ns   == [i \in DOMAIN used |-> used[i].n]
  IN  CASE a.f = "count" -> Num(Len(used))
        [] a.f = "sum"   -> Num(FoldLeft(LAMBDA x, y : x + y, 0, ns))
        [] a.f \in {"min", "max"} /\ used = <<>> -> Null
        [] a.f = "min" /\ used # <<>> -> used[CHOOSE i \in DOMAIN ns : \A j \in DOMAIN ns : ns[i] <= ns[j]]
        [] a.f = "max" /\ used # <<>> -> used[CHOOSE i \in DOMAIN ns : \A j \in DOMAIN ns : ns[i] >= ns[j]]
Defined(m) == Restricted(m, {v \in DOMAIN m : m[v] # Null})

Rank(t) == CASE t.type = "none" -> 0 [] t.type = "blank" -> 1 [] t.type = "iri" -> 2 [] OTHER -> 3
TermLess(a, b) == Rank(a) < Rank(b) \/ (Rank(a) = Rank(b) /\ a.n < b.n)

\* A stable sort by keys; Ks[i] are the keys of the i-th solution.
SortedBy(rows, Ks, descs) ==
  LET Before(i, j) ==
        LET ks == {k \in DOMAIN descs : Ks[i][k] # Ks[j][k]}
        IN  IF ks = {} THEN i < j
            ELSE LET k == Min(ks)
                 IN  IF descs[k] THEN TermLess(Ks[j][k], Ks[i][k]) ELSE TermLess(Ks[i][k], Ks[j][k])
      order == SortSeq([i \in DOMAIN rows |-> i], Before)
  IN  [i \in DOMAIN rows |-> rows[order[i]]]

---------------------------------------------------------------------------
(* Solutions of patterns.                                                  *)

JoinBags(A, B) ==
  LET pairs == SelectSeq(Cross(A, B, LAMBDA a, b : <<a, b>>), LAMBDA ab : Agree(ab[1], ab[2]))
  IN  [i \in DOMAIN pairs |-> MergedWith(pairs[i][1], pairs[i][2])]

MatchBgp(ts, G) ==
  FoldLeft(LAMBDA sols, t : JoinBags(sols, AsSeq(MatchTriple(t, G))), <<NoSolution>>, ts)
MatchPath(p, G) ==
  LET ends == {nd.t : nd \in {x \in {p.s, p.o} : x.k = "term"}}
      prs  == PathPairs(p.path, G, ends)
  IN  FlattenSeq([i \in DOMAIN prs |-> AsSeq(BindNodes(<<p.s, p.o>>, prs[i]))])

Holds(e, m, ds, G) == True3(EffectiveBool(ValueOf(e, m, ds, G)))

OptionalRows(a, B, e, ds, G) ==
  LET found == SelectSeq(JoinBags(<<a>>, B), LAMBDA m : e = NoExpr \/ Holds(e, m, ds, G))
  IN  IF found = <<>> THEN <<a>> ELSE found

GroupRows(p, rows, ds, G) ==
  LET KeyOf(m) == Restricted(m, ToSet(p.vs))
      keys     == IF p.vs = <<>> THEN <<NoSolution>>
                  ELSE DistinctSeq([i \in DOMAIN rows |-> KeyOf(rows[i])])
  IN  [i \in DOMAIN keys |->
        LET mine == SelectSeq(rows, LAMBDA m : KeyOf(m) = keys[i])
            vs   == {a.v : a \in ToSet(p.aggs)}
        IN  MergedWith(keys[i], Defined([v \in vs |->
              AggregateOf(CHOOSE a \in ToSet(p.aggs) : a.v = v, mine, ds, G)]))]

Eval(p, ds, G) ==
  LET Inner == Eval(p.p, ds, G)
      Left  == Eval(p.l, ds, G)
      Right == Eval(p.r, ds, G)
  IN  CASE p.op = "bgp"      -> MatchBgp(p.ts, G)
        [] p.op = "path"     -> MatchPath(p, G)
        [] p.op = "join"     -> JoinBags(Left, Right)
        [] p.op = "leftjoin" ->
             LET B == Right IN LET A == Left
             IN  FlattenSeq([i \in DOMAIN A |-> OptionalRows(A[i], B, p.e, ds, G)])
        [] p.op = "filter"   -> SelectSeq(Inner, LAMBDA m : Holds(p.e, m, ds, G))
        [] p.op = "union"    -> Left \o Right
        [] p.op = "graph"    -> IF p.g.t \in DOMAIN ds THEN Eval(p.p, ds, ds[p.g.t]) ELSE <<>>
        [] p.op = "extend"   ->
             LET A == Inner
             IN  [i \in DOMAIN A |-> MergedWith(A[i], Defined([v \in {p.v} |-> ValueOf(p.e, A[i], ds, G)]))]
        [] p.op = "minus"    ->
             LET B == Right
             IN  SelectSeq(Left, LAMBDA m : \A x \in ToSet(B) :
                             DOMAIN m \cap DOMAIN x = {} \/ ~Agree(m, x))
        [] p.op = "values"   ->
             [i \in DOMAIN p.rows |-> Defined([v \in ToSet(p.vs) |->
                p.rows[i][CHOOSE j \in DOMAIN p.vs : p.vs[j] = v]])]
        [] p.op = "orderby"  ->
             LET A == Inner
             IN  SortedBy(A, [i \in DOMAIN A |-> [k \in DOMAIN p.keys |-> ValueOf(p.keys[k].e, A[i], ds, G)]],
                          [k \in DOMAIN p.keys |-> p.keys[k].desc])
        [] p.op = "project"  -> LET A == Inner IN [i \in DOMAIN A |-> Restricted(A[i], ToSet(p.vs))]
        [] p.op \in {"distinct", "reduced"} -> DistinctSeq(Inner)
        [] p.op = "slice"    -> LET A == Inner
                                IN  SubSeq(A, p.from + 1, Min({Len(A), p.from + p.len}))
        [] p.op = "group"    -> GroupRows(p, Inner, ds, G)
=============================================================================
