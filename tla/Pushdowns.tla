----------------------------- MODULE Pushdowns -----------------------------
(***************************************************************************)
(* What the evaluation already knows of the variables when it goes into a  *)
(* pattern: the values they may still have and the types they may still    *)
(* have.  A type constraint is kept as the set of types it allows.         *)
(***************************************************************************)
EXTENDS Tables

CheckSmallHeight == 10000     \* rows a table may have to be counted exactly
SmallHeight      == 500       \* rows a table may have to be used

NoPushdowns == [vals |-> [v \in {} |-> {}], types |-> [v \in {} |-> {}]]

\* The types that a literal constraint allows (is_literal_subtype).
Subtypes(ty) == CASE ty = "integer" -> NumberTypes
                  [] ty = "literal" -> LiteralTypes
                  [] ty = "real"    -> NumberTypes
                  [] OTHER -> {ty}

Without(f, v)  == [x \in DOMAIN f \ {v} |-> f[x]]
OnlyOn(f, V)   == [x \in DOMAIN f \cap V |-> f[x]]

RemoveVariable(pd, v)      == [vals |-> Without(pd.vals, v), types |-> Without(pd.types, v)]
LimitToVariables(pd, vars) == [vals |-> OnlyOn(pd.vals, vars), types |-> OnlyOn(pd.types, vars)]

\* Both sets of values hold.
Conjunction(l, r) ==
  [v \in DOMAIN l \cup DOMAIN r |->
     CASE v \in DOMAIN l \cap DOMAIN r -> l[v] \cap r[v]
       [] v \in DOMAIN l \ DOMAIN r -> l[v]
       [] OTHER -> r[v]]
\* A variable with constraints on both sides keeps neither.
ConjunctionTypes(l, r) ==
  [v \in (DOMAIN l \ DOMAIN r) \cup (DOMAIN r \ DOMAIN l) |-> IF v \in DOMAIN l THEN l[v] ELSE r[v]]
AndType(types, v, set) ==
  [x \in DOMAIN types \cup {v} |->
     CASE x = v /\ v \in DOMAIN types -> types[v] \cap set
       [] x = v /\ v \notin DOMAIN types -> set
       [] OTHER -> types[x]]
Compatible(pd, v, ty) == v \notin DOMAIN pd.types \/ ty \in pd.types[v]

\* The values of the columns of a table that is small enough.
AddFromSolutionMappings(pd, tab) ==
  LET cols == Cols(tab)
      news == \E c \in cols : c \notin DOMAIN pd.vals \/ Cardinality(pd.vals[c]) > tab.h
      here == [c \in cols |-> {tab.rows[i][c] : i \in DOMAIN tab.rows} \ {Null}]
  IN  IF news /\ tab.h <= CheckSmallHeight /\ Len(tab.rows) <= SmallHeight
      THEN [pd EXCEPT !.vals = Conjunction(@, here)] ELSE pd

\* Subjects and predicates are IRIs or blank nodes.
AddPatterns(pd, ts) ==
  FoldLeft(LAMBDA q, v : [q EXCEPT !.types = AndType(@, v, {"iri", "blank"})], pd,
           FlattenSeq([i \in DOMAIN ts |-> AsSeq(NodeVars(ts[i].s)) \o AsSeq(NodeVars(ts[i].p))]))

---------------------------------------------------------------------------
(* What a filter says of its variables; Nothing when it is not understood. *)

Nothing == [ok |-> FALSE]
Known(m) == [ok |-> TRUE, m |-> m]
\* The variables of both sides of an OR, or of an IF.
Either(l, r) ==
  IF l.ok /\ r.ok THEN Known([v \in DOMAIN l.m \cap DOMAIN r.m |-> l.m[v] \cup r.m[v]]) ELSE Nothing
Both(l, r, And(_, _)) == IF l.ok /\ r.ok THEN Known(And(l.m, r.m)) ELSE Nothing

IsConst(e) == e.op = "const"
RECURSIVE FindVariablePushdowns(_)
FindVariablePushdowns(e) ==
  LET On(i)        == FindVariablePushdowns(e.args[i])
      Value(x, t)  == IF IsConst(t) THEN Known([v \in {x.v} |-> {t.t}]) ELSE Nothing
  IN  CASE e.op = "if"  -> Either(On(2), On(3))
        [] e.op = "or"  -> Either(On(1), On(2))
        [] e.op = "and" -> Both(On(1), On(2), Conjunction)
        [] e.op = "eq"  -> CASE e.args[1].op = "var" -> Value(e.args[1], e.args[2])
                             [] e.args[1].op # "var" /\ e.args[2].op = "var" -> Value(e.args[2], e.args[1])
                             [] OTHER -> Nothing
        [] e.op = "in"  -> IF e.args[1].op = "var" /\ \A a \in ToSet(Tail(e.args)) : IsConst(a)
                           THEN Known([v \in {e.args[1].v} |-> {a.t : a \in ToSet(Tail(e.args))}])
                           ELSE Nothing
        [] OTHER -> Nothing

Comparisons == {"or", "and", "eq", "same", "gt", "ge", "lt", "le", "in", "not", "exists", "bound"}
\* The types an expression may have, {} when unknown (get_expression_rdf_type).
ExpressionTypes(e) ==
  CASE e.op = "const"         -> Subtypes(e.t.type)
    [] e.op \in Comparisons   -> {"boolean"}
    [] e.op \in {"add", "sub", "mul", "div", "uplus", "uminus"} -> Subtypes("real")
    [] e.op = "call" /\ e.f \in {"isiri", "isblank", "isliteral", "contains"} -> {"boolean"}
    [] e.op = "call" /\ e.f = "str" -> {"string"}
    [] OTHER -> {}

RECURSIVE FindTypeConstraints(_)
FindTypeConstraints(e) ==
  LET On(i)      == FindTypeConstraints(e.args[i])
      Type(x, y) == x.op = "var" /\ ExpressionTypes(y) # {}
      OneType(set) == IF Len(e.args) = 1 /\ e.args[1].op = "var"
                      THEN Known([v \in {e.args[1].v} |-> set]) ELSE Nothing
  IN  CASE e.op = "if"  -> Either(On(2), On(3))
        [] e.op = "or"  -> Either(On(1), On(2))
        [] e.op = "and" -> Both(On(1), On(2), ConjunctionTypes)
        [] e.op = "eq"  ->
             LET l == e.args[1] IN LET r == e.args[2]
             IN  CASE Type(l, r) -> Known([v \in {l.v} |-> ExpressionTypes(r)])
                   [] ~Type(l, r) /\ Type(r, l) -> Known([v \in {r.v} |-> ExpressionTypes(l)])
                   [] OTHER -> Nothing
        [] e.op = "call" /\ e.f = "isiri"     -> OneType({"iri"})
        [] e.op = "call" /\ e.f = "isblank"   -> OneType({"blank"})
        [] e.op = "call" /\ e.f = "isliteral" -> OneType(Subtypes("literal"))
        [] OTHER -> Nothing

\* Under a projection (only.on) it is the projected variables that are left out.
AddFilter(pd, e, only) ==
  LET vals  == FindVariablePushdowns(e)
      types == FindTypeConstraints(e)
      Kept(m) == IF only.on THEN [v \in DOMAIN m \ only.vars |-> m[v]] ELSE m
  IN  [vals  |-> IF vals.ok THEN Conjunction(pd.vals, Kept(vals.m)) ELSE pd.vals,
       types |-> IF types.ok THEN ConjunctionTypes(pd.types, Kept(types.m)) ELSE pd.types]

---------------------------------------------------------------------------
(* What a pattern says of its variables.                                   *)

AnyVars == [on |-> FALSE, vars |-> {}]

\* The terms of a column of VALUES are added to the values known before.
AddValues(pd, p, only) ==
  LET Terms(i) == {p.rows[r][i] : r \in DOMAIN p.rows} \ {Null}
      One(q, i) ==
        LET v == p.vs[i]
        IN  IF Terms(i) = {} \/ (only.on /\ v \notin only.vars) THEN q
            ELSE [vals  |-> (v :> (Terms(i) \cup (IF v \in DOMAIN q.vals THEN q.vals[v] ELSE {}))) @@ q.vals,
                  types |-> AndType(q.types, v, UNION {Subtypes(t.type) : t \in Terms(i)})]
  IN  FoldLeft(One, pd, [i \in DOMAIN p.vs |-> i])

RECURSIVE AddGraphPattern(_, _, _)
AddGraphPattern(pd, p, only) ==
  CASE p.op = "bgp"    -> AddPatterns(pd, p.ts)
    [] p.op = "join"   -> AddGraphPattern(AddGraphPattern(pd, p.l, only), p.r, only)
    [] p.op \in {"leftjoin", "minus"} -> AddGraphPattern(pd, p.l, only)
    [] p.op = "filter" -> AddFilter(AddGraphPattern(pd, p.p, only), p.e, only)
    [] p.op = "extend" ->
         LET q == AddGraphPattern(pd, p.p, only)
         IN  IF p.e.op = "var" /\ p.e.v \in DOMAIN q.vals
             THEN [q EXCEPT !.vals = (p.v :> q.vals[p.e.v]) @@ @] ELSE q
    [] p.op = "values" -> AddValues(pd, p, only)
    [] p.op \in {"orderby", "distinct", "reduced", "slice"} -> AddGraphPattern(pd, p.p, only)
    [] p.op \in {"group", "project"} ->
         LET vars == {v \in ToSet(p.vs) : ~only.on \/ v \in only.vars}
         IN  IF vars = {} THEN pd ELSE AddGraphPattern(pd, p.p, [on |-> TRUE, vars |-> vars])
    [] OTHER -> pd                          \* unions, paths and GRAPH say nothing
AddPattern1(pd, p) == AddGraphPattern(pd, p, AnyVars)
=============================================================================
