--------------------------- MODULE SparqlPrinter ---------------------------
(***************************************************************************)
(* From the algebra of a query back to text, as the Display instances of   *)
(* spargebra do it.  A query is sent to another SPARQL endpoint as printed *)
(* text, after its algebra has been changed.                               *)
(***************************************************************************)
EXTENDS SparqlParser

\* Mutant: the symbol of one comparison is that of another.
BinarySymbolsSwapped == [o \in {"or", "and", "eq", "gt", "ge", "lt", "le", "add", "sub", "mul", "div"} |->
  CASE o = "or" -> "||" [] o = "and" -> "&&" [] o = "eq" -> "=" [] o \in {"gt", "ge"} -> ">="
    [] o \in {"lt", "le"} -> "<=" [] o = "add" -> "+" [] o = "sub" -> "-" [] o = "mul" -> "*"
    [] o = "div" -> "/"]
BinarySymbols == [o \in {"or", "and", "eq", "gt", "ge", "lt", "le", "add", "sub", "mul", "div"} |->
  CASE o = "or" -> "||" [] o = "and" -> "&&" [] o = "eq" -> "=" [] o = "gt" -> ">"
    [] o = "ge" -> ">=" [] o = "lt" -> "<" [] o = "le" -> "<=" [] o = "add" -> "+"
    [] o = "sub" -> "-" [] o = "mul" -> "*" [] o = "div" -> "/"]
Arithmetic == {"add", "sub", "mul", "div"}

\* Patterns that the group to their left would take in.
NeedsBraces == {"leftjoin", "minus", "extend", "filter"}

NoSelect == [option |-> "default", order |-> <<>>, from |-> 0, len |-> NoLimit, vars |-> <<>>]

ProjectedAs(vars, v) == \E i \in DOMAIN vars : vars[i].v = v
\* An Extend under a projection is printed as "(e AS ?v)" in it, unless an
\* expression already moved there uses the variable.
CanMove(vars, v) ==
  /\ ProjectedAs(vars, v)
  /\ \A i \in DOMAIN vars : vars[i].e # NoExpr => v \notin ExprUses(vars[i].e)

RECURSIVE Peel(_, _)
\* The modifiers around a pattern that one SELECT can state, from the outside
\* in: what is met later replaces what was met before.
Peel(p, sel) ==
  CASE p.op = "orderby"  -> Peel(p.p, [sel EXCEPT !.order = p.keys])
    [] p.op = "project" /\ sel.vars = <<>> ->
         Peel(p.p, [sel EXCEPT !.vars = [i \in DOMAIN p.vs |-> [v |-> p.vs[i], e |-> NoExpr]]])
    [] p.op = "distinct" -> Peel(p.p, [sel EXCEPT !.option = "distinct"])
    [] p.op = "reduced"  ->
         Peel(p.p, [sel EXCEPT !.option = IF @ = "distinct" THEN @ ELSE "reduced"])
    [] p.op = "slice"    -> Peel(p.p, [sel EXCEPT !.from = p.from, !.len = p.len])
    [] p.op = "extend" /\ CanMove(sel.vars, p.v) ->
         LET at == CHOOSE i \in DOMAIN sel.vars : sel.vars[i].v = p.v
         IN  Peel(p.p, [sel EXCEPT !.vars[at].e = p.e])
    [] OTHER -> [sel |-> sel, p |-> p]

RECURSIVE PrintExpr(_, _), PrintPattern(_, _), PrintRoot(_, _)

PrintList(es, id) == [i \in DOMAIN es |-> PrintExpr(es[i], id)]

\* Arithmetic and signs have no parentheses of their own.
PrintExpr(e, id) ==
  LET Arg(i) == PrintExpr(e.args[i], id)
  IN  CASE e.op \in {"var", "const", "bound"} -> <<Leaf(e)>>
        [] e.op \in Arithmetic -> Arg(1) \o <<Op(BinarySymbols[e.op])>> \o Arg(2)
        [] e.op \in DOMAIN BinarySymbols \ Arithmetic ->
             <<Paren(Arg(1) \o <<Op(BinarySymbols[e.op])>> \o Arg(2))>>
        [] e.op = "in"     -> <<Paren(Arg(1) \o <<Op("IN"), ListOf(PrintList(Tail(e.args), id))>>)>>
        [] e.op = "uplus"  -> <<Op("+")>> \o Arg(1)
        [] e.op = "uminus" -> <<Op("-")>> \o Arg(1)
        [] e.op = "not"    -> IF e.args[1].op = "exists"
                              THEN <<ExistsTok(Items(PrintPattern(e.args[1].p, id \o "n")), TRUE)>>
                              ELSE <<Op("!")>> \o Arg(1)
        [] e.op = "exists" -> <<ExistsTok(Items(PrintPattern(e.p, id \o "x")), FALSE)>>
        [] e.op = "call"   -> <<Call(e.f, PrintList(e.args, id))>>
        [] e.op \in {"if", "coalesce", "same"} -> <<Call(e.op, PrintList(e.args, id))>>

PrintTriple(t) ==
  Subject(Atom(t.s), <<Prop(IF t.p.k = "var" THEN VerbVar(t.p.n) ELSE Verb(PathIri(t.p.t.n)),
                            <<Atom(t.o)>>)>>)

PrintAggregate(a, id) ==
  AggTok(a.f, IF a.e = NoExpr THEN <<>> ELSE PrintExpr(a.e, id), a.distinct)

\* id tells apart the variables of the aggregates of different SELECTs.
PrintPattern(p, id) ==
  LET Left  == PrintPattern(p.l, id \o "l")
      Right == PrintPattern(p.r, id \o "r")
      Inner == PrintPattern(p.p, id \o "i")
  IN  CASE p.op = "bgp"  -> IF p.ts = <<>> THEN <<>>
                            ELSE <<Block([i \in DOMAIN p.ts |-> PrintTriple(p.ts[i])])>>
        [] p.op = "path" -> <<Block(<<Subject(Atom(p.s), <<Prop(Verb(p.path), <<Atom(p.o)>>)>>)>>)>>
        [] p.op = "join" -> Left \o (IF p.r.op \in NeedsBraces THEN <<Groups(<<Items(Right)>>)>> ELSE Right)
        [] p.op = "leftjoin" ->
             Left \o <<Optional(Items(IF p.e = NoExpr THEN Right
                                      ELSE Append(Right, FilterItem(PrintExpr(p.e, id)))))>>
        [] p.op = "filter" -> Append(Inner, FilterItem(PrintExpr(p.e, id)))
        [] p.op = "union"  -> <<Groups(<<Items(Left), Items(Right)>>)>>
        [] p.op = "graph"  -> <<GraphItem(p.g, Items(Inner))>>
        [] p.op = "extend" -> Append(Inner, BindItem(PrintExpr(p.e, id), p.v))
        [] p.op = "minus"  -> Append(Left, MinusItem(Items(Right)))
        [] p.op = "values" -> <<ValuesItem(p.vs, p.rows)>>
        [] p.op = "group"  ->
             LET members == [i \in DOMAIN p.aggs |->
                               Member(p.aggs[i].v, <<PrintAggregate(p.aggs[i], id)>>)]
                            \o [i \in DOMAIN p.vs |-> Member(p.vs[i], <<>>)]
             IN  <<Groups(<<Select([Query("g" \o id, "default", members, Items(Inner)) EXCEPT
                     !.grouped = p.vs # <<>>,
                     !.group = [i \in DOMAIN p.vs |-> Member(p.vs[i], <<>>)]])>>)>>
        [] OTHER -> <<Groups(<<PrintRoot(p, id \o "s")>>)>>

\* A whole query, or a pattern that only a sub-select can state.
PrintRoot(root, id) ==
  LET peeled == Peel(root, NoSelect)
      sel    == peeled.sel
      members == IF sel.vars = <<>> THEN <<Member("*", <<>>)>>
                 ELSE [i \in DOMAIN sel.vars |->
                        Member(sel.vars[i].v, IF sel.vars[i].e = NoExpr THEN <<>>
                                              ELSE PrintExpr(sel.vars[i].e, id))]
  IN  Select([Query("q" \o id, sel.option, members, Items(PrintPattern(peeled.p, id))) EXCEPT
                !.order = [i \in DOMAIN sel.order |->
                             [ts |-> PrintExpr(sel.order[i].e, id), desc |-> sel.order[i].desc]],
                !.from = sel.from, !.len = sel.len])
=============================================================================
