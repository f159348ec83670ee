------------------------------ MODULE Rewrites ------------------------------
(***************************************************************************)
(* The rewriting of a query before it is evaluated: filters are brought    *)
(* before the triple patterns with a variable predicate, variables that    *)
(* several string functions read are decoded once, extensions are lifted.  *)
(***************************************************************************)
EXTENDS Sparql, TLC

---------------------------------------------------------------------------
(* Filters. *)

RECURSIVE ContainsVariablePredicate(_)
ContainsVariablePredicate(p) ==
  CASE p.op = "bgp" -> \E t \in ToSet(p.ts) : t.p.k = "var"
    [] p.op \in {"join", "leftjoin", "union"} ->
         ContainsVariablePredicate(p.l) \/ ContainsVariablePredicate(p.r)
    [] p.op = "minus" -> ContainsVariablePredicate(p.l)
    [] p.op \in {"extend", "orderby", "distinct", "filter"} -> ContainsVariablePredicate(p.p)
    [] OTHER -> FALSE                       \* GRAPH and sub-selects are not looked into

FilterVars(e) == ExprVariables(e, FALSE, TRUE)

\* The last filter is the innermost one.
Filtered(p, fs) == FoldRight(Filter, fs, p)

\* Mutant: a filter goes to the named predicates whatever it reads.
SplitBgpEager(p, fs, seen) ==
  LET Named(t) == t.p.k # "var"
      named    == Bgp(SelectSeq(p.ts, Named))
      open     == Bgp(SelectSeq(p.ts, LAMBDA t : ~Named(t)))
  IN  CASE fs = <<>> -> p
        [] fs # <<>> /\ open.ts = <<>> -> named
        [] OTHER -> Join(Filtered(named, fs), open)

\* The patterns with a named predicate are matched first, under the filters
\* whose variables they, or patterns seen before, have.  Without a pattern
\* that has a variable predicate the filters are not used at all.
SplitBgp(p, fs, seen) ==
  LET named    == SelectSeq(p.ts, LAMBDA t : t.p.k # "var")
      open     == SelectSeq(p.ts, LAMBDA t : t.p.k = "var")
      known    == InScope(Bgp(named)) \cup seen
      Early(f) == FilterVars(f) \subseteq known
      left     == Filtered(Bgp(named), SelectSeq(fs, Early))
  IN  CASE fs = <<>> -> p
        [] fs # <<>> /\ open = <<>> -> Bgp(named)
        [] OTHER -> Filtered(Join(left, Bgp(open)), SelectSeq(fs, LAMBDA f : ~Early(f)))

RECURSIVE RewritePushdown(_, _, _), Conjuncts(_)

\* The conditions of a filter, one by one.
Conjuncts(e) ==
  CASE e.op = "exists" -> <<ExExists(RewritePushdown(e.p, <<>>, {}))>>
    [] e.op = "and"    -> Conjuncts(e.args[1]) \o Conjuncts(e.args[2])
    [] OTHER -> <<e>>

RewritePushdown(p, fs, seen) ==
  LET Under(q, vars) == RewritePushdown(q, <<>>, vars)
      Within(vars)   == SelectSeq(fs, LAMBDA f : FilterVars(f) \subseteq vars)
      Outside(vars)  == SelectSeq(fs, LAMBDA f : ~(FilterVars(f) \subseteq vars))
  IN  CASE p.op = "bgp"    -> SplitBgp(p, fs, seen)
        [] p.op = "filter" ->
             IF ContainsVariablePredicate(p.p)
             THEN RewritePushdown(p.p, fs \o Conjuncts(p.e), seen)
             ELSE Filter(p.e, RewritePushdown(p.p, fs, seen))
        [] p.op = "join"   ->
             LET left  == InScope(p.l)
                 both  == left \cup InScope(p.r)
                 right == SelectSeq(Outside(left), LAMBDA f : FilterVars(f) \subseteq both)
             IN  Filtered(Join(RewritePushdown(p.l, Within(left), seen),
                               RewritePushdown(p.r, right, seen \cup left)), Outside(both))
        [] p.op = "leftjoin" ->
             LET left == InScope(p.l)
             IN  Filtered(LeftJoin(RewritePushdown(p.l, Within(left), seen), Under(p.r, {}), p.e),
                          Outside(left))
        [] p.op \in {"orderby", "distinct"} -> [p EXCEPT !.p = RewritePushdown(p.p, fs, seen)]
        [] p.op \in {"union", "minus"} ->
             Filtered([p EXCEPT !.l = Under(p.l, seen), !.r = Under(p.r, seen)], fs)
        [] p.op \in {"extend", "project", "reduced", "slice"} ->
             Filtered([p EXCEPT !.p = Under(p.p, seen)], fs)
        [] p.op = "group"  -> Filtered([p EXCEPT !.p = Under(p.p, {})], fs)
        [] OTHER -> p                       \* paths, VALUES, GRAPH: no filters

---------------------------------------------------------------------------
(* Variables decoded once. *)

DecodesAll   == {"strlen", "concat", "strstarts", "strends", "ucase", "lcase",
                 "strbefore", "strafter", "contains"}
DecodesFirst == {"substr", "replace", "regex"}

RECURSIVE StrUses(_)
\* The variables that string functions of an expression read, once per use;
\* what stands within an argument of a function is not looked at.
StrUses(e) ==
  LET Vars(as) == SelectSeq(as, LAMBDA a : a.op = "var")
      Names(as) == [i \in DOMAIN Vars(as) |-> Vars(as)[i].v]
  IN  CASE e.op = "call" /\ e.f \in DecodesAll   -> Names(e.args)
        [] e.op = "call" /\ e.f \in DecodesFirst -> Names(SubSeq(e.args, 1, 1))
        [] e.op = "call" /\ e.f \notin DecodesAll \cup DecodesFirst -> <<>>
        [] OTHER -> FlattenSeq([i \in DOMAIN ExArgs(e) |-> StrUses(ExArgs(e)[i])])

UsedTwice(e) == {v \in ToSet(StrUses(e)) : \E i, j \in DOMAIN StrUses(e) :
                   i # j /\ StrUses(e)[i] = v /\ StrUses(e)[j] = v}

RECURSIVE RenameVars(_, _)
\* names: old variable to new one; patterns within EXISTS keep theirs.
RenameVars(e, names) ==
  CASE e.op \in {"var", "bound"} -> IF e.v \in DOMAIN names THEN [e EXCEPT !.v = names[@]] ELSE e
    [] e.op \in {"const", "exists", "none"} -> e
    [] OTHER -> [e EXCEPT !.args = [i \in DOMAIN @ |-> RenameVars(@[i], names)]]

\* id makes the new names fresh in the whole query.
FreshNames(e, id) == [v \in UsedTwice(e) |-> v \o "_" \o id]
Decoded(p, names) ==
  FoldLeft(LAMBDA q, v : Extend(q, names[v], ExCall("decode", <<ExVar(v)>>)),
           p, AsSeq(DOMAIN names))

RECURSIVE RewriteCse(_, _)
\* Below an OPTIONAL or a FILTER nothing more is rewritten.
RewriteCse(p, id) ==
  CASE p.op = "leftjoin" -> LET names == FreshNames(p.e, id)
                            IN  [p EXCEPT !.r = Decoded(@, names), !.e = RenameVars(@, names)]
    [] p.op = "filter"   -> LET names == FreshNames(p.e, id)
                            IN  [p EXCEPT !.p = Decoded(@, names), !.e = RenameVars(@, names)]
    [] OTHER -> WithChildren(p, [i \in DOMAIN Children(p) |->
                                   RewriteCse(Children(p)[i], id \o ToString(i))])

---------------------------------------------------------------------------
(* Extensions. *)

RECURSIVE LiftExtend(_), TerminatingLift(_)
\* A pattern and the extensions lifted out of it.
LiftExtend(p) ==
  CASE p.op = "join" -> LET l == LiftExtend(p.l) IN LET r == LiftExtend(p.r)
                        IN  [p |-> Join(l.p, r.p), es |-> l.es \o r.es]
    [] p.op = "leftjoin" -> LET l == LiftExtend(p.l)
                            IN  [p |-> LeftJoin(l.p, TerminatingLift(p.r), p.e), es |-> l.es]
    [] p.op = "graph"  -> LET q == LiftExtend(p.p) IN [p |-> Graph(p.g, q.p), es |-> q.es]
    [] p.op = "filter" ->
         LET q       == LiftExtend(p.p)
             Used1(x) == x.v \in ExprVariables(p.e, TRUE, TRUE)
             inner   == FoldLeft(LAMBDA r, x : Extend(r, x.v, x.e), q.p, SelectSeq(q.es, Used1))
         IN  [p |-> Filter(p.e, inner), es |-> SelectSeq(q.es, LAMBDA x : ~Used1(x))]
    [] OTHER -> [p |-> WithChildren(p, [i \in DOMAIN Children(p) |-> TerminatingLift(Children(p)[i])]),
                 es |-> <<>>]
TerminatingLift(p) ==
  LET q == LiftExtend(p) IN FoldLeft(LAMBDA r, x : Extend(r, x.v, x.e), q.p, q.es)

RewriteQuery(p) == TerminatingLift(RewriteCse(RewritePushdown(p, <<>>, {}), "d"))
=============================================================================
