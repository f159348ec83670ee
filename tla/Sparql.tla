------------------------------- MODULE Sparql -------------------------------
(***************************************************************************)
(* The variables of a graph pattern: those in its scope, those it uses,    *)
(* and those that the rewriting and the evaluation look for.               *)
(***************************************************************************)
EXTENDS Algebra

RECURSIVE InScope(_)
\* The variables a pattern may bind.
InScope(p) ==
  CASE p.op = "bgp"     -> UNION {TripleVars(t) : t \in ToSet(p.ts)}
    [] p.op = "path"    -> NodeVars(p.s) \cup NodeVars(p.o)
    [] p.op \in {"join", "leftjoin", "union"} -> InScope(p.l) \cup InScope(p.r)
    [] p.op = "minus"   -> InScope(p.l)
    [] p.op = "error"   -> {}
    [] p.op = "graph"   -> NodeVars(p.g) \cup InScope(p.p)
    [] p.op = "extend"  -> {p.v} \cup InScope(p.p)
    [] p.op = "group"   -> ToSet(p.vs) \cup {a.v : a \in ToSet(p.aggs)}
    [] p.op \in {"values", "project"} -> ToSet(p.vs)
    [] p.op \in {"filter", "orderby", "distinct", "reduced", "slice"} -> InScope(p.p)

RECURSIVE Used(_), ExprUses(_)
\* The variables mentioned in a pattern, in its expressions too.
Used(p) ==
  CASE p.op \in {"bgp", "path"} -> InScope(p)
    [] p.op \in {"values", "project"} -> ToSet(p.vs)
    [] OTHER -> UNION {Used(q) : q \in ToSet(Children(p))} \cup
       (CASE p.op \in {"leftjoin", "filter"} -> ExprUses(p.e)
          [] p.op = "graph"   -> NodeVars(p.g)
          [] p.op = "extend"  -> {p.v} \cup ExprUses(p.e)
          [] p.op = "group"   -> ToSet(p.vs) \cup
                                 UNION {{a.v} \cup ExprUses(a.e) : a \in ToSet(p.aggs)}
          [] p.op = "orderby" -> UNION {ExprUses(k.e) : k \in ToSet(p.keys)}
          [] OTHER -> {})
ExprUses(e) ==
  CASE e.op \in {"var", "bound"} -> {e.v}
    [] e.op = "exists" -> Used(e.p)
    [] OTHER -> UNION {ExprUses(a) : a \in ToSet(ExArgs(e))}

RECURSIVE UsedVariables(_, _, _), ExprVariables(_, _, _)
\* The variables the rewriting and evaluation look for: the subjects and the
\* objects of triple patterns (never the predicates), and the variables of
\* the expressions that are not sort keys or aggregates; those within EXISTS
\* and BOUND only when the caller asks for them.
UsedVariables(p, inExists, inBound) ==
  CASE p.op = "bgp"  -> UNION {NodeVars(t.s) \cup NodeVars(t.o) : t \in ToSet(p.ts)}
    [] p.op = "path" -> NodeVars(p.s) \cup NodeVars(p.o)
    [] OTHER -> UNION {UsedVariables(q, inExists, inBound) : q \in ToSet(Children(p))} \cup
       (IF p.op \in {"leftjoin", "filter", "extend"}
        THEN ExprVariables(p.e, inExists, inBound) ELSE {})
ExprVariables(e, inExists, inBound) ==
  CASE e.op = "var"    -> {e.v}
    [] e.op = "bound"  -> IF inBound THEN {e.v} ELSE {}
    [] e.op = "exists" -> IF inExists THEN UsedVariables(e.p, inExists, inBound) ELSE {}
    [] OTHER -> UNION {ExprVariables(a, inExists, inBound) : a \in ToSet(ExArgs(e))}

RECURSIVE HasPattern(_)
\* Whether an expression contains an EXISTS.
HasPattern(e) == e.op = "exists" \/ \E a \in ToSet(ExArgs(e)) : HasPattern(a)
=============================================================================
