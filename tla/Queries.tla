------------------------------ MODULE Queries ------------------------------
(***************************************************************************)
(* Asking a query: a text is written, parsed, rewritten and evaluated, and *)
(* when there is no answer the reason is looked for.                       *)
(***************************************************************************)
EXTENDS Debugging, Rewrites, SparqlPrinter

CONSTANTS ItemSets,       \* items of the group of a query, by position
          Heads,         \* selections: queries whose group is not there yet
          MaxItems,      \* bound: items under a selection, by selection
          Dataset,       \* graph -> asserted and transient triples
          QueryGraph     \* the graph that is asked

Ref == INSTANCE SparqlReference

VARIABLES text,          \* the items written
          parsed,        \* the algebra of the query
          rewritten,     \* the algebra that is evaluated
          answer,        \* the table of solutions
          reason         \* the parts that have no solution
vars == <<text, parsed, rewritten, answer, reason>>

Unset == [op |-> "unset"]
NoAnswer == [ok |-> FALSE, unset |-> TRUE]
NoReason == <<Unset>>
Init == /\ text = <<>>
        /\ parsed = Unset
        /\ rewritten = Unset
        /\ answer = NoAnswer
        /\ reason = NoReason

Write(item) ==
  /\ parsed = Unset
  /\ Len(text) < Len(ItemSets)
  /\ item \in ItemSets[Len(text) + 1]
  /\ \E head \in Heads : Len(text) < MaxItems[head]
  /\ text' = Append(text, item)
  /\ UNCHANGED <<parsed, rewritten, answer, reason>>

\* A text that is refused is not evaluated.
Parse(head) ==
  /\ parsed = Unset
  /\ Len(text) \in 1..MaxItems[head]
  /\ LET Checked(pattern) == IF IsWrong(pattern) THEN Wrong ELSE pattern
     IN  parsed' = Checked(ParseGroup(Select([head EXCEPT !.where = Items(text)])))
  /\ UNCHANGED <<text, rewritten, answer, reason>>

Rewrite ==
  /\ parsed \notin {Unset, Wrong}
  /\ rewritten = Unset
  /\ rewritten' = RewriteQuery(parsed)
  /\ UNCHANGED <<text, parsed, answer, reason>>

Evaluate ==
  /\ rewritten # Unset
  /\ answer = NoAnswer
  /\ LET Answered(tab) == IF tab.ok THEN tab ELSE Failed
     IN  answer' = Answered(QueryParsed(Dataset, QueryGraph, rewritten))
  /\ UNCHANGED <<text, parsed, rewritten, reason>>

Debug ==
  /\ answer.ok
  /\ answer.rows = <<>>
  /\ reason = NoReason
  /\ reason' = DebugGp(Env(Dataset, QueryGraph), rewritten)
  /\ UNCHANGED <<text, parsed, rewritten, answer>>

\* The next query.
Finish ==
  /\ parsed = Wrong \/ answer = Failed \/ answer.ok
  /\ text' = <<>>
  /\ parsed' = Unset
  /\ rewritten' = Unset
  /\ answer' = NoAnswer
  /\ reason' = NoReason

Next == \/ \E item \in UNION ToSet(ItemSets) : Write(item)
        \/ \E head \in Heads : Parse(head)
        \/ Rewrite \/ Evaluate \/ Debug \/ Finish
Spec == Init /\ [][Next]_vars

---------------------------------------------------------------------------
(* Plain queries: those whose variables have a value wherever they are     *)
(* compared.  The README says what becomes of the others.                  *)

RECURSIVE Sure(_), Subpatterns(_), ExistsIn(_)
\* The variables that have a value in every solution.
Sure(p) ==
  CASE p.op \in {"bgp", "path"} -> InScope(p)
    [] p.op = "join"    -> Sure(p.l) \cup Sure(p.r)
    [] p.op \in {"leftjoin", "minus"} -> Sure(p.l)
    [] p.op = "union"   -> Sure(p.l) \cap Sure(p.r)
    [] p.op = "values"  -> {v \in ToSet(p.vs) : \A r \in ToSet(p.rows) : \A i \in DOMAIN r :
                              p.vs[i] = v => r[i] # Null}
    [] p.op = "project" -> Sure(p.p) \cap ToSet(p.vs)
    [] p.op = "group"   -> (Sure(p.p) \cap ToSet(p.vs)) \cup
                           {a.v : a \in {b \in ToSet(p.aggs) : b.f = "count"}}
    [] OTHER -> Sure(p.p)

Subpatterns(p) == {p} \cup UNION {Subpatterns(c) : c \in ToSet(Children(p))}
\* The patterns in an expression.
ExistsIn(e) == (IF e.op = "exists" THEN {e.p} ELSE {}) \cup UNION {ExistsIn(a) : a \in ToSet(ExArgs(e))}
FreeVars(e) == ExprVariables(e, FALSE, FALSE)
VariablePredicates(p) ==
  \E q \in Subpatterns(p) : q.op = "bgp" /\ \E t \in ToSet(q.ts) : t.p.k = "var"
Predicates(p) ==
  UNION {{t.p.t : t \in {u \in ToSet(q.ts) : u.p.k = "term"}} : q \in {r \in Subpatterns(p) : r.op = "bgp"}}
\* A filter over a variable predicate is pushed to the leaves, and is lost at
\* those that have none.
FilterKept(p) == ContainsVariablePredicate(p) =>
  \A q \in Subpatterns(p) : q.op \in Leaves \cup {"graph"} => ContainsVariablePredicate(q)
Missing(p)    == ~(Predicates(p) \subseteq AllPredicates(Dataset[QueryGraph]))

\* What is joined is bound on both sides, and nothing is joined with a MINUS,
\* a BIND, an OPTIONAL about an unknown predicate or a LIMIT.
PlainJoin(p) ==
  /\ InScope(p.l) \cap InScope(p.r) \subseteq Sure(p.l) \cap Sure(p.r)
  /\ p.op = "join" => \A q \in Subpatterns(p) :
       /\ q.op \notin {"minus", "extend", "slice"}
       /\ q.op = "leftjoin" => ~Missing(q.r)
\* The variables of an expression, and those an EXISTS shares, are bound.
PlainExpression(e, p) ==
  /\ FreeVars(e) \subseteq Sure(p)
  /\ \A q \in ExistsIn(e) : InScope(q) \cap InScope(p) \subseteq Sure(p)
  /\ HasPattern(e) => ~VariablePredicates(p) /\ ~Missing(p)
\* What a sub-select filters by is selected.
PlainSelect(p) ==
  \A q \in Subpatterns(p.p) : q.op = "filter" => FreeVars(q.e) \subseteq ToSet(p.vs)

Plain(pattern) == \A p \in Subpatterns(pattern) :
  CASE p.op \in {"join", "leftjoin"} -> PlainJoin(p)
    [] p.op \in {"filter", "extend"} -> PlainExpression(p.e, p.p) /\ (p.op = "filter" => FilterKept(p.p))
    [] p.op \in {"project", "group"} -> PlainSelect(p)
    [] p.op = "path" -> p.path.op \notin {"alt", "many", "maybe"}
    [] OTHER -> TRUE

RECURSIVE Modifiers(_)
\* What one SELECT is taken to state, from the outside in.
Modifiers(p) == IF p.op \in {"slice", "distinct", "project", "orderby"}
                THEN <<p.op>> \o Modifiers(p.p) ELSE <<>>
SelectOrder == <<"slice", "distinct", "project", "orderby">>
Printable(pattern) == \A p \in Subpatterns(pattern) :
  /\ LET ms == Modifiers(p)
     IN  \A i, j \in DOMAIN ms : i < j => \E k, l \in 1..4 :
           k < l /\ SelectOrder[k] = ms[i] /\ SelectOrder[l] = ms[j]
  /\ p.op \in TwoSided => p.l.op # "filter"
  /\ p.op = "extend" => p.p.op # "filter"

Solutions(tab) ==
  [i \in DOMAIN tab.rows |->
     [v \in {c \in DOMAIN tab.rows[i] : tab.rows[i][c] # Null} |-> tab.rows[i][v]]]
Rewritten     == rewritten = Unset /\ rewritten' # Unset
Asked         == answer = NoAnswer /\ answer' # answer
Shown(ms, vs) == [i \in DOMAIN ms |-> Ref!Restricted(ms[i], vs)]
Contents(g)   == Dataset[g].asserted \cup Dataset[g].transient
Snapshot      == [g \in DOMAIN Dataset |-> Contents(g)]
Meaning(p)    == Ref!Eval(p, Snapshot, Snapshot[QueryGraph])

---------------------------------------------------------------------------
(* Properties.                                                             *)

\* The answer to a plain query is what SPARQL says: pushdowns, the order of
\* joins, indexes and types of columns change nothing (query_parsed).
AnswersAsAlgebra ==
  [][(answer' # answer /\ answer'.ok /\ Plain(parsed)) =>
        Ref!SameBag(Solutions(answer'), Meaning(parsed))]_vars

\* Rewriting keeps the meaning of a plain query (rewrite).
RewriteKeepsMeaning ==
  [][(Asked /\ Plain(parsed)) =>
        Ref!SameBag(Meaning(parsed), Shown(Meaning(rewritten), InScope(parsed)))]_vars

\* The answer does not depend on which triples are asserted and which are
\* inferred, whatever the query (get_multiple_predicates).
AnswersIgnoreLayout ==
  [][(answer' # answer /\ answer'.ok) =>
        LET moved == [g \in DOMAIN Dataset |-> [asserted |-> Contents(g), transient |-> {}]]
            Same(tab) == tab.ok /\ Ref!SameBag(Solutions(answer'), Solutions(tab))
        IN  Same(QueryParsed(moved, QueryGraph, rewritten))]_vars

\* A query printed and parsed again means the same, unless a sub-select is
\* all there is under a modifier, or a group with a filter is first in another
\* (Display for GraphPattern and SparqlGraphRootPattern).
PrintedAgain ==
  [][(Rewritten /\ Printable(parsed)) =>
        LET Same(again) == ~IsWrong(again) /\ Ref!SameBag(Meaning(parsed), Meaning(again))
        IN  Same(ParseGroup(PrintRoot(parsed, "a")))]_vars

\* What is said to have no solution has none, and a plain query without an
\* answer is given a reason unless it has a LIMIT or an OFFSET (debug_gp).
ReasonHolds ==
  [][(reason' # reason /\ reason' # NoReason /\ Plain(parsed)) =>
        /\ \A i \in DOMAIN reason' : Meaning(reason'[i].none) = <<>>
        /\ reason' = HasResults => \E p \in Subpatterns(parsed) : p.op = "slice"]_vars
=============================================================================
