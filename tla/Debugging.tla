----------------------------- MODULE Debugging -----------------------------
(***************************************************************************)
(* Why a query has no answer: the parts of its pattern are evaluated on    *)
(* their own, from the inside out, until one without a solution is found.  *)
(* The answer is a sequence of such parts, empty when all have solutions.  *)
(***************************************************************************)
EXTENDS Engine

NoResults(p) == [none |-> p]                  \* the part that has no solution
HasResults   == <<>>
DebugFailed  == <<[none |-> [op |-> "error"]]>>

\* The part in question is evaluated with nothing known.
Evaluated(env, p)  == LazyGraphPattern(env, p, NoInput, NoPushdowns)
BlameFor(tab, who) == CASE ~tab.ok -> DebugFailed
                        [] tab.ok /\ tab.rows # <<>> -> HasResults
                        [] OTHER -> <<NoResults(who)>>
Blame(env, p)      == BlameFor(Evaluated(env, p), p)

RECURSIVE FirstBlamed(_, _)
FirstBlamed(env, parts) ==
  IF parts = <<>> THEN HasResults
  ELSE LET Or(found) == IF found # <<>> THEN found ELSE FirstBlamed(env, Tail(parts))
       IN  Or(Blame(env, Head(parts)))

\* Each triple pattern alone, then the first ones of them together.
Alone(env, ts)    == FlattenSeq([i \in DOMAIN ts |-> Blame(env, Bgp(<<ts[i]>>))])
Together(env, ts) == FirstBlamed(env, [n \in DOMAIN ts |-> Bgp(SubSeq(ts, 1, n))])
TogetherUnless(alone, env, ts) ==
  IF alone # <<>> THEN alone ELSE Together(env, OrderTriplePatterns(ts, {}, {}))
DebugPatterns(env, ts) == TogetherUnless(Alone(env, ts), env, ts)

RECURSIVE DebugGp(_, _)
\* What is looked at before the pattern itself.
Parts(p) == CASE p.op = "join"  -> <<p.l, p.r>>
              [] p.op = "minus"  -> <<p.l>>
              [] p.op = "filter" -> <<p.p>>
              [] OTHER -> <<>>
DebugEach(env, parts) == FoldLeft(LAMBDA f, q : IF f = <<>> THEN DebugGp(env, q) ELSE f, <<>>, parts)
\* Mutant: the pattern itself is taken to have solutions when its parts have.
DebugPartsOnly(env, p)         == DebugEach(env, Parts(p))
BlameUnless(found, env, whole) == IF found # <<>> THEN found ELSE Blame(env, whole)
DebugParts(env, p)             == BlameUnless(DebugEach(env, Parts(p)), env, p)

\* Both sides of a union must be without a solution.
DebugUnion(env, p) ==
  LET Neither(left, right) == IF <<>> \in {left, right} THEN HasResults ELSE left \o right
  IN  Neither(DebugGp(env, p.l), DebugGp(env, p.r))

AsPattern(p) == p.op = "path" /\ ~HasNegation(p.path) /\ ~NeedSparseMatrix(p.path)
DebugGp(env, p) ==
  CASE p.op = "bgp"   -> DebugPatterns(env, p.ts)
    [] AsPattern(p)   -> DebugGp(env, CreateGraphPattern(p.path, p.s, p.o, "m"))
    [] p.op = "union" -> DebugUnion(env, p)
    [] p.op = "graph" -> IF p.g.k = "term" THEN DebugGp([env EXCEPT !.g = p.g.t], p.p) ELSE DebugFailed
    [] p.op = "leftjoin" -> DebugGp(env, p.l)
    [] p.op \in {"extend", "orderby", "project", "distinct", "reduced", "slice", "group"} -> DebugGp(env, p.p)
    [] p.op = "path" /\ HasNegation(p.path) -> DebugFailed
    [] OTHER -> DebugParts(env, p)
=============================================================================
