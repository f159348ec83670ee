--------------------------- MODULE TemplateGraph ---------------------------
(***************************************************************************)
(* Templates as triples, in a vocabulary made to be queried: a blank node  *)
(* for every parameter, instance and argument, numbered from 0 by every    *)
(* call.  What lists hold is not told.  (The IRIs that a template          *)
(* mentions, each once, are left out.)                                     *)
(***************************************************************************)
EXTENDS Templates

CONSTANT Innermost(_)        \* what the lists of a type are lists of in the end

Bnode(n)   == <<"bnode", n>>
Vocab(p)   == <<"vocab", p>>
Named(n)   == <<"named", n>>
RdfType    == <<"rdf", "type">>
IntLit(i)  == <<"integer", i>>
BoolLit(b) == <<"boolean", b>>
StrLit(s)  == <<"string", s>>
TermOf(c)  == <<"term", c>>

\* The innermost type, the outermost cardinality.
DecomposePtype(t) == [of |-> Innermost(t), card |-> IF t.k = "Basic" THEN "single" ELSE t.k]

HasPtype(p)   == p.type.k \notin {"untyped", "None"}
SingleTerm(c) == c.k \in {"iri", "lit", "bnode"}

DescribeParameter(p, i, b) ==
  {<<b, RdfType, Vocab("Parameter")>>, <<b, Vocab("index"), IntLit(i)>>,
   <<b, Vocab("variableName"), StrLit(p.v)>>, <<b, Vocab("optional"), BoolLit(p.optional)>>}
  \cup (IF HasPtype(p) THEN {<<b, Vocab("type"), Named(DecomposePtype(p.type).of)>>,
                             <<b, Vocab("cardinality"), StrLit(DecomposePtype(p.type).card)>>} ELSE {})
  \cup (IF SingleTerm(p.default) THEN {<<b, Vocab("defaultValue"), TermOf(p.default)>>} ELSE {})

IsListTerm(t) == t.k = "list" \/ (t.k = "const" /\ t.c.k = "list")
IsOneConst(t) == t.k = "const" /\ SingleTerm(t.c)

DescribeArgument(a, i, b) ==
  {<<b, RdfType, Vocab("Argument")>>, <<b, Vocab("index"), IntLit(i)>>, <<b, Vocab("listExpand"), BoolLit(a.expand)>>}
  \cup (IF a.t.k = "var" THEN {<<b, Vocab("variableName"), StrLit(a.t.n)>>} ELSE {})
  \cup (IF IsOneConst(a.t) THEN {<<b, Vocab("constantValue"), TermOf(a.t.c)>>} ELSE {})
  \cup (IF IsListTerm(a.t) THEN {<<b, Vocab("isList"), BoolLit(TRUE)>>} ELSE {})

DescribeInstance(inst, i, n) ==
  {<<Bnode(n), RdfType, Vocab("Instance")>>, <<Bnode(n), Vocab("index"), IntLit(i)>>,
   <<Bnode(n), Vocab("callsTemplate"), Named(inst.of)>>}
  \cup (IF inst.expander = "none" THEN {} ELSE {<<Bnode(n), Vocab("listExpander"), StrLit(inst.expander)>>})
  \cup UNION {{<<Bnode(n), Vocab("hasArgument"), Bnode(n + j)>>}
              \cup DescribeArgument(inst.args[j], j - 1, Bnode(n + j)) : j \in DOMAIN inst.args}

UsesPredicate(inst) ==
  IF inst.of = OttrTriple /\ Len(inst.args) > 1 /\ inst.args[2].t.k = "const" /\ inst.args[2].t.c.k = "iri"
  THEN {TermOf(inst.args[2].t.c)} ELSE {}

\* Mutant: an instance takes a number for each argument only.
InstanceSizeShort(inst) == Len(inst.args)
\* An instance takes a number for itself and one for each argument.
InstanceSize(inst) == 1 + Len(inst.args)

\* Where each of several parts starts that take so many numbers, and the end.
Starts(first, sizes) ==
  LET at[i \in 1..(Len(sizes) + 1)] == IF i = 1 THEN first ELSE at[i - 1] + sizes[i - 1]
  IN  at
InstanceStarts(t, first) == Starts(first + Len(t.params), [i \in DOMAIN t.body |-> InstanceSize(t.body[i])])

DescribeTemplate(t, first) ==
  LET at   == InstanceStarts(t, first)
      subj == Named(t.name)
  IN  {<<subj, RdfType, Vocab("Template")>>}
      \cup (UNION {{<<subj, Vocab("hasParameter"), Bnode(first + i - 1)>>}
                   \cup DescribeParameter(t.params[i], i - 1, Bnode(first + i - 1)) : i \in DOMAIN t.params})
      \cup UNION {{<<subj, Vocab("hasInstance"), Bnode(at[i])>>}
                  \cup DescribeInstance(t.body[i], i - 1, at[i])
                  \cup {<<subj, Vocab("usesPredicate"), p>> : p \in UsesPredicate(t.body[i])} : i \in DOMAIN t.body}

\* In the order of the vector, without ottr:Triple.
TemplateSize(t) == IF t.name = OttrTriple THEN 0 ELSE InstanceStarts(t, 0)[Len(t.body) + 1]
TemplatesToTriples(ts) ==
  LET at == Starts(0, [i \in DOMAIN ts |-> TemplateSize(ts[i])])
  IN  UNION {DescribeTemplate(ts[i], at[i]) : i \in {j \in DOMAIN ts : ts[j].name # OttrTriple}}

---------------------------------------------------------------------------
(* What can be read back, and what a template has to tell.                 *)

Objects(g, s, p) == {t[3] : t \in {u \in g : u[1] = s /\ u[2] = Vocab(p)}}
Described(g)     == {t[1] : t \in {u \in g : u[2] = RdfType /\ u[3] = Vocab("Template")}}

Read(g, b, ps) == [p \in ps |-> Objects(g, b, p)]
ParameterParts == {"index", "variableName", "optional", "type", "cardinality", "defaultValue"}
ArgumentParts  == {"index", "listExpand", "variableName", "constantValue", "isList"}
InstanceParts  == {"index", "callsTemplate", "listExpander"}

\* The parts of a description that a query finds.
ParameterFacts(g, n) == {Read(g, b, ParameterParts) : b \in Objects(g, Named(n), "hasParameter")}
ArgumentFacts(g, ib) == {Read(g, b, ArgumentParts) : b \in Objects(g, ib, "hasArgument")}
InstanceFacts(g, n)  == {<<Read(g, b, InstanceParts), ArgumentFacts(g, b)>> : b \in Objects(g, Named(n), "hasInstance")}

If(c, x) == IF c THEN {x} ELSE {}
ParameterTold(p, i) ==
  [index |-> {IntLit(i)}, variableName |-> {StrLit(p.v)}, optional |-> {BoolLit(p.optional)},
   type |-> If(HasPtype(p), Named(DecomposePtype(p.type).of)),
   cardinality |-> If(HasPtype(p), StrLit(DecomposePtype(p.type).card)),
   defaultValue |-> If(SingleTerm(p.default), TermOf(p.default))]
ArgumentTold(a, i) ==
  [index |-> {IntLit(i)}, listExpand |-> {BoolLit(a.expand)},
   variableName |-> If(a.t.k = "var", StrLit(a.t.n)),
   constantValue |-> If(IsOneConst(a.t), TermOf(a.t.c)),
   isList |-> If(IsListTerm(a.t), BoolLit(TRUE))]
InstanceTold(inst, i) ==
  <<[index |-> {IntLit(i)}, callsTemplate |-> {Named(inst.of)},
     listExpander |-> If(inst.expander # "none", StrLit(inst.expander))],
    {ArgumentTold(inst.args[j], j - 1) : j \in DOMAIN inst.args}>>

\* The graph tells these templates and no others.
Tells(g, ts) ==
  /\ Described(g) = {Named(n) : n \in DOMAIN ts \ {OttrTriple}}
  /\ \A n \in DOMAIN ts \ {OttrTriple} :
       /\ ParameterFacts(g, n) = {ParameterTold(ts[n].params[i], i - 1) : i \in DOMAIN ts[n].params}
       /\ InstanceFacts(g, n) = {InstanceTold(ts[n].body[i], i - 1) : i \in DOMAIN ts[n].body}
=============================================================================
