----------------------------- MODULE MCUpdates -----------------------------
(***************************************************************************)
(* Updates of a default graph with a transient triple and of two more      *)
(* graphs, one that is there and one that is not.                          *)
(***************************************************************************)
EXTENDS Updates, Engine, Rewrites, SparqlParser

Ref == INSTANCE SparqlReference

\* The evaluator of the engine, over the pattern as it is rewritten.
Answer(dataset, graph, p) == QueryParsed(dataset, graph, RewriteQuery(p))
\* The solutions by the recommendation.
RefSolutions(p, dataset) ==
  LET all == [g \in DOMAIN dataset |-> Contents(dataset, g)]
  IN  Ref!Eval(p, all, all[DefaultGraph])

knows == 11
value == 12
MCObjectSorted == {Iri(knows)}
Other   == Iri(98)
Unknown == Iri(99)
MCStart ==
  DefaultGraph :> [asserted |-> {<<Iri(1), Iri(knows), Iri(2)>>, <<Iri(2), Iri(knows), Iri(3)>>,
                                 <<Iri(1), Iri(value), Num(5)>>, <<Iri(2), Iri(value), Str(1)>>},
                   transient |-> {<<Iri(3), Iri(knows), Iri(1)>>, <<Iri(3), Iri(value), Num(6)>>}]
  @@ Other :> [asserted |-> {<<Iri(1), Iri(knows), Iri(7)>>}, transient |-> {}]

x == Var("x")
y == Var("y")
z == Var("z")
K(s, o)     == Triple(s, Const(Iri(knows)), o)
W(s, o)     == Triple(s, Const(Iri(value)), o)
Group2(ts)  == Items(<<Block([i \in DOMAIN ts |-> Subject(Atom(ts[i].s), <<Prop(Verb(PathIri(ts[i].p.t.n)), <<Atom(ts[i].o)>>)>>)])>>)
In(t, g)    == Quad(t, Const(g))
Anyone      == Triple(Var("s"), Var("p"), Var("o"))
MCRequests == {
  \* Values move along an edge: a delete and an insert that meet.
  Modify(NoUsing, <<InDefault(W(y, z))>>, <<InDefault(W(x, z))>>, NoUsing, Group2(<<K(x, y), W(y, z)>>)),
  \* The edges turn round.
  Modify(NoUsing, <<InDefault(K(x, y))>>, <<InDefault(K(y, x))>>, NoUsing, Group2(<<K(x, y)>>)),
  \* A blank node for every value, in two graphs, one of them new.
  Modify(NoUsing, <<>>, <<InDefault(K(x, Label("b"))), In(W(Label("b"), z), Unknown)>>, NoUsing, Group2(<<W(x, z)>>)),
  \* Deletes of two graphs, the second of which is not there.
  Modify(NoUsing, <<InDefault(K(x, y)), In(K(x, y), Unknown)>>, <<In(K(y, x), Other)>>, NoUsing, Group2(<<K(x, y)>>)),
  \* An object that is not a subject.
  Modify(NoUsing, <<InDefault(W(x, z))>>, <<InDefault(K(z, x)), In(W(x, z), Other)>>, NoUsing, Group2(<<W(x, z)>>)),
  DeleteWhere(<<InDefault(K(x, y)), InDefault(W(y, z))>>),
  AddGraph(Const(DefaultGraph), Const(Other)) \o DeleteWhere(<<In(W(x, z), Other)>>),
  Move(Const(Other), Const(DefaultGraph)),
  DeleteWhere(<<InDefault(W(x, z))>>) \o <<InsertData(<<InDefault(K(Const(Iri(1)), Const(Iri(1))))>>)>>,
  Modify(<<Const(Other)>>, <<InDefault(K(x, y))>>, <<>>, NoUsing, Group2(<<K(x, y)>>)) }
MCConstructs == {
  [template |-> <<InDefault(K(y, x))>>, p |-> Project(Bgp(<<K(x, y)>>), <<"x", "y">>)],
  [template |-> <<InDefault(W(Label("b"), z)), InDefault(K(Label("b"), x))>>, p |-> Project(Bgp(<<W(x, z)>>), <<"x", "z">>)] }
=============================================================================
