----------------------------- MODULE MCQueries -----------------------------
(***************************************************************************)
(* Queries over a default graph of six triples, of several types of        *)
(* objects, one of them inferred, and a named graph.                       *)
(***************************************************************************)
EXTENDS Queries

x == Var("x")
y == Var("y")
z == Var("z")
knows == 11
value == 12
absent == 13
MCObjectSorted == {Iri(knows)}
Default == Iri(900)
Other   == Iri(98)
MCDataset ==
  Default :> [asserted |-> {<<Iri(1), Iri(knows), Iri(2)>>, <<Iri(2), Iri(knows), Iri(3)>>,
                            <<Iri(1), Iri(value), Num(5)>>, <<Iri(2), Iri(value), Num(6)>>,
                            <<Iri(2), Iri(value), Str(1)>>},
              transient |-> {<<Iri(3), Iri(value), Num(6)>>}]
  @@ Other :> [asserted |-> {<<Iri(1), Iri(knows), Iri(7)>>}, transient |-> {}]

Is(s, p, o)   == Subject(Atom(s), <<Prop(Verb(p), <<Atom(o)>>)>>)
The(s, p, o)  == Block(<<Is(s, PathIri(p), o)>>)
V(v)          == Leaf(ExVar(v))
C(t)          == Leaf(ExConst(t))
Test(v, o, t) == FilterItem(<<V(v), Op(o), C(t)>>)
Sub(q)        == Groups(<<Select(q)>>)

Blocks == {
  The(x, knows, y), The(x, value, z),
  Block(<<Subject(Atom(x), <<Prop(VerbVar("p"), <<Atom(z)>>)>>)>>),
  Block(<<Is(x, PathIri(knows), y), Is(y, PathIri(value), z)>>),
  Block(<<Subject(Atom(x), <<Prop(Verb(PathIri(knows)), <<Anon("b", <<Prop(Verb(PathIri(value)), <<Atom(z)>>)>>)>>)>>)>>),
  Block(<<Is(x, PathSome(PathIri(knows)), y)>>),
  Block(<<Is(y, PathReverse(PathIri(knows)), x)>>),
  Block(<<Is(x, PathSeq(PathIri(knows), PathMaybe(PathIri(knows))), y)>>) }
Optionals == {
  Optional(Items(<<The(y, value, Var("w"))>>)),
  Optional(Items(<<The(x, value, z), Test("z", ">", Num(5))>>)),
  Optional(Items(<<The(x, absent, Var("w"))>>)) }
Filters == {
  Test("z", "=", Num(5)),
  FilterItem(<<V("z"), Op(">"), C(Num(5)), Op("||"), V("x"), Op("="), C(Iri(1))>>),
  FilterItem(<<V("z"), Op("IN"), ListOf(<<<<C(Num(5))>>, <<C(Str(1))>>>>)>>),
  FilterItem(<<ExistsTok(Items(<<The(y, knows, Var("u"))>>), TRUE)>>),
  FilterItem(<<Op("!"), Leaf(ExBound("w"))>>),
  FilterItem(<<Call("isliteral", <<<<V("z")>>>>)>>) }
Others == {
  Groups(<<Items(<<The(x, knows, y)>>), Items(<<The(x, value, y)>>)>>),
  Groups(<<Items(<<The(x, value, z), Test("z", "<", Num(6))>>)>>),
  MinusItem(Items(<<The(x, knows, Const(Iri(2)))>>)),
  BindItem(<<V("z"), Op("+"), C(Num(1))>>, "v"),
  BindItem(<<Call("if", <<<<V("z"), Op("="), C(Num(5))>>, <<V("x")>>, <<C(Str(2))>>>>)>>, "d"),
  ValuesItem(<<"x", "z">>, <<<<Iri(1), Num(5)>>, <<Iri(2), Num(6)>>>>),
  ValuesItem(<<"z">>, <<<<Num(5)>>, <<Str(1)>>, <<Null>>>>),
  GraphItem(Const(Other), Items(<<The(x, knows, y)>>)),
  Sub([Query("q1", "default", <<Member("x", <<>>), Member("c", <<AggTok("count", <<V("z")>>, FALSE)>>)>>,
             Items(<<The(x, value, z)>>)) EXCEPT !.grouped = TRUE, !.group = <<Member("x", <<>>)>>]),
  Sub([Query("q2", "distinct", <<Member("x", <<>>)>>, Items(<<The(x, value, z)>>)) EXCEPT
        !.order = <<[ts |-> <<V("x")>>, desc |-> TRUE]>>, !.len = 1]) }
MoreItems == {
  Block(<<Is(x, PathAlt(PathIri(knows), PathIri(value)), y)>>),
  Block(<<Is(x, PathMany(PathIri(knows)), y)>>),
  Block(<<Is(x, PathNot(<<knows>>), y)>>),
  FilterItem(<<Call("strlen", <<<<Call("concat", <<<<C(Str(1))>>, <<C(Str(2))>>>>)>>>>), Op("="), C(Num(3))>>),
  FilterItem(<<Call("contains", <<<<V("z")>>, <<C(Str(1))>>>>)>>),
  BindItem(<<Call("coalesce", <<<<V("w")>>, <<V("z")>>>>)>>, "k"),
  BindItem(<<V("z"), Op("-"), C(Num(1)), Op("-"), C(Num(1))>>, "m"),
  Sub([Query("q3", "reduced", <<Member("x", <<>>), Member("s", <<AggTok("sum", <<V("y")>>, FALSE)>>)>>,
             Items(<<The(x, value, y), Test("y", ">", Num(0))>>)) EXCEPT !.grouped = TRUE, !.group = <<Member("x", <<>>)>>]),
  Sub([Query("q4", "default", <<Member("n", <<AggTok("count", <<>>, FALSE)>>)>>, Items(<<The(x, knows, y)>>)) EXCEPT
         !.grouped = TRUE]) }
SecondItems == (Blocks \cup Optionals) \cup (Filters \cup Others)
FirstItems  == SecondItems \cup MoreItems
\* The third item, under SELECT * only.
ThirdItems  == {Test("z", "=", Num(5)), The(x, value, z),
                FilterItem(<<ExistsTok(Items(<<The(y, knows, Var("u"))>>), TRUE)>>),
                FilterItem(<<Op("!"), Leaf(ExBound("w"))>>),
                Optional(Items(<<The(y, value, Var("w"))>>)),
                MinusItem(Items(<<The(x, knows, Const(Iri(2)))>>))}
MCItemSets  == <<FirstItems, SecondItems, ThirdItems>>

NoGroup == Items(<<>>)
Star    == Query("q", "default", <<Member("*", <<>>)>>, NoGroup)
MCHeads == {
  Star,
  [Query("q", "distinct", <<Member("x", <<>>)>>, NoGroup) EXCEPT
     !.order = <<[ts |-> <<V("x")>>, desc |-> TRUE]>>, !.from = 1, !.len = 1],
  [Query("q", "default", <<Member("x", <<>>), Member("n", <<AggTok("count", <<V("z")>>, TRUE), Op("+"), C(Num(1))>>)>>,
         NoGroup) EXCEPT !.grouped = TRUE, !.group = <<Member("x", <<>>)>>,
                         !.having = <<<<AggTok("count", <<V("z")>>, FALSE), Op(">"), C(Num(0))>>>>] }
MCMaxItems == [h \in MCHeads |-> IF h = Star THEN 3 ELSE 2]
=============================================================================
