----------------------------- MODULE MCMappings -----------------------------
(***************************************************************************)
(* Four documents of templates and the tables mapped with them.            *)
(***************************************************************************)
EXTENDS TemplateReference

Iri(x)     == Raw(<<x>>)
Pred(x)    == ConstTerm(IriConst(<<x>>))
Var(n)     == Arg(VarTerm(n))
Blank(l)   == Arg(ConstTerm(BnodeConst(l)))
TripleOf(s, p, o)       == Instance("none", OttrTriple, <<s, Arg(Pred(p)), o>>)
CrossTriple(s, p, o)    == Instance("cross", OttrTriple, <<s, Arg(Pred(p)), o>>)
MCIriStrings == {<<"ex:a">>, <<"ex:b">>, <<"ex:p">>}
MCDayOf      == <<"d1T1">> :> <<"d1">>
Str          == Dtype("String")
IriType      == Basic("ottr:IRI")
Table(dtype, rows) == [dtype |-> dtype, rows |-> rows, given |-> <<>>]

\* Optional and list arguments, a list both expanded and as a list.
Person ==
  Template("Person", <<Param("p", Untyped), Optional(Param("name", Untyped)), Optional(Param("tags", Untyped))>>,
    <<TripleOf(Var("p"), "ex:name", Var("name")),
      CrossTriple(Var("p"), "ex:tag", Expanded(VarTerm("tags"))),
      TripleOf(Var("p"), "ex:tags", Var("tags"))>>)
\* Blank nodes shared within and below a body, a default, an optional callee.
Street ==
  Template("Street", <<Param("a", Untyped), Optional(Param("s", Basic("xsd:string"))),
                       Default(Param("c", Untyped), IriConst(<<"ex:b">>))>>,
    <<TripleOf(Var("a"), "ex:street", Var("s")),
      TripleOf(Var("a"), "ex:country", Var("c")),
      TripleOf(Var("a"), "ex:near", Blank("b"))>>)
Address ==
  Template("Address", <<Param("p", Untyped), Optional(Param("t", Untyped)), Optional(Param("u", IriType))>>,
    <<TripleOf(Var("p"), "ex:address", Blank("b")),
      Instance("none", "Street", <<Blank("b"), Var("t"), Var("u")>>)>>)
\* Two addresses: the blank nodes of their streets are one.
Twice ==
  Template("Twice", <<Param("p", Untyped)>>,
    <<Instance("none", "Address", <<Var("p"), Arg(ConstTerm(LitConst("xsd:string", <<"x">>))), Arg(ConstTerm(NoneConst))>>),
      Instance("none", "Address", <<Var("p"), Arg(ConstTerm(LitConst("xsd:string", <<"y">>))), Arg(ConstTerm(NoneConst))>>)>>)
\* Lists in step, through a template, with a required argument that may lack.
Pair ==
  Template("Pair", <<Param("x", IriType), Param("y", Untyped), Optional(Param("z", Untyped))>>,
    <<TripleOf(Var("x"), "ex:p", Var("y")), TripleOf(Var("x"), "ex:q", Var("z"))>>)
Pairs ==
  Template("Pairs", <<Param("xs", Untyped), Optional(Param("ys", Untyped))>>,
    <<Instance("zipMin", "Pair", <<Expanded(VarTerm("xs")), Expanded(VarTerm("ys")), Blank("n")>>),
      Instance("zipMax", "Pair", <<Expanded(VarTerm("xs")), Arg(ConstTerm(LitConst("xsd:long", <<"1">>))), Blank("n")>>)>>)
\* No parameters, and a list of constants.
Fixed ==
  Template("Fixed", <<>>,
    <<CrossTriple(Blank("f"), "ex:n", Expanded(ConstTerm(ListConst(<<LitConst("xsd:long", <<"1">>), LitConst("xsd:long", <<"2">>)>>)))),
      TripleOf(Arg(Pred("ex:a")), "ex:p", Arg(Pred("ex:b")))>>)
\* Two templates that call each other, crosswise, so that a type goes round
\* both, and one that calls none that is there.
Ping == Template("Ping", <<Param("x", Untyped), Param("y", Resource)>>, <<Instance("none", "Pong", <<Var("y"), Var("x")>>)>>)
Pong == Template("Pong", <<Param("x", IriType), Param("y", Untyped)>>, <<Instance("none", "Ping", <<Var("x"), Var("y")>>)>>)
Lost == Template("Lost", <<Param("x", Untyped)>>, <<Instance("none", "Nowhere", <<Var("x")>>)>>)
NewStreet ==
  Template("Street", <<Param("a", Untyped), Param("s", Untyped), Optional(Param("c", IriType))>>,
    <<TripleOf(Var("s"), "ex:of", Var("a"))>>)

MCDocuments == {<<Person>>, <<Street, Address, Twice>>, <<Pairs, Pair, Fixed>>, <<Ping, Pong>>}
MCSingles   == {Lost, NewStreet}

PersonTable ==
  Table([p |-> Str, name |-> Str, tags |-> ListDtype(Str)],
        <<[p |-> Iri("ex:a"), name |-> Raw(<<"x">>), tags |-> ListV(<<Raw(<<"x">>), Raw(<<"y">>)>>)],
          [p |-> Iri("ex:b"), name |-> Null, tags |-> ListV(<<Raw(<<"x">>)>>)]>>)
NamesOnly ==
  Table([p |-> Str, name |-> Dtype("Int64")],
        <<[p |-> Iri("ex:a"), name |-> Raw(<<"1">>)], [p |-> Iri("ex:b"), name |-> Null]>>)
BadPerson == Table([p |-> Str], <<[p |-> Iri("no iri")]>>)
AddressTable ==
  Table([p |-> Str, t |-> Str, u |-> Str],
        <<[p |-> Iri("ex:a"), t |-> Raw(<<"x">>), u |-> Iri("ex:a")], [p |-> Iri("ex:b"), t |-> Null, u |-> Iri("ex:b")]>>)
AddressOnly == Table([p |-> Str], <<[p |-> Iri("ex:a")], [p |-> Iri("ex:b")]>>)
PairsTable ==
  Table([xs |-> ListDtype(Str), ys |-> ListDtype(Dtype("Int64"))],
        <<[xs |-> ListV(<<Iri("ex:a"), Iri("ex:b")>>), ys |-> ListV(<<Raw(<<"1">>), Raw(<<"2">>)>>)],
          [xs |-> ListV(<<Iri("ex:b")>>), ys |-> ListV(<<Raw(<<"2">>)>>)]>>)
EdgesTable == Table([x |-> Str, y |-> Str], <<[x |-> Iri("ex:a"), y |-> Iri("ex:b")]>>)
XsOnly == Table([xs |-> ListDtype(Str)], <<[xs |-> ListV(<<Iri("ex:a"), Iri("ex:b")>>)], [xs |-> ListV(<<>>)]>>)
MCCalls == {
  [name |-> "Person", table |-> PersonTable, iris |-> TRUE],
  [name |-> "Person", table |-> NamesOnly, iris |-> TRUE],
  [name |-> "Person", table |-> BadPerson, iris |-> TRUE],
  [name |-> "Address", table |-> AddressTable, iris |-> TRUE],
  [name |-> "Address", table |-> AddressOnly, iris |-> TRUE],
  [name |-> "Twice", table |-> AddressOnly, iris |-> FALSE],
  [name |-> "Pairs", table |-> PairsTable, iris |-> TRUE],
  [name |-> "Pairs", table |-> XsOnly, iris |-> TRUE],
  [name |-> "Ping", table |-> EdgesTable, iris |-> TRUE],
  [name |-> "Fixed", table |-> NoTable, iris |-> TRUE] }

\* A key, a reference, days given as times, and a list.
MCDefaults == {
  [table |-> [Table([k |-> Dtype("Int64"), r |-> Str, d |-> Dtype("Datetime"), l |-> ListDtype(Dtype("Int64"))],
                    <<[k |-> Iri("ex:a"), r |-> Iri("ex:b"), d |-> Raw(<<"d1T1">>), l |-> ListV(<<Raw(<<"1">>), Raw(<<"2">>)>>)],
                      [k |-> Iri("ex:b"), r |-> Null, d |-> Null, l |-> ListV(<<>>)]>>) EXCEPT !.given = "d" :> Flat("xsd:date")],
   columns |-> <<"k", "r", "d", "l">>, pk |-> "k", fks |-> {"r"}] }

---------------------------------------------------------------------------
(* The hypotheses of the theorems about Mappings, on these documents and   *)
(* tables: what MappingsProofs assumes of Checked.                         *)

Libraries == {Put(Start, FromDocuments(doc)) : doc \in MCDocuments} \cup {Put(Start, <<t>>) : t \in MCSingles}
             \cup {Put(Start, <<DefaultTemplate(d)>>) : d \in MCDefaults}

\* A checked table keeps its columns, its lists are lists, and its blank nodes
\* are not named as those of a mapping are.
RECURSIVE ValueGiven(_, _)
ValueGiven(m, v) ==
  CASE IsNull(v) -> TRUE
    [] ~IsNull(v) /\ m.k = "Nested" -> v.k = "list" /\ \A i \in DOMAIN v.items : ValueGiven(m.of, v.items[i])
    [] OTHER -> v.k = "raw" /\ (m.of = "Blank" => v.v[1] \notin {"c", "l"})
ASSUME TablesHere ==
  \A table \in {call.table : call \in MCCalls} \cup {KeysAsStrings(d) : d \in MCDefaults} :
    \A params \in UNION {{ts[n].params : n \in DOMAIN ts} : ts \in Libraries} :
      LET valid == Validate(table, params, TRUE)
      IN  valid.ok =>
            /\ \A r \in DOMAIN valid.rows : /\ DOMAIN valid.rows[r] = DOMAIN valid.dyn
                                            /\ \A n \in DOMAIN valid.dyn : ValueGiven(valid.dyn[n], valid.rows[r][n])
            /\ table = NoTable => DOMAIN valid.dyn = {}

\* So are the constants of the templates.
Constants(t) == {t.params[i].default : i \in {j \in DOMAIN t.params : t.params[j].default # NoDefault}}
                \cup {a.t.c : a \in {b \in UNION {ToSet(t.body[i].args) : i \in DOMAIN t.body} : b.t.k = "const"}}
ASSUME ConstantsHere ==
  \A ts \in Libraries : \A n \in DOMAIN ts : \A c \in Constants(ts[n]) :
    ~HasBlank(c) /\ ConstantSane(c) => ValueGiven(ConstMct(c), ConstValue(c))
=============================================================================
