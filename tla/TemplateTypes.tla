--------------------------- MODULE TemplateTypes ---------------------------
(***************************************************************************)
(* The types of template parameters: how they are ordered, joined, and     *)
(* checked against a table.  The types and values of constants.            *)
(***************************************************************************)
EXTENDS Templates, TLC

CONSTANTS IriStrings,        \* the strings that parse as IRIs
          DayOf              \* datetime -> its date

Resource       == Basic("rdfs:Resource")

\* The basic types in the order of their IRIs, which is how they compare.
TypeOrder ==
  <<"ottr:BlankNode", "ottr:IRI", "rdfs:Class", "rdfs:Datatype", "rdfs:Literal", "rdfs:Resource",
    "xsd:boolean", "xsd:byte", "xsd:date", "xsd:dateTime", "xsd:dateTimeStamp", "xsd:dayTimeDuration",
    "xsd:decimal", "xsd:double", "xsd:duration", "xsd:float", "xsd:int", "xsd:integer", "xsd:long",
    "xsd:negativeInteger", "xsd:nonNegativeInteger", "xsd:nonPositiveInteger", "xsd:positiveInteger",
    "xsd:short", "xsd:string", "xsd:unsignedByte", "xsd:unsignedInt", "xsd:unsignedLong",
    "xsd:unsignedShort", "xsd:yearMonthDuration", "owl:AnnotationProperty", "owl:Class",
    "owl:DatatypeProperty", "owl:NamedIndividual", "owl:ObjectProperty", "owl:rational", "owl:real">>
TypeRank(n) == CHOOSE i \in DOMAIN TypeOrder : TypeOrder[i] = n

IriTypes == {"ottr:IRI", "owl:Class", "owl:NamedIndividual", "owl:ObjectProperty", "owl:DatatypeProperty",
             "owl:AnnotationProperty", "rdfs:Class", "rdfs:Datatype"}
IsIri(t)            == t.k = "Basic" /\ t.of \in IriTypes
PossiblyLiteral(n)  == n # "ottr:BlankNode" /\ n \notin IriTypes

\* The next wider literal type.
Wider ==
  "xsd:byte" :> "xsd:short" @@ "xsd:short" :> "xsd:int" @@ "xsd:int" :> "xsd:long" @@
  "xsd:long" :> "xsd:integer" @@ "xsd:unsignedByte" :> "xsd:unsignedShort" @@
  "xsd:unsignedShort" :> "xsd:unsignedInt" @@ "xsd:unsignedInt" :> "xsd:unsignedLong" @@
  "xsd:unsignedLong" :> "xsd:positiveInteger" @@ "xsd:positiveInteger" :> "xsd:nonNegativeInteger" @@
  "xsd:negativeInteger" :> "xsd:nonPositiveInteger" @@ "xsd:nonNegativeInteger" :> "xsd:integer" @@
  "xsd:nonPositiveInteger" :> "xsd:integer" @@ "xsd:integer" :> "xsd:decimal" @@
  "xsd:decimal" :> "owl:rational" @@ "owl:rational" :> "owl:real" @@ "xsd:float" :> "xsd:double" @@
  "xsd:yearMonthDuration" :> "xsd:duration" @@ "xsd:dayTimeDuration" :> "xsd:duration" @@
  "xsd:dateTimeStamp" :> "xsd:dateTime"
RECURSIVE IsLiteralSubtype(_, _)
IsLiteralSubtype(s, t) ==
  \/ s = t
  \/ t = "rdfs:Literal"
  \/ s \in DOMAIN Wider /\ IsLiteralSubtype(Wider[s], t)
IsLiteralSubtypeExt(s, t) == PossiblyLiteral(s) /\ PossiblyLiteral(t) /\ IsLiteralSubtype(s, t)

MinType(l, r) == IF TypeRank(l.of) <= TypeRank(r.of) THEN l ELSE r

\* Of two basic types that go together the first by IRI, of two lists the one
\* that may not be empty; a list and a resource make the list, in this order.
RECURSIVE Lub(_, _)
Lub(l, r) ==
  CASE l = r -> l
    [] l # r /\ l.k = "Basic" /\ r.k = "Basic" ->
         IF \/ IsIri(l) /\ IsIri(r)
            \/ Resource \in {l, r}
            \/ IsLiteralSubtypeExt(l.of, r.of)
            \/ IsLiteralSubtypeExt(r.of, l.of)
         THEN MinType(l, r)
         ELSE Clash
    [] l.k \in ListKinds /\ r = Resource -> l
    [] l # r /\ l.k \in ListKinds /\ r.k \in ListKinds ->
         LET inner == Lub(l.of, r.of)
         IN  IF inner = Clash THEN Clash
             ELSE [k |-> IF "NEList" \in {l.k, r.k} THEN "NEList" ELSE "List", of |-> inner]
    [] OTHER -> Clash

---------------------------------------------------------------------------
(* Constants.                                                              *)

LiteralOf == "Boolean" :> "xsd:boolean" @@ "Int32" :> "xsd:int" @@ "Int64" :> "xsd:long" @@
             "String" :> "xsd:string" @@ "Date" :> "xsd:date" @@ "Datetime" :> "xsd:dateTime" @@ "Null" :> "None"
InputDtype(n) ==
  CASE n \in {"xsd:integer", "xsd:long"} -> Dtype("Int64")
    [] n = "xsd:int" -> Dtype("Int32")
    [] n = "xsd:boolean" -> Dtype("Boolean")
    [] n = "xsd:date" -> Dtype("Date")
    [] n \in {"xsd:dateTime", "xsd:dateTimeStamp"} -> Dtype("Datetime with zone")
    [] n \in {"xsd:decimal", "xsd:double", "xsd:float", "xsd:short", "xsd:byte", "xsd:unsignedByte",
              "xsd:unsignedShort", "xsd:unsignedInt", "xsd:unsignedLong"} -> Dtype(n)
    [] OTHER -> Dtype("String")

\* Constants.  A list holds no blank nodes, at least one term, and one type.
RECURSIVE HasBlank(_), ConstValue(_), ConstMct(_), ConstantSane(_)
HasBlank(c) == c.k = "bnode" \/ (c.k = "list" /\ \E i \in DOMAIN c.items : HasBlank(c.items[i]))
ConstantSane(c) ==
  c.k = "list" => /\ c.items # <<>>
                  /\ \A i \in DOMAIN c.items : ConstantSane(c.items[i]) /\ ConstMct(c.items[i]) = ConstMct(c.items[1])
ConstValue(c) ==
  CASE c.k = "none" -> Null
    [] c.k = "list" -> ListV([i \in DOMAIN c.items |-> ConstValue(c.items[i])])
    [] OTHER -> Raw(c.v)
ConstMct(c) ==
  CASE c.k = "iri"  -> Flat("IRI")
    [] c.k = "lit"  -> Flat(c.type)
    [] c.k = "none" -> Flat("None")
    [] c.k = "list" -> Nested(ConstMct(c.items[1]))

---------------------------------------------------------------------------
(* Validation.  A table has rows, the data type of each column, and the    *)
(* types that the caller gives for some of them.                           *)

Mismatch == [k |-> "mismatch"]

RECURSIVE CastDatetimeToDate(_, _)
CastDatetimeToDate(ptype, dtype) ==
  CASE ptype.k = "Basic" /\ dtype.k = "List" -> CastDatetimeToDate(ptype, dtype.of)
    [] ptype.k = "Basic" /\ dtype.k = "Datetime" /\ ptype.of = "xsd:date" -> Dtype("Date")
    [] ptype.k \in ListKinds /\ dtype.k = "List" ->
         LET d == CastDatetimeToDate(ptype.of, dtype.of) IN IF d = Mismatch THEN Mismatch ELSE ListDtype(d)
    [] OTHER -> Mismatch

RECURSIVE ToDays(_)
ToDays(v) == CASE v.k = "raw" -> Raw(DayOf[v.v])
               [] v.k = "list" -> ListV([i \in DOMAIN v.items |-> ToDays(v.items[i])])
               [] OTHER -> v

Autoconvert(tb, p) ==
  IF ~Has(tb.dtype, p.v) \/ p.type = Untyped THEN tb
  ELSE LET d == CastDatetimeToDate(p.type, tb.dtype[p.v])
       IN  IF d = Mismatch THEN tb
           ELSE [tb EXCEPT !.dtype[p.v] = d, !.given = [n \in DOMAIN @ \ {p.v} |-> @[n]],
                           !.rows = [i \in DOMAIN @ |-> [@[i] EXCEPT ![p.v] = ToDays(@)]]]

RECURSIVE MctOfDtype(_)
MctOfDtype(d) == CASE d.k = "List" -> LET m == MctOfDtype(d.of) IN IF m = Mismatch THEN Mismatch ELSE Nested(m)
                   [] d.k \in DOMAIN LiteralOf -> Flat(LiteralOf[d.k])
                   [] OTHER -> Mismatch

\* Only the first value of a column decides whether it holds IRIs.
IsIriCol(dtype, vs) ==
  dtype.k = "String" /\ \E i \in DOMAIN vs : /\ ~IsNull(vs[i]) /\ vs[i].v \in IriStrings
                                             /\ \A j \in 1..(i - 1) : IsNull(vs[j])

RECURSIVE MctFromPtype(_, _)
MctFromPtype(ptype, d) ==
  LET Literal == IF d.k \in DOMAIN LiteralOf THEN Flat(LiteralOf[d.k]) ELSE Mismatch
  IN  CASE ptype.k = "None" -> Literal
        [] ptype.k = "Basic" ->
             CASE d.k = "Null" -> Flat("None")
               [] d.k # "Null" /\ ptype.of \in IriTypes -> IF d.k = "String" THEN Flat("IRI") ELSE Mismatch
               [] d.k # "Null" /\ ptype.of = "ottr:BlankNode" -> IF d.k = "String" THEN Flat("Blank") ELSE Mismatch
               [] d.k # "Null" /\ ptype.of \in {"rdfs:Literal", "rdfs:Resource"} -> Literal
               [] OTHER -> IF \/ InputDtype(ptype.of) = d
                              \/ Literal # Mismatch /\ IsLiteralSubtypeExt(Literal.of, ptype.of)
                           THEN Flat(ptype.of)
                           ELSE Mismatch
        [] OTHER -> IF d.k # "List" THEN Mismatch
                    ELSE LET m == MctFromPtype(ptype.of, d.of) IN IF m = Mismatch THEN Mismatch ELSE Nested(m)

ColumnOf(tb, n) == [i \in DOMAIN tb.rows |-> tb.rows[i][n]]
Required(p)     == ~p.optional /\ p.default = NoDefault

ColumnType(tb, p) ==
  CASE Has(tb.given, p.v) -> tb.given[p.v]
    [] ~Has(tb.given, p.v) /\ p.type # Untyped -> MctFromPtype(p.type, tb.dtype[p.v])
    [] OTHER -> IF IsIriCol(tb.dtype[p.v], ColumnOf(tb, p.v)) THEN Flat("IRI") ELSE MctOfDtype(tb.dtype[p.v])

\* The values of an IRI column, flat or in a list, that are no IRIs.
BadIris(m, v) ==
  LET Bad(w) == ~IsNull(w) /\ w.v \notin IriStrings
  IN  CASE m = Flat("IRI") -> Bad(v)
        [] m = Nested(Flat("IRI")) -> ~IsNull(v) /\ \E i \in DOMAIN v.items : Bad(v.items[i])
        [] OTHER -> FALSE

\* The table converted, with the type of every column, or Failed.
Validate(table, params, validateIris) ==
  IF table = NoTable
  THEN IF params = <<>> THEN [ok |-> TRUE, rows |-> <<>>, dyn |-> <<>>] ELSE Failed
  ELSE LET tb == FoldLeft(Autoconvert, table, params)
           ps == {params[i] : i \in DOMAIN params}
           present == {p \in ps : Has(tb.dtype, p.v)}
           dyn == [n \in {p.v : p \in present} |-> ColumnType(tb, CHOOSE p \in present : p.v = n)]
       IN  IF \/ DOMAIN tb.dtype # {p.v : p \in present}
              \/ \E p \in ps \ present : Required(p)
              \/ \E p \in ps : Required(p) /\ \E i \in DOMAIN table.rows : IsNull(table.rows[i][p.v])
              \/ \E n \in DOMAIN dyn : dyn[n] = Mismatch
              \/ validateIris /\ \E n \in DOMAIN dyn : \E i \in DOMAIN tb.rows : BadIris(dyn[n], tb.rows[i][n])
           THEN Failed
           ELSE [ok |-> TRUE, rows |-> tb.rows, dyn |-> dyn]

---------------------------------------------------------------------------
(* Types read off columns and types written down.                          *)

\* The type of a parameter that is made for a column.
RECURSIVE PtypeOf(_)
PtypeOf(m) == CASE m.k = "Nested" -> ListType(PtypeOf(m.of))
                [] m = Flat("None") -> NoneType
                [] m = Flat("IRI") -> Basic("ottr:IRI")
                [] m = Flat("Blank") -> Basic("ottr:BlankNode")
                [] OTHER -> Basic(m.of)
TypeForColumn(table, c) == PtypeOf(ColumnType(table, Param(c, Untyped)))

\* The type that the lists of a type are lists of in the end.
RECURSIVE BasicOf(_)
BasicOf(t) == IF t.k \in ListKinds THEN BasicOf(t.of) ELSE t.of
=============================================================================
