----------------------------- MODULE Templates -----------------------------
(***************************************************************************)
(* OTTR templates.  A template has parameters and a body of instances of   *)
(* other templates; ottr:Triple is the template that has no body.          *)
(* The parser is abstracted: a document is a sequence of templates.        *)
(***************************************************************************)
EXTENDS Naturals, FiniteSets, SequencesExt

---------------------------------------------------------------------------
(* Types of parameters.                                                    *)

Untyped        == [k |-> "untyped"]
NoneType       == [k |-> "None"]
Basic(n)       == [k |-> "Basic", of |-> n]
ListType(t)    == [k |-> "List", of |-> t]
NEListType(t)  == [k |-> "NEList", of |-> t]
ListKinds      == {"List", "NEList"}
Clash          == [k |-> "clash"]      \* of types that do not go together

---------------------------------------------------------------------------
(* Templates.                                                              *)

NoDefault            == [k |-> "no default"]
IriConst(v)          == [k |-> "iri", v |-> v]
LitConst(ty, v)      == [k |-> "lit", type |-> ty, v |-> v]
BnodeConst(v)        == [k |-> "bnode", v |-> v]
NoneConst            == [k |-> "none"]
ListConst(items)     == [k |-> "list", items |-> items]

Param(v, ty)         == [v |-> v, type |-> ty, optional |-> FALSE, default |-> NoDefault]
Optional(p)          == [p EXCEPT !.optional = TRUE]
Default(p, c)        == [p EXCEPT !.default = c]
VarTerm(n)           == [k |-> "var", n |-> n]
ConstTerm(c)         == [k |-> "const", c |-> c]
ListTerm             == [k |-> "list"]      \* a list with variables in it
Arg(t)               == [expand |-> FALSE, t |-> t]
Expanded(t)          == [expand |-> TRUE, t |-> t]
Instance(le, n, as)  == [expander |-> le, of |-> n, args |-> as]
Template(n, ps, is)  == [name |-> n, params |-> ps, body |-> is]

OttrTriple     == "ottr:Triple"
TripleTemplate == Template(OttrTriple, <<Param("subject", Basic("ottr:IRI")), Param("predicate", Basic("ottr:IRI")),
                                         Param("object", Untyped)>>, <<>>)

---------------------------------------------------------------------------
(* A dataset is a function from names to templates; "order" is what is     *)
(* known of the vector they lie in: those it names come last, in order.    *)

Failed    == [ok |-> FALSE]
Has(f, n) == n \in DOMAIN f
Highest(ns) == CHOOSE n \in ns : \A m \in ns : m <= n

FromDocuments(doc) == doc \o <<TripleTemplate>>

\* add_template, for one after the other: the last one of a name stays.
Put(ts, new) ==
  LET Of(n) == {i \in DOMAIN new : new[i].name = n}
  IN  [n \in DOMAIN ts \cup {new[i].name : i \in DOMAIN new} |->
         IF Of(n) = {} THEN ts[n] ELSE new[Highest(Of(n))]]
OfTemplates(new) == Put(<<>>, new)

MovedLast(order, n) ==
  LET at == {i \in DOMAIN order : order[i] = n}
  IN  Append(IF at = {} THEN order ELSE RemoveAt(order, CHOOSE i \in at : TRUE), n)
AllMovedLast(order, new) ==
  LET moved[i \in 0..Len(new)] == IF i = 0 THEN order ELSE MovedLast(moved[i - 1], new[i].name)
  IN  moved[Len(new)]

\* The orders the vector may be in.
Orders(ts, order) == {s \o order : s \in SetToSeqs(DOMAIN ts \ ToSet(order))}

---------------------------------------------------------------------------
(* Values in the columns of a table, and the types of columns.             *)

Null          == [k |-> "null"]
Raw(v)        == [k |-> "raw", v |-> v]
ListV(items)  == [k |-> "list", items |-> items]
Flat(b)       == [k |-> "Flat", of |-> b]
Nested(m)     == [k |-> "Nested", of |-> m]
Dtype(n)      == [k |-> n]
ListDtype(d)  == [k |-> "List", of |-> d]
NoTable       == [k |-> "no table"]

IsNull(v) == v.k = "null"

\* A null list counts as a list of one null.
Items(v) == IF IsNull(v) THEN <<Null>> ELSE v.items
=============================================================================
