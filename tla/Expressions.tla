---------------------------- MODULE Expressions ----------------------------
(***************************************************************************)
(* The operations of expressions on whole columns.  A column has the types *)
(* it may hold and a value per row.  What an operation does depends on the *)
(* types of the columns first and on the values second.                    *)
(***************************************************************************)
EXTENDS Tables

Column(types, vals) == [ok |-> TRUE, types |-> types, vals |-> vals]
Booleans(vals)      == Column({"boolean"}, vals)
Constant(t, n)      == Column({t.type}, [i \in 1..n |-> t])
Nulls(n)            == [i \in 1..n |-> Null]
NoneColumn(n)       == Column(NoneType, Nulls(n))
IsNone(c)           == c.types = NoneType
Height(c)           == Len(c.vals)
IsBoolean(c)        == c.types = {"boolean"}

\* A variable or BOUND needs the column to be there.
VariableColumn(tab, v) ==
  IF v \in Cols(tab) THEN Column(tab.types[v], [i \in DOMAIN tab.rows |-> tab.rows[i][v]]) ELSE Failed
BoundColumn(tab, v) ==
  IF v \in Cols(tab) THEN Booleans([i \in DOMAIN tab.rows |-> Bool(tab.rows[i][v] # Null)]) ELSE Failed

---------------------------------------------------------------------------
(* Comparisons.                                                            *)

\* Equality is per type: of terms of two types it is false, of a null too.
TypedEquals(l, r) == Booleans([i \in DOMAIN l.vals |-> Bool(l.vals[i] # Null /\ l.vals[i] = r.vals[i])])

Numeric(t)  == t \in NumberTypes
Comparable(lt, rt) == (Numeric(lt) /\ Numeric(rt)) \/ (lt = rt /\ lt \in {"boolean", "string"})
LiteralPairs(l, r) == (l.types \cap LiteralTypes) \X (r.types \cap LiteralTypes)

Ordered(op, a, b) == CASE op = "gt" -> a.n > b.n [] op = "ge" -> a.n >= b.n
                       [] op = "lt" -> a.n < b.n [] op = "le" -> a.n <= b.n
TypedComparison(op, l, r) ==
  Booleans([i \in DOMAIN l.vals |->
    IF <<l.vals[i].type, r.vals[i].type>> \in {p \in LiteralPairs(l, r) : Comparable(p[1], p[2])}
    THEN Bool(Ordered(op, l.vals[i], r.vals[i])) ELSE Null])

---------------------------------------------------------------------------
(* Arithmetic: the result has the wider type of the two.                   *)

Wider(lt, rt) == IF "integer" \in {lt, rt} THEN "integer" ELSE "short"
Computed(op, a, b) ==
  Term(Wider(a.type, b.type),
       CASE op = "add" -> a.n + b.n [] op = "sub" -> a.n - b.n [] op = "mul" -> a.n * b.n)
NumericalOperation(op, l, r) ==
  LET pairs == {p \in LiteralPairs(l, r) : Numeric(p[1]) /\ Numeric(p[2])}
  IN  IF pairs = {} THEN NoneColumn(Height(l))
      ELSE Column({Wider(p[1], p[2]) : p \in pairs},
                  [i \in DOMAIN l.vals |->
                     IF <<l.vals[i].type, r.vals[i].type>> \in pairs
                     THEN Computed(op, l.vals[i], r.vals[i]) ELSE Null])

---------------------------------------------------------------------------
(* Logic with nulls; the columns must be boolean.                          *)

OrValue(a, b)  == CASE a = Bool(TRUE) \/ b = Bool(TRUE) -> Bool(TRUE)
                    [] a = Bool(FALSE) /\ b = Bool(FALSE) -> Bool(FALSE)
                    [] OTHER -> Null
NotValue(a)    == IF a = Null THEN Null ELSE Bool(a = Bool(FALSE))
AndValue(a, b) == NotValue(OrValue(NotValue(a), NotValue(b)))
Logical(op, l, r) ==
  IF ~IsBoolean(l) \/ ~IsBoolean(r) THEN Failed
  ELSE Booleans([i \in DOMAIN l.vals |->
         IF op = "or" THEN OrValue(l.vals[i], r.vals[i]) ELSE AndValue(l.vals[i], r.vals[i])])

BooleanOps == {"or", "and", "eq", "same", "gt", "ge", "lt", "le"}
\* With a side that holds nothing the result holds nothing.
BinaryExpression(op, l, r) ==
  CASE IsNone(l) \/ IsNone(r) ->
         Column(IF op \in BooleanOps THEN {"boolean"} ELSE NoneType, Nulls(Height(l)))
    [] OTHER -> CASE op \in {"eq", "same"}             -> TypedEquals(l, r)
                  [] op \in {"gt", "ge", "lt", "le"}   -> TypedComparison(op, l, r)
                  [] op \in {"add", "sub", "mul"}      -> NumericalOperation(op, l, r)
                  [] op \in {"or", "and"}              -> Logical(op, l, r)

NotExpression(c) ==
  IF IsBoolean(c) \/ IsNone(c) THEN Booleans([i \in DOMAIN c.vals |-> NotValue(c.vals[i])]) ELSE Failed
UnaryMinus(c) ==
  IF \E ty \in NumberTypes : c.types = {ty}
  THEN [c EXCEPT !.vals = [i \in DOMAIN @ |-> IF @[i] = Null THEN Null ELSE Term(@[i].type, 0 - @[i].n)]]
  ELSE Failed

\* A null condition chooses the second branch.
IfExpression(c, mid, right) ==
  IF ~(IsBoolean(c) \/ IsNone(c)) THEN Failed
  ELSE Column(mid.types \cup right.types,
              [i \in DOMAIN c.vals |-> IF c.vals[i] = Bool(TRUE) THEN mid.vals[i] ELSE right.vals[i]])

\* Every type is coalesced on its own, so a row with values of two types
\* would get both: such a column is outside this model.
CoalesceContexts(cs) ==
  LET some      == SelectSeq(cs, LAMBDA c : ~IsNone(c))
      Given(i) == SelectSeq([k \in DOMAIN some |-> some[k].vals[i]], LAMBDA x : x # Null)
      mixed     == \E i \in 1..Height(cs[1]) : Cardinality({x.type : x \in ToSet(Given(i))}) > 1
  IN  CASE some = <<>> -> NoneColumn(Height(cs[1]))
        [] some # <<>> /\ mixed -> Failed
        [] OTHER -> Column((UNION {c.types : c \in ToSet(some)}) \ NoneType,
                           [i \in 1..Height(cs[1]) |-> IF Given(i) = <<>> THEN Null ELSE Head(Given(i))])

InExpression(l, rs) ==
  Booleans([i \in DOMAIN l.vals |->
    Bool(\E k \in DOMAIN rs : TypedEquals(l, rs[k]).vals[i] = Bool(TRUE))])

---------------------------------------------------------------------------
(* Functions.  A text is as long as its number; a number has one digit and *)
(* an IRI or a blank node a label of twenty letters.                       *)

TypeTest(c, types) == Booleans([i \in DOMAIN c.vals |-> Bool(c.vals[i].type \in types)])
LengthOf(x) == CASE x.type = "string" -> x.n [] x.type \in NumberTypes -> 1
                 [] x.type = "boolean" -> 5 - x.n [] OTHER -> 20
StrLen(c) ==
  Column({"integer"}, [i \in DOMAIN c.vals |-> IF c.vals[i] = Null THEN Null ELSE Num(LengthOf(c.vals[i]))])

\* STRSTARTS, STRENDS and CONTAINS: the second argument must be of strings only.
StartsEndsContains(c, part) ==
  IF part.types # {"string"} THEN Failed
  ELSE Booleans([i \in DOMAIN c.vals |->
         IF c.vals[i].type = "string" /\ part.vals[i] # Null
         THEN Bool(c.vals[i].n >= part.vals[i].n) ELSE Null])

\* Nulls and what is not a string are left out of CONCAT.
Concat(cs) ==
  Column({"string"}, [i \in 1..Height(cs[1]) |->
    Str(FoldLeft(LAMBDA n, c : IF c.vals[i].type = "string" THEN n + c.vals[i].n ELSE n, 0, cs))])

FuncExpression(f, cs) ==
  CASE f = "isiri"     -> TypeTest(cs[1], {"iri"})
    [] f = "isblank"   -> TypeTest(cs[1], {"blank"})
    [] f = "isliteral" -> TypeTest(cs[1], LiteralTypes)
    [] f = "strlen"    -> StrLen(cs[1])
    [] f \in {"contains", "strstarts", "strends"} -> StartsEndsContains(cs[1], cs[2])
    [] f = "concat"    -> IF Len(cs) < 2 THEN Failed ELSE Concat(cs)
    [] f = "decode"    -> cs[1]            \* only how strings are stored changes

\* The operation of an expression on the columns of its arguments.
Operation(e, cs) ==
  CASE e.op \in BooleanOps \cup {"add", "sub", "mul"} -> BinaryExpression(e.op, cs[1], cs[2])
    [] e.op = "in"       -> InExpression(cs[1], Tail(cs))
    [] e.op = "uplus"    -> cs[1]
    [] e.op = "uminus"   -> UnaryMinus(cs[1])
    [] e.op = "not"      -> NotExpression(cs[1])
    [] e.op = "if"       -> IfExpression(cs[1], cs[2], cs[3])
    [] e.op = "coalesce" -> CoalesceContexts(cs)
    [] e.op = "call"     -> FuncExpression(e.f, cs)
=============================================================================
