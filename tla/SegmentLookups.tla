--------------------------- MODULE SegmentLookups ---------------------------
(***************************************************************************)
(* The lookups on the sorted subjects (or objects) of a segment, for every *)
(* column that a segment can have.                                         *)
(***************************************************************************)
EXTENDS SparseIndex

CONSTANTS Strings,              \* the strings of subjects, numbers in their order
          MaxRows               \* bound: rows of a segment

ASSUME StringsAssumption == Strings \subseteq Nat

VARIABLE column                 \* the strings of the rows, sorted
columnVars == <<column>>

ColumnTypeOK == /\ column \in Seq(Strings)
                /\ Len(column) <= MaxRows

ColumnInit == column = <<>>

\* The column with one more row: rows come sorted by their string.
AddRow == \E s \in Strings :
            /\ Len(column) < MaxRows
            /\ column # <<>> => Last(column) <= s
            /\ column' = Append(column, s)
ColumnNext == AddRow
ColumnSpec == ColumnInit /\ [][ColumnNext]_columnVars

---------------------------------------------------------------------------
(* Properties. *)

RowsWith(S) == {i \in 0..(Len(column) - 1) : RowAt(column, i) \in S}
Covered(iv) == iv[1]..(iv[1] + iv[2] - 1)

\* Looking up some strings reads every row that has one of them, reads no
\* row twice, and reads no row outside of the segment.
LookupComplete ==
  \A S \in SUBSET Strings : (IsFiniteSet(S) /\ column # <<>>) =>
    LET ivs == LookupOffsets(S, CreateSparseIndex(column), Len(column))
    IN  /\ RowsWith(S) \subseteq UNION {Covered(ivs[i]) : i \in DOMAIN ivs}
        /\ UNION {Covered(ivs[i]) : i \in DOMAIN ivs} \subseteq 0..(Len(column) - 1)
        /\ \A i, j \in DOMAIN ivs : i # j => Covered(ivs[i]) \cap Covered(ivs[j]) = {}

RangeOf(from, to)   == RowsWith({s \in Strings : from <= s /\ s <= to})
ReadIn(from, to)  == Covered(Between(column, from, to))

\* Reading the rows between two strings never misses one, whatever the
\* number of rows that have the same string, and the end that is found for
\* them is not before their start (the assertion before the slice is taken).
BetweenComplete ==
  \A from, to \in Strings : (from <= to /\ column # <<>>) =>
    RangeOf(from, to) \subseteq ReadIn(from, to) /\ Between(column, from, to)[2] >= 0

\* It reads no other row as long as no string has more rows than a step.
BetweenExactIfFew ==
  (\A s \in Strings : Cardinality(RowsWith({s})) <= OffsetStep) =>
    \A from, to \in Strings : (from <= to /\ column # <<>>) => ReadIn(from, to) = RangeOf(from, to)
=============================================================================
