---------------------------- MODULE SparseIndex ----------------------------
(***************************************************************************)
(* The index of a sorted column of strings: every OffsetStep-th row and    *)
(* the last one are sampled, and each string sampled is kept with the      *)
(* first of its samples.  Strings are numbers, rows are counted from zero  *)
(* as in the code, an interval is a first row and a length.                *)
(***************************************************************************)
EXTENDS Integers, SequencesExt, FiniteSetsExt

CONSTANT OffsetStep             \* rows from one sample to the next (100)

ASSUME StepAssumption == OffsetStep \in Nat \ {0}

RowAt(col, i) == col[i + 1]
Samples(col)  == {i \in 0..(Len(col) - 1) : i % OffsetStep = 0 \/ i = Len(col) - 1}
CreateSparseIndex(col) ==
  [s \in {RowAt(col, i) : i \in Samples(col)} |-> Min({i \in Samples(col) : RowAt(col, i) = s})]

KeysBelow(index, s) == {k \in DOMAIN index : k < s}
KeysAbove(index, s) == {k \in DOMAIN index : k > s}

\* Mutant: the sample after the string is left out, with the rows before it.
LookupIntervalShort(s, index, height) ==
  LET below == KeysBelow(index, s)
      above == KeysAbove(index, s)
  IN  <<IF below = {} THEN 0 ELSE Min({index[Max(below)], height}),
        IF above = {} THEN height ELSE index[Min(above)] - 1>>

\* From the sample before a string to the sample after it, as a first row
\* and the row after the last.
LookupInterval(s, index, height) ==
  LET below == KeysBelow(index, s)
      above == KeysAbove(index, s)
  IN  <<IF below = {} THEN 0 ELSE Min({index[Max(below)], height}),
        IF above = {} THEN height ELSE index[Min(above)] + 1>>

\* A set in the order of a relation: each member after those before it.
OrderedBy(set, before) ==
  [k \in 1..Cardinality(set) |->
     CHOOSE s \in set : Cardinality({r \in set : <<r, s>> \in before}) = k - 1]
Ascending(numbers) == OrderedBy(numbers, {m \in numbers \X numbers : m[1] < m[2]})

\* An interval that starts where the last one has not ended is made one with it.
WithInterval(done, iv) ==
  IF done # <<>> /\ iv[1] <= Last(done)[2]
  THEN Append(Front(done), <<Last(done)[1], iv[2]>>) ELSE Append(done, iv)
Merged(ivs) ==
  LET upTo[n \in 0..Len(ivs)] == IF n = 0 THEN <<>> ELSE WithInterval(upTo[n - 1], ivs[n])
  IN  upTo[Len(ivs)]

\* The strings come in their order.
LookupOffsets(strings, index, height) ==
  LET sorted == Ascending(strings)
      ends   == Merged([k \in DOMAIN sorted |-> LookupInterval(sorted[k], index, height)])
  IN  [i \in DOMAIN ends |-> <<ends[i][1], ends[i][2] - ends[i][1]>>]

SliceOf(rows, iv)     == SubSeq(rows, iv[1] + 1, Min({Len(rows), iv[1] + iv[2]}))
SlicesOf(rows, ivs)   == FlattenSeq([i \in DOMAIN ivs |-> SliceOf(rows, ivs[i])])

---------------------------------------------------------------------------
(* The rows whose string lies between two strings, both included.          *)

RowsFrom(col, s)  == {i \in 0..(Len(col) - 1) : s <= RowAt(col, i)}
RowsAfter(col, s) == {i \in 0..(Len(col) - 1) : s < RowAt(col, i)}
\* How many rows of a window come before the first one that stops the count.
CountUntil(col, from, len, stop) ==
  LET window == {i \in from..(from + len - 1) : i < Len(col)}
      stops  == window \cap stop
  IN  IF stops = {} THEN Cardinality(window) ELSE Min(stops) - from

\* Mutant: the window at the end is a row too short.
BetweenShort(col, from, to) ==
  LET index  == CreateSparseIndex(col)
      below  == KeysBelow(index, from)
      above  == KeysAbove(index, to)
      start  == IF below = {} THEN 0 ELSE index[Max(below)]
      end    == IF above = {} THEN Len(col) ELSE index[Min(above)]
      back   == IF end > 2 * OffsetStep THEN end - 2 * OffsetStep ELSE 0
      fromI  == start + CountUntil(col, start, 2 * OffsetStep, RowsFrom(col, from))
      toI    == back + CountUntil(col, back, 2 * OffsetStep - 1, RowsAfter(col, to))
  IN  IF end <= start THEN <<0, 0>> ELSE <<fromI, toI - fromI>>
\* Mutant: the search does not stop at the lower string.
BetweenEarly(col, from, to) ==
  LET index  == CreateSparseIndex(col)
      above  == KeysAbove(index, to)
      end    == IF above = {} THEN Len(col) ELSE index[Min(above)]
      back   == IF end > 2 * OffsetStep THEN end - 2 * OffsetStep ELSE 0
      toI    == back + CountUntil(col, back, 2 * OffsetStep + 1, RowsAfter(col, to))
  IN  <<0, toI>>
\* The samples around the strings bound the search; within a window of two
\* steps after the first, and of two steps before the last, rows are read.
Between(col, from, to) ==
  LET index  == CreateSparseIndex(col)
      below  == KeysBelow(index, from)
      above  == KeysAbove(index, to)
      start  == IF below = {} THEN 0 ELSE index[Max(below)]
      end    == IF above = {} THEN Len(col) ELSE index[Min(above)]
      back   == IF end > 2 * OffsetStep THEN end - 2 * OffsetStep ELSE 0
      fromI  == start + CountUntil(col, start, 2 * OffsetStep, RowsFrom(col, from))
      toI    == back + CountUntil(col, back, 2 * OffsetStep + 1, RowsAfter(col, to))
  IN  IF end <= start THEN <<0, 0>> ELSE <<fromI, toI - fromI>>
=============================================================================
