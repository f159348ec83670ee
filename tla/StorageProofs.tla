--------------------------- MODULE StorageProofs ---------------------------
(***************************************************************************)
(* Proofs about the storage of triples.  First, one table of triples, for  *)
(* any set of rows and any limits.  IInv is its inductive invariant: the   *)
(* consistency of index and segments needs that segments are disjoint and  *)
(* nonempty, that every segment has an object sort exactly when the table  *)
(* says so, and that the height counts at least one row for every segment  *)
(* after the first.                                                        *)
(*                                                                         *)
(* Then the lookups on the sorted columns of a segment, for columns of any *)
(* length and any step between samples.  The bounds that the index gives   *)
(* are right because rows are sorted; the windows behind them are long     *)
(* enough because a sample is never further than a step away; the          *)
(* intervals of a lookup can be merged in one pass because those of        *)
(* greater strings start and end no earlier.                               *)
(*                                                                         *)
(* Then the tables that are read for a pattern: what is known of subjects  *)
(* and objects selects tables and rows, and neither misses a triple nor    *)
(* reads one twice, because a table has each row once in each of its       *)
(* sorts, and the intervals of a lookup lie apart.  Last, saving them.     *)
(***************************************************************************)
EXTENDS Triples, SegmentLookups, TableScans, Serialization,
        FiniteSetTheorems, SequenceTheorems, TLAPS

(* One table of triples.                                                   *)

ObjectSortsMatch ==
  \A i \in 1..Len(segments) :
    segments[i].objectSort = IF objectIndexing THEN segments[i].subjectSort ELSE NoIndex

HeightCountsSegments == Len(segments) > 1 => height >= Len(segments) - 1

IInv == /\ TypeOK
        /\ IndexMatchesSegments
        /\ SegmentsDisjoint
        /\ AssertionsHold
        /\ ObjectSortsMatch
        /\ HeightCountsSegments
        /\ SegmentsBounded

-----------------------------------------------------------------------------
(* Lemmas about segments.                                                  *)

\* A table without segments holds no row.
LEMMA RowsOfEmpty == RowsOf(<<>>) = {}
BY DEF RowsOf

\* A table of one segment holds the rows of that segment.
LEMMA RowsOfSingle ==
  ASSUME NEW s \in Segment
  PROVE  RowsOf(<<s>>) = s.subjectSort
BY DEF RowsOf

\* Pushing a segment adds its rows to the table.
LEMMA RowsOfAppend ==
  ASSUME NEW segs \in Seq(Segment), NEW s \in Segment
  PROVE  RowsOf(Append(segs, s)) = RowsOf(segs) \cup s.subjectSort
<1> DEFINE app == Append(segs, s)
<1>1. Len(app) = Len(segs) + 1 /\ Len(segs) \in Nat
  OBVIOUS
<1>2. \A i \in 1..Len(segs) : app[i] = segs[i]
  OBVIOUS
<1>3. app[Len(segs) + 1] = s
  OBVIOUS
<1>4. 1..Len(app) = (1..Len(segs)) \cup {Len(segs) + 1}
  BY <1>1
<1> HIDE DEF app
<1>5. UNION {app[i].subjectSort : i \in 1..Len(app)}
        = (UNION {segs[i].subjectSort : i \in 1..Len(segs)}) \cup s.subjectSort
  BY <1>2, <1>3, <1>4
<1> QED
  BY <1>5 DEF RowsOf, app

\* The rows of a table are rows.
LEMMA RowsOfType ==
  ASSUME NEW segs \in Seq(Segment)
  PROVE  RowsOf(segs) \in SUBSET Row
<1>1. \A i \in 1..Len(segs) : segs[i] \in Segment
  OBVIOUS
<1>2. \A i \in 1..Len(segs) : segs[i].subjectSort \in SUBSET Row
  BY <1>1 DEF Segment
<1> QED
  BY <1>2 DEF RowsOf

\* TriplesSegment::new makes a segment.
LEMMA NewSegmentType ==
  ASSUME NEW df \in SUBSET Row, NEW o \in BOOLEAN
  PROVE  /\ NewSegment(df, o) \in Segment
         /\ NewSegment(df, o).subjectSort = df
         /\ NewSegment(df, o).objectSort = IF o THEN df ELSE NoIndex
BY DEF NewSegment, Segment

\* A set of rows has a size, which is positive when the set is not empty.
LEMMA RowCount ==
  ASSUME NEW df \in SUBSET Row
  PROVE  /\ Cardinality(df) \in Nat
         /\ df # {} => Cardinality(df) >= 1
<1>1. IsFiniteSet(df)
  BY RowAssumption, FS_Subset
<1>2. Cardinality(df) \in Nat
  BY <1>1, FS_CardinalityType
<1>3. df # {} => Cardinality(df) # 0
  BY <1>1, FS_EmptySet
<1> QED
  BY <1>2, <1>3

\* The product that decides on merging grows with the height.
LEMMA WorkGrows ==
  ASSUME NEW h \in Nat, NEW n \in Nat, n >= 1, h >= n - 1,
         h * (n * n) <= WorkLimit
  PROVE  (n - 1) * (n * n) <= WorkLimit
<1> DEFINE sq == n * n
           d == h - (n - 1)
<1>1. sq \in Nat /\ d \in Nat /\ h = (n - 1) + d
  OBVIOUS
<1>2. n - 1 \in Nat /\ WorkLimit \in Nat
  BY LimitAssumption
<1> HIDE DEF sq, d
<1>3. h * sq = (n - 1) * sq + d * sq
  BY <1>1, <1>2
<1>4. d * sq \in Nat /\ (n - 1) * sq \in Nat
  BY <1>1, <1>2
<1>5. h * sq <= WorkLimit
  BY DEF sq
<1>6. (n - 1) * sq <= WorkLimit
  BY <1>2, <1>3, <1>4, <1>5
<1> QED
  BY <1>6 DEF sq
-----------------------------------------------------------------------------
(* The inductive invariant.                                                *)

\* What a table of exactly one fresh segment owes the invariant; New, Compact,
\* Reload and Delete all end in one.
LEMMA SingleSegment ==
  ASSUME NEW df \in SUBSET Row, df # {}, NEW o \in BOOLEAN,
         segments' = <<NewSegment(df, o)>>,
         objectIndexing' = o,
         height' \in Nat,
         index' = df \/ index' = NoIndex,
         returned' \in SUBSET Row
  PROVE  IInv'
<1>1. /\ NewSegment(df, o) \in Segment
      /\ NewSegment(df, o).subjectSort = df
      /\ NewSegment(df, o).objectSort = IF o THEN df ELSE NoIndex
  BY NewSegmentType
<1>2. /\ segments' \in Seq(Segment)
      /\ Len(segments') = 1
      /\ segments'[1] = NewSegment(df, o)
  BY <1>1
<1>3. RowsOf(segments') = df
  BY <1>1, RowsOfSingle
<1>4. \A S \in SUBSET Row : NoIndex # S
  BY RowAssumption
<1>5. TypeOK'
  BY <1>2 DEF TypeOK
<1>6. IndexMatchesSegments'
  BY <1>3 DEF IndexMatchesSegments
<1>7. SegmentsDisjoint'
  BY <1>2 DEF SegmentsDisjoint
<1>8. AssertionsHold'
  BY <1>1, <1>2 DEF AssertionsHold
<1>9. ObjectSortsMatch'
  BY <1>1, <1>2 DEF ObjectSortsMatch
<1>10. HeightCountsSegments' /\ SegmentsBounded'
  BY <1>2 DEF HeightCountsSegments, SegmentsBounded
<1> QED
  BY <1>5, <1>6, <1>7, <1>8, <1>9, <1>10 DEF IInv

\* Merging segments whose object sorts match their subject sorts gives the
\* segment that would have been made from all the rows at once.
LEMMA CompactSegmentsIsNew ==
  ASSUME NEW segs \in Seq(Segment), Len(segs) >= 1, NEW o \in BOOLEAN,
         \A i \in 1..Len(segs) :
           segs[i].objectSort = IF o THEN segs[i].subjectSort ELSE NoIndex
  PROVE  CompactSegments(segs) = NewSegment(RowsOf(segs), o)
<1>1. \A i \in 1..Len(segs) : segs[i].subjectSort \in SUBSET Row
  <2>1. \A i \in 1..Len(segs) : segs[i] \in Segment
    OBVIOUS
  <2> QED
    BY <2>1 DEF Segment
<1>2. CASE o
  <2>1. \A i \in 1..Len(segs) : segs[i].objectSort # NoIndex
    BY <1>1, <1>2, RowAssumption
  <2>2. ObjectSorts(segs) = {segs[i].subjectSort : i \in 1..Len(segs)}
    BY <1>2, <2>1 DEF ObjectSorts
  <2>3. segs[1].subjectSort \in ObjectSorts(segs)
    BY <2>2
  <2> QED
    BY <1>2, <2>2, <2>3 DEF CompactSegments, NewSegment, RowsOf
<1>3. CASE ~o
  <2>1. \A i \in 1..Len(segs) : segs[i].objectSort = NoIndex
    BY <1>3
  <2>2. ObjectSorts(segs) = {}
    BY <2>1 DEF ObjectSorts
  <2> QED
    BY <1>3, <2>2 DEF CompactSegments, NewSegment
<1> QED
  BY <1>2, <1>3

\* Under the invariant the index, built if need be, holds exactly the rows.
LEMMA EnsuredIndexIsRows ==
  ASSUME IInv, Exists
  PROVE  EnsuredIndex = RowsOf(segments)
<1>1. CASE index = NoIndex
  <2>1. Len(segments) = 1 /\ segments \in Seq(Segment)
    BY <1>1 DEF IInv, AssertionsHold, TypeOK
  <2>2. RowsOf(segments) = segments[1].subjectSort
    BY <2>1 DEF RowsOf
  <2> QED
    BY <1>1, <2>2 DEF EnsuredIndex
<1>2. CASE index # NoIndex
  BY <1>2 DEF EnsuredIndex, IInv, IndexMatchesSegments
<1> QED
  BY <1>1, <1>2

\* A table that exists has a row.
LEMMA ExistingTableHasRows ==
  ASSUME IInv, Exists
  PROVE  RowsOf(segments) # {} /\ Len(segments) >= 1
<1>1. segments \in Seq(Segment) /\ segments # <<>>
  BY DEF IInv, TypeOK, Exists
<1>2. Len(segments) >= 1
  BY <1>1
<1>3. segments[1].subjectSort # {}
  BY <1>2, <1>1 DEF IInv, AssertionsHold
<1> QED
  BY <1>1, <1>2, <1>3 DEF RowsOf

\* The table without segments satisfies the invariant.
LEMMA NoSegments ==
  ASSUME segments' = <<>>, height' = 0, objectIndexing' = FALSE, index' = {},
         returned' \in SUBSET Row
  PROVE  IInv'
<1>1. Len(segments') = 0 /\ segments' \in Seq(Segment)
  OBVIOUS
<1>2. RowsOf(segments') = {}
  BY RowsOfEmpty
<1>3. index' # NoIndex
  BY RowAssumption
<1>4. TypeOK'
  BY <1>1 DEF TypeOK
<1>5. IndexMatchesSegments'
  BY <1>2 DEF IndexMatchesSegments
<1>6. SegmentsDisjoint' /\ AssertionsHold' /\ ObjectSortsMatch'
  BY <1>1, <1>3 DEF SegmentsDisjoint, AssertionsHold, ObjectSortsMatch
<1>7. HeightCountsSegments' /\ SegmentsBounded'
  BY <1>1 DEF HeightCountsSegments, SegmentsBounded
<1> QED
  BY <1>4, <1>5, <1>6, <1>7 DEF IInv
\* deduplicate_and_insert preserves the invariant, whichever way it ends:
\* nothing new, a merge of all segments, or one more segment.
LEMMA AddTriplesInv ==
  ASSUME IInv, NEW df \in SUBSET Row, AddTriples(df)
  PROVE  IInv'
<1> DEFINE new == NotIndexed(df)
           seg == NewSegment(new, objectIndexing)
           app == Append(segments, seg)
<1>1. /\ Exists
      /\ index' = EnsuredIndex \cup df
      /\ returned' = new
      /\ objectIndexing' = objectIndexing
      /\ height' = height + Cardinality(new)
      /\ segments' = IF new = {} THEN segments
                     ELSE IF ShouldCompact THEN <<CompactSegments(app)>> ELSE app
  BY DEF AddTriples
<1>2. EnsuredIndex = RowsOf(segments) /\ RowsOf(segments) # {} /\ Len(segments) >= 1
  BY <1>1, EnsuredIndexIsRows, ExistingTableHasRows
<1>3. /\ segments \in Seq(Segment) /\ objectIndexing \in BOOLEAN /\ height \in Nat
      /\ RowsOf(segments) \in SUBSET Row
  BY RowsOfType DEF IInv, TypeOK
<1>4. new = df \ RowsOf(segments) /\ new \in SUBSET Row
  BY <1>2 DEF NotIndexed
<1>5. /\ Cardinality(new) \in Nat
      /\ new # {} => Cardinality(new) >= 1
  BY <1>4, RowCount
<1>6. index' = RowsOf(segments) \cup new /\ index' \in SUBSET Row
  BY <1>1, <1>2, <1>3, <1>4
<1>7. index' # NoIndex
  BY <1>6, RowAssumption
<1>8. CASE new = {}
  <2>1. segments' = segments /\ index' = RowsOf(segments) /\ height' = height
    <3>1. Cardinality({}) = 0
      BY FS_EmptySet
    <3> QED
      BY <1>1, <1>3, <1>6, <1>8, <3>1
  <2>2. TypeOK'
    BY <1>1, <1>3, <1>4, <1>6, <2>1 DEF TypeOK
  <2>3. IndexMatchesSegments' /\ SegmentsDisjoint' /\ ObjectSortsMatch'
    BY <1>1, <2>1 DEF IInv, IndexMatchesSegments, SegmentsDisjoint, ObjectSortsMatch
  <2>4. AssertionsHold'
    BY <1>7, <2>1 DEF IInv, AssertionsHold
  <2>5. HeightCountsSegments' /\ SegmentsBounded'
    BY <2>1 DEF IInv, HeightCountsSegments, SegmentsBounded
  <2> QED
    BY <2>2, <2>3, <2>4, <2>5 DEF IInv
<1>9. CASE new # {}
  <2>1. /\ seg \in Segment
        /\ seg.subjectSort = new
        /\ seg.objectSort = IF objectIndexing THEN new ELSE NoIndex
    BY <1>3, <1>4, NewSegmentType
  <2> HIDE DEF seg, new
  <2>2. /\ app \in Seq(Segment)
        /\ Len(app) = Len(segments) + 1
        /\ \A i \in 1..Len(segments) : app[i] = segments[i]
        /\ app[Len(segments) + 1] = seg
    BY <1>3, <2>1
  <2>3. RowsOf(app) = RowsOf(segments) \cup new
    BY <1>3, <2>1, RowsOfAppend
  <2>4. \A i \in 1..Len(app) : i \in 1..Len(segments) \/ i = Len(segments) + 1
    BY <1>3, <2>2
  <2> HIDE DEF app
  <2>5. \A i \in 1..Len(app) :
          app[i].objectSort = IF objectIndexing THEN app[i].subjectSort ELSE NoIndex
    BY <2>1, <2>2, <2>4 DEF IInv, ObjectSortsMatch
  <2>6. CASE ShouldCompact
    <3>1. CompactSegments(app) = NewSegment(RowsOf(app), objectIndexing)
      BY <1>2, <1>3, <2>2, <2>5, CompactSegmentsIsNew
    <3>2. segments' = <<NewSegment(RowsOf(app), objectIndexing)>>
      BY <1>1, <1>9, <2>6, <3>1
    <3>3. RowsOf(app) \in SUBSET Row /\ RowsOf(app) # {} /\ index' = RowsOf(app)
      BY <1>2, <1>6, <2>3
    <3>4. height' \in Nat /\ returned' \in SUBSET Row
      BY <1>1, <1>3, <1>4, <1>5
    <3> QED
      BY <1>1, <1>3, <3>2, <3>3, <3>4, SingleSegment
  <2>7. CASE ~ShouldCompact
    <3>1. segments' = app
      BY <1>1, <1>9, <2>7
    <3>2. TypeOK'
      BY <1>1, <1>3, <1>4, <1>5, <1>6, <2>2, <3>1 DEF TypeOK
    <3>3. IndexMatchesSegments'
      BY <1>6, <2>3, <3>1 DEF IndexMatchesSegments
    <3>4. SegmentsDisjoint'
      <4>1. \A i \in 1..Len(segments) : segments[i].subjectSort \subseteq RowsOf(segments)
        BY DEF RowsOf
      <4>2. \A i \in 1..Len(segments) : app[i].subjectSort \cap new = {}
        BY <1>4, <2>2, <4>1
      <4>3. \A i, j \in 1..Len(app) :
              i # j => app[i].subjectSort \cap app[j].subjectSort = {}
        <5> TAKE i, j \in 1..Len(app)
        <5> HAVE i # j
        <5>1. CASE i \in 1..Len(segments) /\ j \in 1..Len(segments)
          BY <2>2, <5>1 DEF IInv, SegmentsDisjoint
        <5>2. CASE i = Len(segments) + 1
          BY <2>1, <2>2, <2>4, <4>2, <5>2
        <5>3. CASE j = Len(segments) + 1
          BY <2>1, <2>2, <2>4, <4>2, <5>3
        <5> QED
          BY <2>4, <5>1, <5>2, <5>3
      <4> QED
        BY <3>1, <4>3 DEF SegmentsDisjoint
    <3>5. AssertionsHold'
      BY <1>7, <1>9, <2>1, <2>2, <2>4, <3>1 DEF IInv, AssertionsHold
    <3>6. ObjectSortsMatch'
      BY <1>1, <2>5, <3>1 DEF ObjectSortsMatch
    <3>7. HeightCountsSegments'
      BY <1>1, <1>2, <1>3, <1>5, <1>9, <2>2, <3>1 DEF IInv, HeightCountsSegments
    <3>8. SegmentsBounded'
      <4> DEFINE n == Len(segments)
      <4>1. n \in Nat /\ n >= 1 /\ Len(segments') - 1 = n
        BY <1>2, <1>3, <2>2, <3>1
      <4>2. height >= n - 1
        BY <1>3, <4>1 DEF IInv, HeightCountsSegments
      <4>3. n <= SegmentLimit \/ height * (n * n) <= WorkLimit
        BY <1>3, <2>7, LimitAssumption DEF ShouldCompact
      <4> HIDE DEF n
      <4>4. n <= SegmentLimit \/ (n - 1) * (n * n) <= WorkLimit
        BY <1>3, <4>1, <4>2, <4>3, WorkGrows
      <4> QED
        BY <4>1, <4>4 DEF SegmentsBounded
    <3> QED
      BY <3>2, <3>3, <3>4, <3>5, <3>6, <3>7, <3>8 DEF IInv
  <2> QED
    BY <2>6, <2>7
<1> QED
  BY <1>8, <1>9
\* Every step preserves the invariant.
LEMMA NextInv == IInv /\ [Next]_vars => IInv'
<1> SUFFICES ASSUME IInv, [Next]_vars PROVE IInv'
  OBVIOUS
<1>1. /\ segments \in Seq(Segment) /\ height \in Nat /\ objectIndexing \in BOOLEAN
      /\ index \in {NoIndex} \cup SUBSET Row /\ returned \in SUBSET Row
      /\ RowsOf(segments) \in SUBSET Row
  BY RowsOfType DEF IInv, TypeOK
<1>2. ASSUME NEW df \in SUBSET Row, NEW o \in BOOLEAN, New(df, o) PROVE IInv'
  <2>1. Cardinality(df) \in Nat
    BY RowCount
  <2> QED
    BY <1>2, <2>1, SingleSegment DEF New
<1>3. ASSUME NEW df \in SUBSET Row, AddTriples(df) PROVE IInv'
  BY <1>3, AddTriplesInv
<1>4. ASSUME NEW df \in SUBSET Row, RemoveOverlapping(df) PROVE IInv'
  <2>1. /\ Exists /\ index' = EnsuredIndex /\ returned' = NotIndexed(df)
        /\ segments' = segments /\ height' = height /\ objectIndexing' = objectIndexing
    BY <1>4 DEF RemoveOverlapping
  <2>2. index' = RowsOf(segments) /\ index' # NoIndex
    BY <1>1, <2>1, EnsuredIndexIsRows, RowAssumption
  <2>3. returned' \in SUBSET Row
    BY <2>1 DEF NotIndexed
  <2>4. TypeOK'
    BY <1>1, <2>1, <2>2, <2>3 DEF TypeOK
  <2>5. IndexMatchesSegments' /\ SegmentsDisjoint' /\ ObjectSortsMatch'
    BY <2>1, <2>2 DEF IInv, IndexMatchesSegments, SegmentsDisjoint, ObjectSortsMatch
  <2>6. AssertionsHold'
    BY <2>1, <2>2 DEF IInv, AssertionsHold
  <2>7. HeightCountsSegments' /\ SegmentsBounded'
    BY <2>1 DEF IInv, HeightCountsSegments, SegmentsBounded
  <2> QED
    BY <2>4, <2>5, <2>6, <2>7 DEF IInv
<1>5. CASE Compact
  <2>1. Exists /\ RowsOf(segments) # {}
    BY <1>5, ExistingTableHasRows DEF Compact
  <2>2. Cardinality(RowsOf(segments)) \in Nat
    BY <1>1, RowCount
  <2>3. /\ segments' = <<NewSegment(RowsOf(segments), objectIndexing)>>
        /\ height' \in Nat /\ index' = RowsOf(segments)
        /\ objectIndexing' = objectIndexing /\ returned' = returned
    BY <1>5, <2>2 DEF Compact
  <2> QED
    BY <1>1, <2>1, <2>3, SingleSegment
<1>6. CASE Reload
  <2>1. Exists /\ RowsOf(segments) # {}
    BY <1>6, ExistingTableHasRows DEF Reload
  <2>2. /\ segments' = <<NewSegment(RowsOf(segments), objectIndexing)>>
        /\ height' \in Nat /\ index' = NoIndex
        /\ objectIndexing' = objectIndexing /\ returned' = returned
    BY <1>6 DEF Reload
  <2> QED
    BY <1>1, <2>1, <2>2, SingleSegment
<1>7. ASSUME NEW df \in SUBSET Row, NEW o \in BOOLEAN, Delete(df, o) PROVE IInv'
  <2> DEFINE rest == RowsOf(segments) \ df
  <2>1. CASE rest = {}
    BY <1>1, <1>7, <2>1, NoSegments DEF Delete
  <2>2. CASE rest # {}
    <3>1. rest \in SUBSET Row /\ Cardinality(rest) \in Nat
      BY <1>1, RowCount
    <3>2. /\ segments' = <<NewSegment(rest, o)>> /\ height' = Cardinality(rest)
          /\ objectIndexing' = o /\ index' = rest /\ returned' = returned
      BY <1>7, <2>2 DEF Delete
    <3> HIDE DEF rest
    <3> QED
      BY <1>1, <2>2, <3>1, <3>2, SingleSegment
  <2> QED
    BY <2>1, <2>2
<1>8. CASE UNCHANGED vars
  BY <1>8 DEF vars, IInv, TypeOK, IndexMatchesSegments, SegmentsDisjoint,
              AssertionsHold, ObjectSortsMatch, HeightCountsSegments, SegmentsBounded
<1> QED
  BY <1>2, <1>3, <1>4, <1>5, <1>6, <1>7, <1>8 DEF Next

\* The store starts without the table.
LEMMA InitInv == Init => IInv
<1> SUFFICES ASSUME Init PROVE IInv
  OBVIOUS
<1>1. /\ segments = <<>> /\ Len(segments) = 0 /\ segments \in Seq(Segment)
      /\ height = 0 /\ objectIndexing = FALSE /\ index = {} /\ returned = {}
  BY DEF Init
<1>2. RowsOf(segments) = {} /\ index # NoIndex
  BY <1>1, RowsOfEmpty, RowAssumption
<1>3. TypeOK /\ IndexMatchesSegments
  BY <1>1, <1>2 DEF TypeOK, IndexMatchesSegments
<1>4. SegmentsDisjoint /\ AssertionsHold /\ ObjectSortsMatch
  BY <1>1, <1>2 DEF SegmentsDisjoint, AssertionsHold, ObjectSortsMatch
<1>5. HeightCountsSegments /\ SegmentsBounded
  BY <1>1 DEF HeightCountsSegments, SegmentsBounded
<1> QED
  BY <1>3, <1>4, <1>5 DEF IInv

\* The inductive invariant holds of every reachable table.
THEOREM Invariance == Spec => []IInv
<1>1. Init => IInv
  BY InitInv
<1>2. IInv /\ [Next]_vars => IInv'
  BY NextInv
<1> QED
  BY <1>1, <1>2, PTL DEF Spec

\* Type correctness of a table.
THEOREM TypeCorrect == Spec => []TypeOK
<1>1. IInv => TypeOK
  BY DEF IInv
<1> QED
  BY <1>1, Invariance, PTL

\* The hash index agrees with the segments, whatever was added, probed,
\* merged, reloaded or deleted.
THEOREM IndexCorrect == Spec => []IndexMatchesSegments
<1>1. IInv => IndexMatchesSegments
  BY DEF IInv
<1> QED
  BY <1>1, Invariance, PTL

\* No row is stored twice.
THEOREM DisjointCorrect == Spec => []SegmentsDisjoint
<1>1. IInv => SegmentsDisjoint
  BY DEF IInv
<1> QED
  BY <1>1, Invariance, PTL

\* The assertions of ensure_subject_object_index and create_indices never fail.
THEOREM AssertionsCorrect == Spec => []AssertionsHold
<1>1. IInv => AssertionsHold
  BY DEF IInv
<1> QED
  BY <1>1, Invariance, PTL

\* The number of segments stays within the bound the two limits give.
THEOREM BoundCorrect == Spec => []SegmentsBounded
<1>1. IInv => SegmentsBounded
  BY DEF IInv
<1> QED
  BY <1>1, Invariance, PTL

\* A lookup by object sees every row.
THEOREM ObjectScanCorrect == Spec => []ObjectScanComplete
<1>1. ASSUME IInv PROVE ObjectScanComplete
  <2>1. segments \in Seq(Segment)
    BY <1>1 DEF IInv, TypeOK
  <2>2. \A i \in 1..Len(segments) : segments[i] \in Segment
    BY <2>1
  <2>3. \A i \in 1..Len(segments) :
          (IF segments[i].objectSort # NoIndex THEN segments[i].objectSort
                                               ELSE segments[i].subjectSort)
            = segments[i].subjectSort
    BY <1>1, <2>2 DEF IInv, ObjectSortsMatch
  <2> QED
    BY <2>3 DEF ObjectScanComplete, ScanByObject, RowsOf
<1> QED
  BY <1>1, Invariance, PTL

-----------------------------------------------------------------------------
(* Refinement.                                                             *)

\* A table implements the set of rows of module TripleSet: what it returns from
\* a call is what the set would return, and reorganising it is a stutter.
THEOREM Refinement == Spec => ImplementsTripleSet
<1>1. Init => Set!Init
  BY RowsOfEmpty DEF Init, Set!Init
<1>2. IInv /\ [Next]_vars => [Set!Next]_(Set!vars)
  <2> SUFFICES ASSUME IInv, [Next]_vars PROVE [Set!Next]_(Set!vars)
    OBVIOUS
  <2>1. segments \in Seq(Segment) /\ objectIndexing \in BOOLEAN
        /\ RowsOf(segments) \in SUBSET Row
    BY RowsOfType DEF IInv, TypeOK
  <2>2. ASSUME NEW df \in SUBSET Row, NEW o \in BOOLEAN, New(df, o)
        PROVE  Set!Add(df)
    <3>1. RowsOf(segments) = {}
      BY <2>2, RowsOfEmpty DEF New, Exists
    <3>2. RowsOf(segments') = df
      BY <2>2, NewSegmentType, RowsOfSingle DEF New
    <3> QED
      BY <2>2, <3>1, <3>2 DEF New, Set!Add
  <2>3. ASSUME NEW df \in SUBSET Row, AddTriples(df) PROVE Set!Add(df)
    <3>1. IInv'
      BY <2>3, AddTriplesInv
    <3>2. EnsuredIndex = RowsOf(segments)
      BY <2>3, EnsuredIndexIsRows DEF AddTriples
    <3>3. index' = RowsOf(segments) \cup df /\ returned' = df \ RowsOf(segments)
      BY <2>3, <3>2 DEF AddTriples, NotIndexed
    <3>4. index' # NoIndex
      BY <2>1, <3>3, RowAssumption
    <3>5. RowsOf(segments') = index'
      BY <3>1, <3>4 DEF IInv, IndexMatchesSegments
    <3> QED
      BY <3>3, <3>5 DEF Set!Add
  <2>4. ASSUME NEW df \in SUBSET Row, RemoveOverlapping(df) PROVE Set!Overlap(df)
    <3>1. EnsuredIndex = RowsOf(segments)
      BY <2>4, EnsuredIndexIsRows DEF RemoveOverlapping
    <3> QED
      BY <2>4, <3>1 DEF RemoveOverlapping, NotIndexed, Set!Overlap
  <2>5. CASE Compact \/ Reload
    <3>1. NewSegment(RowsOf(segments), objectIndexing) \in Segment
      BY <2>1, NewSegmentType
    <3>2. segments' = <<NewSegment(RowsOf(segments), objectIndexing)>> /\ returned' = returned
      BY <2>5 DEF Compact, Reload
    <3>3. RowsOf(segments') = RowsOf(segments)
      BY <2>1, <3>1, <3>2, NewSegmentType, RowsOfSingle
    <3> QED
      BY <3>2, <3>3 DEF Set!vars
  <2>6. ASSUME NEW df \in SUBSET Row, NEW o \in BOOLEAN, Delete(df, o)
        PROVE  Set!Delete(df)
    <3> DEFINE rest == RowsOf(segments) \ df
    <3>1. rest \in SUBSET Row /\ returned' = returned
      BY <2>1, <2>6 DEF Delete
    <3>2. CASE rest = {}
      BY <2>6, <3>1, <3>2, RowsOfEmpty DEF Delete, Set!Delete
    <3>3. CASE rest # {}
      <4>1. segments' = <<NewSegment(rest, o)>>
        BY <2>6, <3>3 DEF Delete
      <4>2. RowsOf(segments') = rest
        BY <3>1, <4>1, NewSegmentType, RowsOfSingle
      <4> QED
        BY <3>1, <4>2 DEF Set!Delete
    <3> QED
      BY <3>2, <3>3
  <2>7. CASE UNCHANGED vars
    BY <2>7 DEF vars, Set!vars
  <2> QED
    BY <2>2, <2>3, <2>4, <2>5, <2>6, <2>7 DEF Next, Set!Next
<1> QED
  BY <1>1, <1>2, Invariance, PTL DEF Spec, ImplementsTripleSet, Set!Spec

-----------------------------------------------------------------------------
(* The lookups on a sorted column.                                         *)

\* Rows are sorted by their string.
Sorted(col) == \A i, j \in 1..Len(col) : i <= j => col[i] <= col[j]

\* The inductive invariant: what create_indices sorts stays sorted.
ColumnIInv == column \in Seq(Strings) /\ Sorted(column)

\* Where a search starts and where it ends, as Between has them.
StartOf(col, from) ==
  LET below == KeysBelow(CreateSparseIndex(col), from)
  IN  IF below = {} THEN 0 ELSE CreateSparseIndex(col)[Max(below)]
EndOf(col, to) ==
  LET above == KeysAbove(CreateSparseIndex(col), to)
  IN  IF above = {} THEN Len(col) ELSE CreateSparseIndex(col)[Min(above)]
BackOf(end)  == IF end > 2 * OffsetStep THEN end - 2 * OffsetStep ELSE 0
FromOf(col, from) == StartOf(col, from) + CountUntil(col, StartOf(col, from), 2 * OffsetStep, RowsFrom(col, from))
ToOf(col, to) ==
  BackOf(EndOf(col, to)) + CountUntil(col, BackOf(EndOf(col, to)), 2 * OffsetStep + 1, RowsAfter(col, to))

\* Between is made of these parts.
LEMMA BetweenParts ==
  ASSUME NEW col, NEW from, NEW to
  PROVE  Between(col, from, to) =
           IF EndOf(col, to) <= StartOf(col, from) THEN <<0, 0>>
           ELSE <<FromOf(col, from), ToOf(col, to) - FromOf(col, from)>>
BY Zenon DEF Between, StartOf, EndOf, BackOf, FromOf, ToOf

-----------------------------------------------------------------------------
(* Least and greatest members of sets of numbers.                          *)

\* A nonempty set of numbers has a least one (Min of what an idx maps to).
LEMMA LeastExists ==
  ASSUME NEW T \in SUBSET Nat, T # {}
  PROVE  \E x \in T : \A y \in T : x <= y
<1> DEFINE Below == {0..x : x \in T}
           Fin   == FiniteSubsetsOf(Nat)
           R     == StrictSubsetOrdering(Nat)
<1>1. \A x \in T : 0..x \in Fin
  <2> TAKE x \in T
  <2>1. IsFiniteSet(0..x)
    BY FS_Interval
  <2>2. 0..x \in SUBSET Nat
    OBVIOUS
  <2> QED
    BY <2>1, <2>2 DEF FiniteSubsetsOf
<1>2. Below \subseteq Fin /\ Below # {}
  BY <1>1
<1>3. IsWellFoundedOn(R, Fin)
  BY FS_StrictSubsetOrderingWellFounded
<1>4. \E b \in Below : \A c \in Below : <<c, b>> \notin R
  <2> HIDE DEF Below, Fin, R
  <2> QED
    BY <1>2, <1>3, WFMin, Zenon
<1>5. PICK x \in T : \A y \in T : <<0..y, 0..x>> \notin R
  BY <1>4
<1>6. ASSUME NEW y \in T, ~(x <= y)
      PROVE  FALSE
  <2>1. 0..y \subseteq 0..x /\ x \in 0..x /\ x \notin 0..y
    BY <1>6
  <2>2. 0..y \in SUBSET Nat /\ 0..x \in SUBSET Nat
    OBVIOUS
  <2>3. <<0..y, 0..x>> \in R
    BY <2>1, <2>2, Zenon DEF StrictSubsetOrdering
  <2> QED
    BY <2>3, <1>5
<1> QED
  BY <1>6

\* A nonempty set of numbers below a bound has a greatest one (the last
\* sample before a string).
LEMMA GreatestExists ==
  ASSUME NEW T \in SUBSET Nat, T # {}, NEW n \in Nat, \A y \in T : y <= n
  PROVE  \E x \in T : \A y \in T : y <= x
<1> DEFINE Bounds == {m \in Nat : \A y \in T : y <= m}
<1>1. n \in Bounds
  OBVIOUS
<1>2. PICK m \in Bounds : \A k \in Bounds : m <= k
  BY <1>1, LeastExists
<1>3. CASE m \in T
  BY <1>3
<1>4. CASE m \notin T
  <2>1. \A y \in T : y < m
    BY <1>4
  <2>2. PICK y \in T : y < m
    BY <2>1
  <2>3. m - 1 \in Nat
    BY <2>2
  <2>4. m - 1 \in Bounds
    BY <2>1, <2>3
  <2> QED
    BY <2>4, <1>2
<1> QED
  BY <1>3, <1>4

-----------------------------------------------------------------------------
(* Samples.                                                                *)

\* In any stretch of a step there is a multiple of it.
LEMMA MultipleNear ==
  ASSUME NEW a \in Nat
  PROVE  \E m \in a..(a + OffsetStep - 1) : m \in Nat /\ m % OffsetStep = 0
<1> DEFINE S == OffsetStep
           b == a + S - 1
           q == b \div S
<1>1. S \in Nat \ {0} /\ b \in Nat
  BY StepAssumption
<1>2. b = S * q + (b % S) /\ b % S \in 0..(S - 1) /\ q \in Nat
  <2> HIDE DEF b, S
  <2> QED
    BY <1>1
<1>3. (S * q) % S = 0 /\ S * q \in Nat
  <2> HIDE DEF b, q, S
  <2> QED
    BY <1>1, <1>2
<1>4. S * q \in a..b
  <2> DEFINE m == S * q
             r == b % S
  <2>1. b = m + r /\ r \in 0..(S - 1) /\ m \in Nat
    BY <1>2, <1>3
  <2> HIDE DEF m, r, q
  <2>2. m \in a..b
    BY <1>1, <2>1
  <2> QED
    BY <2>2 DEF m
<1> HIDE DEF q
<1> QED
  BY <1>3, <1>4

\* A step after a multiple is the next one.
LEMMA NextMultiple ==
  ASSUME NEW a \in Nat, a % OffsetStep = 0
  PROVE  (a + OffsetStep) % OffsetStep = 0
<1> DEFINE S == OffsetStep
           q == a \div S
<1>1. S \in Nat \ {0}
  BY StepAssumption
<1>2. a = S * q /\ q \in Nat
  <2>1. a = S * q + (a % S) /\ q \in Nat
    BY <1>1
  <2> QED
    BY <1>1, <2>1
<1>3. (S * (q + 1)) % S = 0
  <2> HIDE DEF q, S
  <2> QED
    BY <1>1, <1>2
<1>4. S * (q + 1) = a + S
  <2> HIDE DEF q, S
  <2> QED
    BY <1>1, <1>2
<1> QED
  BY <1>3, <1>4

\* What is known of a column of a segment that has rows.
Column(col) == col \in Seq(Strings) /\ Sorted(col) /\ Len(col) > 0

\* Rows have strings, in order.
LEMMA RowsAre ==
  ASSUME NEW col, Column(col)
  PROVE  /\ Len(col) \in Nat \ {0}
         /\ \A i \in 0..(Len(col) - 1) : RowAt(col, i) \in Strings /\ RowAt(col, i) \in Nat
         /\ \A i, j \in 0..(Len(col) - 1) : i <= j => RowAt(col, i) <= RowAt(col, j)
<1>1. col \in Seq(Strings) /\ Len(col) \in Nat \ {0}
  BY DEF Column
<1>2. \A i \in 0..(Len(col) - 1) : i + 1 \in 1..Len(col)
  BY <1>1
<1>3. \A i \in 1..Len(col) : col[i] \in Strings
  BY <1>1
<1>4. \A i \in 0..(Len(col) - 1) : RowAt(col, i) \in Strings /\ RowAt(col, i) \in Nat
  BY <1>2, <1>3, StringsAssumption DEF RowAt
<1>5. ASSUME NEW i \in 0..(Len(col) - 1), NEW j \in 0..(Len(col) - 1), i <= j
      PROVE  RowAt(col, i) <= RowAt(col, j)
  <2>1. i + 1 \in 1..Len(col) /\ j + 1 \in 1..Len(col) /\ i + 1 <= j + 1
    BY <1>1, <1>5
  <2> QED
    BY <2>1 DEF RowAt, Column, Sorted
<1> QED
  BY <1>1, <1>4, <1>5

\* The idx maps the string of a sample to the first sample with it.
LEMMA IndexIs ==
  ASSUME NEW col, Column(col)
  PROVE  /\ DOMAIN CreateSparseIndex(col) = {RowAt(col, i) : i \in Samples(col)}
         /\ \A k \in DOMAIN CreateSparseIndex(col) :
              /\ CreateSparseIndex(col)[k] \in Samples(col)
              /\ RowAt(col, CreateSparseIndex(col)[k]) = k
              /\ \A i \in Samples(col) : RowAt(col, i) = k => CreateSparseIndex(col)[k] <= i
<1> DEFINE At(k) == {i \in Samples(col) : RowAt(col, i) = k}
<1>1. DOMAIN CreateSparseIndex(col) = {RowAt(col, i) : i \in Samples(col)}
  BY DEF CreateSparseIndex
<1>2. ASSUME NEW k \in DOMAIN CreateSparseIndex(col)
      PROVE  /\ CreateSparseIndex(col)[k] \in At(k)
             /\ \A i \in At(k) : CreateSparseIndex(col)[k] <= i
  <2>1. At(k) # {} /\ At(k) \in SUBSET Nat
    BY <1>1, RowsAre DEF Samples
  <2>2. CreateSparseIndex(col)[k] = Min(At(k))
    BY <1>1 DEF CreateSparseIndex
  <2> HIDE DEF At
  <2>3. \E x \in At(k) : \A y \in At(k) : x <= y
    BY <2>1, LeastExists
  <2>4. Min(At(k)) \in At(k) /\ \A y \in At(k) : Min(At(k)) <= y
    BY <2>3 DEF Min
  <2> QED
    BY <2>2, <2>4
<1> QED
  BY <1>1, <1>2

\* A search starts at a sample: rows before it are below the lower string, and
\* a later sample below that string has the string of the start.
LEMMA StartIs ==
  ASSUME NEW col, Column(col), NEW from \in Nat
  PROVE  /\ StartOf(col, from) \in Samples(col)
         /\ \A i \in 0..(StartOf(col, from) - 1) : RowAt(col, i) < from
         /\ \A i \in Samples(col) : (StartOf(col, from) <= i /\ RowAt(col, i) < from)
                                      => RowAt(col, i) = RowAt(col, StartOf(col, from))
<1> DEFINE idx == CreateSparseIndex(col)
           below == KeysBelow(idx, from)
           start == StartOf(col, from)
<1>1. /\ Len(col) \in Nat \ {0}
      /\ \A i \in 0..(Len(col) - 1) : RowAt(col, i) \in Nat
      /\ \A i, j \in 0..(Len(col) - 1) : i <= j => RowAt(col, i) <= RowAt(col, j)
  BY RowsAre
<1>2. Samples(col) \subseteq 0..(Len(col) - 1) /\ 0 \in Samples(col)
  BY <1>1, StepAssumption DEF Samples
<1>3. \A i \in Samples(col) : RowAt(col, i) < from => RowAt(col, i) \in below
  BY IndexIs DEF KeysBelow
<1>4. below \in SUBSET Nat /\ \A k \in below : k < from /\ k \in DOMAIN idx
  <2>1. DOMAIN idx \subseteq Nat
    BY <1>1, <1>2, IndexIs
  <2> QED
    BY <2>1 DEF KeysBelow
<1>5. CASE below = {}
  <2>1. start = 0
    BY <1>5 DEF StartOf
  <2>2. \A i \in Samples(col) : ~(RowAt(col, i) < from)
    BY <1>3, <1>5
  <2> QED
    BY <1>2, <2>1, <2>2
<1>6. CASE below # {}
  <2> DEFINE k == Max(below)
  <2>1. k \in below /\ \A x \in below : x <= k
    <3> HIDE DEF below
    <3>1. \A x \in below : x <= from
      BY <1>4
    <3>2. \E x \in below : \A y \in below : y <= x
      BY <1>4, <1>6, <3>1, GreatestExists
    <3>3. \E x \in below : \A y \in below : x >= y
      BY <1>4, <3>2
    <3>4. Max(below) \in below /\ \A y \in below : Max(below) >= y
      BY <3>3 DEF Max
    <3> QED
      BY <1>4, <3>4
  <2>2. start = idx[k]
    BY <1>6 DEF StartOf
  <2>3. k \in DOMAIN idx /\ k < from /\ k \in Nat
    BY <1>4, <2>1
  <2> HIDE DEF start, k
  <2>4. start \in Samples(col) /\ RowAt(col, start) = k
    BY <2>2, <2>3, IndexIs
  <2>5. ASSUME NEW i \in 0..(start - 1)
        PROVE  RowAt(col, i) < from
    <3>1. i \in 0..(Len(col) - 1) /\ start \in 0..(Len(col) - 1) /\ i <= start
      BY <1>1, <1>2, <2>4
    <3>2. RowAt(col, i) <= RowAt(col, start)
      BY <1>1, <3>1
    <3> QED
      BY <1>1, <2>3, <2>4, <3>1, <3>2
  <2>6. ASSUME NEW i \in Samples(col), start <= i, RowAt(col, i) < from
        PROVE  RowAt(col, i) = RowAt(col, start)
    <3>1. RowAt(col, i) <= k
      BY <1>3, <2>1, <2>6
    <3>2. RowAt(col, start) <= RowAt(col, i)
      BY <1>1, <1>2, <2>4, <2>6
    <3>3. RowAt(col, i) \in Nat
      BY <1>1, <1>2
    <3> QED
      BY <2>3, <2>4, <3>1, <3>2, <3>3
  <2> QED
    BY <2>4, <2>5, <2>6 DEF start
<1> QED
  BY <1>5, <1>6

\* A search ends at the first sample above the upper string, or at the end of
\* the column; rows from there on are above that string.
LEMMA EndIs ==
  ASSUME NEW col, Column(col), NEW to \in Nat
  PROVE  /\ EndOf(col, to) \in 0..Len(col)
         /\ \A i \in 0..(Len(col) - 1) : EndOf(col, to) <= i => to < RowAt(col, i)
         /\ \A i \in Samples(col) : to < RowAt(col, i) => EndOf(col, to) <= i
<1> DEFINE idx == CreateSparseIndex(col)
           above == KeysAbove(idx, to)
           end   == EndOf(col, to)
<1>1. /\ Len(col) \in Nat \ {0}
      /\ \A i \in 0..(Len(col) - 1) : RowAt(col, i) \in Nat
      /\ \A i, j \in 0..(Len(col) - 1) : i <= j => RowAt(col, i) <= RowAt(col, j)
  BY RowsAre
<1>2. Samples(col) \subseteq 0..(Len(col) - 1)
  BY <1>1 DEF Samples
<1>3. DOMAIN idx \subseteq Nat
  <2>1. \A i \in Samples(col) : RowAt(col, i) \in Nat
    BY <1>1, <1>2
  <2>2. DOMAIN idx = {RowAt(col, i) : i \in Samples(col)}
    BY IndexIs
  <2> QED
    BY <2>1, <2>2
<1>4. \A i \in Samples(col) : to < RowAt(col, i) => RowAt(col, i) \in above
  <2> TAKE i \in Samples(col)
  <2>1. RowAt(col, i) \in DOMAIN idx
    BY IndexIs
  <2> QED
    BY <1>3, <2>1 DEF KeysAbove
<1>5. above \in SUBSET Nat /\ \A k \in above : to < k /\ k \in DOMAIN idx
  BY <1>3 DEF KeysAbove
<1>6. CASE above = {}
  <2>1. end = Len(col)
    BY <1>6 DEF EndOf
  <2>2. \A i \in Samples(col) : ~(to < RowAt(col, i))
    BY <1>4, <1>6
  <2> QED
    BY <1>1, <2>1, <2>2
<1>7. CASE above # {}
  <2> DEFINE k == Min(above)
  <2>1. k \in above /\ \A x \in above : k <= x
    <3> HIDE DEF above
    <3>1. \E x \in above : \A y \in above : x <= y
      BY <1>5, <1>7, LeastExists
    <3> QED
      BY <3>1 DEF Min
  <2>2. end = idx[k]
    BY <1>7 DEF EndOf
  <2>3. k \in DOMAIN idx /\ to < k /\ k \in Nat
    BY <1>5, <2>1
  <2> HIDE DEF end, k
  <2>4. /\ end \in Samples(col) /\ RowAt(col, end) = k
        /\ \A i \in Samples(col) : RowAt(col, i) = k => end <= i
    BY <2>2, <2>3, IndexIs
  <2>5. end \in 0..(Len(col) - 1)
    BY <1>2, <2>4
  <2>6. ASSUME NEW i \in 0..(Len(col) - 1), end <= i
        PROVE  to < RowAt(col, i)
    <3>1. RowAt(col, end) <= RowAt(col, i) /\ RowAt(col, i) \in Nat
      BY <1>1, <2>5, <2>6
    <3> QED
      BY <2>3, <2>4, <3>1
  <2>7. ASSUME NEW i \in Samples(col), to < RowAt(col, i)
        PROVE  end <= i
    <3>1. k <= RowAt(col, i)
      BY <1>4, <2>1, <2>7
    <3>2. CASE RowAt(col, i) = k
      BY <2>4, <3>2
    <3>3. CASE RowAt(col, i) # k
      <4>1. i \in 0..(Len(col) - 1) /\ RowAt(col, i) \in Nat
        BY <1>1, <1>2
      <4>2. ~(RowAt(col, i) <= RowAt(col, end))
        BY <2>3, <2>4, <3>1, <3>3, <4>1
      <4>3. ~(i <= end)
        BY <1>1, <2>5, <4>1, <4>2
      <4> QED
        BY <2>5, <4>1, <4>3
    <3> QED
      BY <3>2, <3>3
  <2>8. end \in 0..Len(col)
    BY <1>1, <2>5
  <2> QED
    BY <2>6, <2>7, <2>8 DEF end
<1> QED
  BY <1>6, <1>7

\* A count goes over rows that do not stop it, and ends at one that does, at
\* the end of its window or at the end of the column.
LEMMA CountIs ==
  ASSUME NEW col, Len(col) \in Nat, NEW first \in 0..Len(col), NEW len \in Nat, NEW stop \in SUBSET Nat
  PROVE  LET c == CountUntil(col, first, len, stop)
         IN  /\ c \in 0..len
             /\ first + c <= Len(col)
             /\ \A i \in first..(first + c - 1) : i \notin stop
             /\ first + c \in stop \/ c = len \/ first + c = Len(col)
<1> DEFINE window == {i \in first..(first + len - 1) : i < Len(col)}
           stops  == window \cap stop
           c      == CountUntil(col, first, len, stop)
<1>1. CASE stops = {}
  <2>1. c = Cardinality(window)
    BY <1>1 DEF CountUntil
  <2>2. CASE first + len <= Len(col)
    <3>1. window = first..(first + len - 1)
      BY <2>2
    <3>2. c = len
      <4>1. Cardinality(first..(first + len - 1)) = len
        <5>1. first \in Int /\ first + len - 1 \in Int
          OBVIOUS
        <5> QED
          BY <5>1, FS_Interval
      <4> HIDE DEF c, window
      <4> QED
        BY <2>1, <3>1, <4>1
    <3> HIDE DEF c
    <3>3. \A i \in first..(first + c - 1) : i \in window
      BY <3>1, <3>2
    <3> QED
      BY <1>1, <2>2, <3>2, <3>3 DEF c
  <2>3. CASE ~(first + len <= Len(col))
    <3>1. window = first..(Len(col) - 1)
      BY <2>3
    <3>2. c = Len(col) - first
      <4>1. Cardinality(first..(Len(col) - 1)) = Len(col) - first
        <5> DEFINE b == Len(col) - 1
        <5>1. first \in Int /\ b \in Int
          OBVIOUS
        <5>2. Cardinality(first..b) = IF first > b THEN 0 ELSE b - first + 1
          <6> HIDE DEF b
          <6> QED
            BY <5>1, FS_Interval
        <5> QED
          BY <5>2
      <4> HIDE DEF c, window
      <4> QED
        BY <2>1, <3>1, <4>1
    <3> HIDE DEF c
    <3>3. \A i \in first..(first + c - 1) : i \in window
      BY <3>1, <3>2
    <3>4. c \in 0..len /\ first + c = Len(col)
      BY <2>3, <3>2
    <3> QED
      BY <1>1, <3>3, <3>4 DEF c
  <2> QED
    BY <2>2, <2>3
<1>2. CASE stops # {}
  <2>1. c = Min(stops) - first
    BY <1>2 DEF CountUntil
  <2>2. Min(stops) \in stops /\ \A x \in stops : Min(stops) <= x
    <3>1. stops \in SUBSET Nat
      OBVIOUS
    <3> HIDE DEF stops
    <3>2. \E x \in stops : \A y \in stops : x <= y
      BY <1>2, <3>1, LeastExists
    <3> QED
      BY <3>2 DEF Min
  <2> DEFINE m == Min(stops)
  <2>3. m \in first..(first + len - 1) /\ m < Len(col) /\ m \in stop
    BY <2>2
  <2>4. c = m - first
    BY <2>1
  <2> HIDE DEF c, m
  <2>5. c \in 0..len /\ first + c = m
    BY <2>3, <2>4
  <2>6. ASSUME NEW i \in first..(first + c - 1), i \in stop
        PROVE  FALSE
    <3>1. i \in window
      BY <2>3, <2>5
    <3>2. m <= i
      BY <2>2, <2>6, <3>1 DEF m
    <3> QED
      BY <2>3, <2>5, <3>2
  <2> QED
    BY <2>3, <2>5, <2>6 DEF c
<1> QED
  BY <1>1, <1>2

-----------------------------------------------------------------------------
(* What is read.                                                           *)

\* Rows that stop a search are rows.
LEMMA StopsAreRows ==
  ASSUME NEW col, Column(col), NEW from, NEW to
  PROVE  RowsFrom(col, from) \in SUBSET Nat /\ RowsAfter(col, to) \in SUBSET Nat
BY RowsAre DEF RowsFrom, RowsAfter

\* Every row before the first one that is read is below the lower string.
LEMMA FromIs ==
  ASSUME NEW col, Column(col), NEW from \in Nat
  PROVE  /\ FromOf(col, from) \in StartOf(col, from)..Len(col)
         /\ \A i \in 0..(Len(col) - 1) : i < FromOf(col, from) => RowAt(col, i) < from
         /\ \/ FromOf(col, from) \in RowsFrom(col, from)
            \/ FromOf(col, from) = StartOf(col, from) + 2 * OffsetStep
            \/ FromOf(col, from) = Len(col)
<1> DEFINE start == StartOf(col, from)
           stop  == RowsFrom(col, from)
           c     == CountUntil(col, start, 2 * OffsetStep, stop)
           first == FromOf(col, from)
<1>1. /\ Len(col) \in Nat \ {0}
      /\ \A i \in 0..(Len(col) - 1) : RowAt(col, i) \in Nat
  BY RowsAre
<1>2. start \in 0..(Len(col) - 1) /\ \A i \in 0..(start - 1) : RowAt(col, i) < from
  BY <1>1, StartIs DEF Samples
<1>3. 2 * OffsetStep \in Nat /\ start \in 0..Len(col) /\ stop \in SUBSET Nat
  BY <1>1, <1>2, StepAssumption, StopsAreRows
<1>4. first = start + c
  BY DEF FromOf
<1>5. /\ c \in 0..(2 * OffsetStep)
      /\ start + c <= Len(col)
      /\ \A i \in start..(start + c - 1) : i \notin stop
      /\ start + c \in stop \/ c = 2 * OffsetStep \/ start + c = Len(col)
  <2> HIDE DEF start, stop
  <2> QED
    BY <1>1, <1>3, CountIs
<1> HIDE DEF start, c, first
<1>6. first \in start..Len(col)
  BY <1>1, <1>3, <1>4, <1>5
<1>7. ASSUME NEW i \in 0..(Len(col) - 1), i < first
      PROVE  RowAt(col, i) < from
  <2>1. CASE i < start
    BY <1>2, <2>1
  <2>2. CASE ~(i < start)
    <3>1. i \in start..(start + c - 1)
      BY <1>3, <1>4, <1>5, <1>7, <2>2
    <3>2. ~(from <= RowAt(col, i))
      BY <1>5, <3>1 DEF RowsFrom
    <3> QED
      BY <1>1, <3>2
  <2> QED
    BY <2>1, <2>2
<1>8. first \in stop \/ first = start + 2 * OffsetStep \/ first = Len(col)
  BY <1>4, <1>5
<1> QED
  BY <1>6, <1>7, <1>8 DEF start, first

\* The end of a search is within the column, two steps behind its start or
\* at the start of the column.
LEMMA BackIs ==
  ASSUME NEW end \in Nat
  PROVE  /\ BackOf(end) \in 0..end
         /\ end <= BackOf(end) + 2 * OffsetStep
         /\ BackOf(end) # 0 => end = BackOf(end) + 2 * OffsetStep
BY StepAssumption DEF BackOf

\* Every row up to the upper string comes before the last one that is read,
\* and rows before it that were looked at are not above that string.
LEMMA ToIs ==
  ASSUME NEW col, Column(col), NEW to \in Nat
  PROVE  /\ ToOf(col, to) \in BackOf(EndOf(col, to))..Len(col)
         /\ \A i \in 0..(Len(col) - 1) : RowAt(col, i) <= to => i < ToOf(col, to)
         /\ \A i \in 0..(Len(col) - 1) :
              (BackOf(EndOf(col, to)) <= i /\ i < ToOf(col, to)) => RowAt(col, i) <= to
<1> DEFINE end  == EndOf(col, to)
           back == BackOf(end)
           stop == RowsAfter(col, to)
           len  == 2 * OffsetStep + 1
           c    == CountUntil(col, back, len, stop)
           last == ToOf(col, to)
<1>1. /\ Len(col) \in Nat \ {0}
      /\ \A i \in 0..(Len(col) - 1) : RowAt(col, i) \in Nat
      /\ \A i, j \in 0..(Len(col) - 1) : i <= j => RowAt(col, i) <= RowAt(col, j)
  BY RowsAre
<1>2. end \in 0..Len(col) /\ \A i \in 0..(Len(col) - 1) : end <= i => to < RowAt(col, i)
  BY EndIs
<1>3. back \in 0..end /\ end <= back + 2 * OffsetStep
  <2>1. end \in Nat
    BY <1>1, <1>2
  <2> HIDE DEF end
  <2> QED
    BY <2>1, BackIs
<1>4. len \in Nat /\ OffsetStep \in Nat /\ back \in 0..Len(col) /\ stop \in SUBSET Nat
  <2>1. back \in 0..Len(col)
    <3> HIDE DEF back, end
    <3> QED
      BY <1>1, <1>2, <1>3
  <2> HIDE DEF back
  <2> QED
    BY <2>1, StepAssumption, StopsAreRows
<1>5. last = back + c
  BY DEF ToOf
<1>6. /\ c \in 0..len
      /\ back + c <= Len(col)
      /\ \A i \in back..(back + c - 1) : i \notin stop
      /\ back + c \in stop \/ c = len \/ back + c = Len(col)
  <2> HIDE DEF back, stop, len
  <2> QED
    BY <1>1, <1>4, CountIs
<1> HIDE DEF end, back, c, last
<1>7. last \in back..Len(col)
  BY <1>1, <1>4, <1>5, <1>6
<1>8. ASSUME NEW i \in 0..(Len(col) - 1), RowAt(col, i) <= to
      PROVE  i < last
  <2>1. CASE last \in stop
    <3>1. last \in 0..(Len(col) - 1) /\ to < RowAt(col, last)
      BY <2>1 DEF RowsAfter
    <3>2. ~(RowAt(col, last) <= RowAt(col, i))
      BY <1>1, <1>8, <3>1
    <3>3. ~(last <= i)
      BY <1>1, <3>1, <3>2
    <3> QED
      BY <1>1, <3>1, <3>3
  <2>2. CASE c = len
    <3>1. ~(end <= i)
      BY <1>1, <1>2, <1>8
    <3>2. end < last
      BY <1>1, <1>2, <1>3, <1>4, <1>5, <2>2
    <3> QED
      BY <1>1, <1>2, <1>7, <3>1, <3>2
  <2>3. CASE last = Len(col)
    BY <1>1, <2>3
  <2> QED
    BY <1>5, <1>6, <2>1, <2>2, <2>3
<1>9. ASSUME NEW i \in 0..(Len(col) - 1), back <= i, i < last
      PROVE  RowAt(col, i) <= to
  <2>1. i \in back..(back + c - 1)
    BY <1>4, <1>5, <1>6, <1>9
  <2>2. ~(to < RowAt(col, i))
    BY <1>6, <2>1 DEF RowsAfter
  <2> QED
    BY <1>1, <2>2
<1> QED
  BY <1>7, <1>8, <1>9 DEF end, back, last

\* No row between two strings is missed, and what is read ends no earlier than
\* it starts.
LEMMA NothingMissed ==
  ASSUME NEW col, Column(col), NEW from \in Nat, NEW to \in Nat, from <= to
  PROVE  /\ FromOf(col, from) <= ToOf(col, to)
         /\ \A i \in 0..(Len(col) - 1) :
              (from <= RowAt(col, i) /\ RowAt(col, i) <= to) =>
                /\ FromOf(col, from) <= i /\ i < ToOf(col, to)
                /\ StartOf(col, from) < EndOf(col, to)
<1> DEFINE first == FromOf(col, from)
           last  == ToOf(col, to)
           start == StartOf(col, from)
           end   == EndOf(col, to)
<1>1. /\ Len(col) \in Nat \ {0}
      /\ \A i \in 0..(Len(col) - 1) : RowAt(col, i) \in Nat
  BY RowsAre
<1>2. start \in 0..(Len(col) - 1) /\ \A i \in 0..(start - 1) : RowAt(col, i) < from
  BY <1>1, StartIs DEF Samples
<1>3. first \in start..Len(col) /\ \A i \in 0..(Len(col) - 1) : i < first => RowAt(col, i) < from
  BY FromIs
<1>4. end \in 0..Len(col) /\ \A i \in 0..(Len(col) - 1) : end <= i => to < RowAt(col, i)
  BY EndIs
<1>5. /\ last \in BackOf(end)..Len(col)
      /\ \A i \in 0..(Len(col) - 1) : RowAt(col, i) <= to => i < last
  BY ToIs
<1>6. BackOf(end) \in Nat
  BY <1>1, <1>4, BackIs
<1> HIDE DEF first, last, start, end
<1>7. first \in 0..Len(col) /\ last \in 0..Len(col)
  BY <1>1, <1>2, <1>3, <1>5, <1>6
<1>8. ASSUME ~(first <= last) PROVE FALSE
  <2>1. last \in 0..(Len(col) - 1) /\ last < first
    BY <1>1, <1>7, <1>8
  <2>2. RowAt(col, last) < from
    BY <1>3, <2>1
  <2>3. RowAt(col, last) <= to
    BY <1>1, <2>1, <2>2
  <2> QED
    BY <1>5, <1>7, <2>1, <2>3
<1>9. ASSUME NEW i \in 0..(Len(col) - 1), from <= RowAt(col, i), RowAt(col, i) <= to
      PROVE  first <= i /\ i < last /\ start < end
  <2>1. ~(i < first) /\ ~(i \in 0..(start - 1)) /\ ~(end <= i)
    BY <1>1, <1>2, <1>3, <1>4, <1>9
  <2> QED
    BY <1>1, <1>2, <1>4, <1>5, <1>7, <1>9, <2>1
<1> QED
  BY <1>8, <1>9 DEF first, last, start, end

\* A string with more than a step of rows in a row has more than a step of them.
LEMMA ManyRows ==
  ASSUME NEW col, Column(col), NEW a \in Nat, a + OffsetStep <= Len(col) - 1,
         \A i \in a..(a + OffsetStep) : RowAt(col, i) = RowAt(col, a)
  PROVE  OffsetStep < Cardinality({i \in 0..(Len(col) - 1) : RowAt(col, i) = RowAt(col, a)})
<1> DEFINE same == {i \in 0..(Len(col) - 1) : RowAt(col, i) = RowAt(col, a)}
           run == a..(a + OffsetStep)
<1>1. Len(col) \in Nat /\ OffsetStep \in Nat
  BY RowsAre, StepAssumption
<1>2. run \in SUBSET same
  BY <1>1
<1>3. IsFiniteSet(same)
  <2> DEFINE b == Len(col) - 1
  <2>1. 0 \in Int /\ b \in Int
    BY <1>1
  <2>2. same \in SUBSET (0..b)
    OBVIOUS
  <2> HIDE DEF same, b
  <2>3. IsFiniteSet(0..b)
    BY <2>1, FS_Interval
  <2> QED
    BY <2>2, <2>3, FS_Subset
<1>4. Cardinality(run) = OffsetStep + 1
  <2> DEFINE b == a + OffsetStep
  <2>1. a \in Int /\ b \in Int
    BY <1>1
  <2>2. Cardinality(a..b) = IF a > b THEN 0 ELSE b - a + 1
    <3> HIDE DEF b
    <3> QED
      BY <2>1, FS_Interval
  <2> QED
    BY <1>1, <2>2
<1> HIDE DEF same, run
<1>5. Cardinality(run) <= Cardinality(same) /\ Cardinality(same) \in Nat
  BY <1>2, <1>3, FS_Subset, FS_CardinalityType
<1>6. OffsetStep < Cardinality(same)
  BY <1>1, <1>4, <1>5
<1> QED
  BY <1>6 DEF same

\* If no string has more rows than a step, the first row that is read is not
\* below the lower string: a window without such a row would show a second
\* sample of the string that the search started at.
LEMMA FromExact ==
  ASSUME NEW col, Column(col), NEW from \in Nat,
         \A s \in Strings : Cardinality({i \in 0..(Len(col) - 1) : RowAt(col, i) \in {s}}) <= OffsetStep
  PROVE  \A i \in 0..(Len(col) - 1) : FromOf(col, from) <= i => from <= RowAt(col, i)
<1> DEFINE first == FromOf(col, from)
           start == StartOf(col, from)
<1>1. /\ Len(col) \in Nat \ {0}
      /\ \A i \in 0..(Len(col) - 1) : RowAt(col, i) \in Nat /\ RowAt(col, i) \in Strings
      /\ \A i, j \in 0..(Len(col) - 1) : i <= j => RowAt(col, i) <= RowAt(col, j)
  BY RowsAre
<1>2. OffsetStep \in Nat \ {0}
  BY StepAssumption
<1>3. /\ start \in Samples(col)
      /\ \A i \in Samples(col) : (start <= i /\ RowAt(col, i) < from) => RowAt(col, i) = RowAt(col, start)
  BY StartIs
<1>4. start \in 0..(Len(col) - 1) /\ (start % OffsetStep = 0 \/ start = Len(col) - 1)
  BY <1>1, <1>3 DEF Samples
<1>5. /\ first \in start..Len(col)
      /\ \A i \in 0..(Len(col) - 1) : i < first => RowAt(col, i) < from
      /\ first \in RowsFrom(col, from) \/ first = start + 2 * OffsetStep \/ first = Len(col)
  BY FromIs
<1> HIDE DEF first, start
<1>6. CASE first \in RowsFrom(col, from)
  <2>1. first \in 0..(Len(col) - 1) /\ from <= RowAt(col, first)
    BY <1>6 DEF RowsFrom
  <2>2. ASSUME NEW i \in 0..(Len(col) - 1), first <= i
        PROVE  from <= RowAt(col, i)
    <3>1. RowAt(col, first) <= RowAt(col, i)
      BY <1>1, <2>1, <2>2
    <3> QED
      BY <1>1, <2>1, <3>1
  <2> QED
    BY <2>2 DEF first
<1>7. CASE first = Len(col)
  BY <1>1, <1>7 DEF first
<1>8. CASE first = start + 2 * OffsetStep /\ first # Len(col)
  <2> DEFINE next == start + OffsetStep
  <2>1. start \in Nat /\ next \in 0..(Len(col) - 1) /\ next < first /\ start < next /\ start # Len(col) - 1
    BY <1>1, <1>2, <1>4, <1>5, <1>8
  <2>2. next \in Samples(col)
    <3>1. next % OffsetStep = 0
      BY <1>4, <2>1, NextMultiple
    <3> QED
      BY <2>1, <3>1 DEF Samples
  <2>3. RowAt(col, next) = RowAt(col, start)
    BY <1>3, <1>5, <2>1, <2>2
  <2>4. ASSUME NEW i \in start..next
        PROVE  RowAt(col, i) = RowAt(col, start)
    <3>1. i \in 0..(Len(col) - 1) /\ start <= i /\ i <= next
      BY <1>1, <1>4, <2>1
    <3> HIDE DEF next
    <3>2. RowAt(col, start) <= RowAt(col, i) /\ RowAt(col, i) <= RowAt(col, next)
      BY <1>1, <1>4, <2>1, <3>1
    <3> QED
      BY <1>1, <1>4, <2>3, <3>1, <3>2
  <2>5. OffsetStep < Cardinality({i \in 0..(Len(col) - 1) : RowAt(col, i) = RowAt(col, start)})
    <3>1. start + OffsetStep <= Len(col) - 1
      BY <1>1, <1>2, <2>1
    <3> QED
      BY <2>1, <2>4, <3>1, ManyRows
  <2>6. {i \in 0..(Len(col) - 1) : RowAt(col, i) = RowAt(col, start)}
          = {i \in 0..(Len(col) - 1) : RowAt(col, i) \in {RowAt(col, start)}}
    OBVIOUS
  <2>7. Cardinality({i \in 0..(Len(col) - 1) : RowAt(col, i) = RowAt(col, start)}) <= OffsetStep
    BY <1>1, <1>4, <2>6
  <2>8. Cardinality({i \in 0..(Len(col) - 1) : RowAt(col, i) = RowAt(col, start)}) \in Nat
    <3>1. IsFiniteSet(0..(Len(col) - 1))
      BY <1>1, FS_Interval
    <3> QED
      BY <3>1, FS_Subset, FS_CardinalityType
  <2> QED
    BY <1>2, <2>5, <2>7, <2>8
<1> QED
  BY <1>5, <1>6, <1>7, <1>8

\* The last row that is read is not above the upper string: between the start
\* of the window and the end of the search there is a sample.
LEMMA ToExact ==
  ASSUME NEW col, Column(col), NEW to \in Nat
  PROVE  \A i \in 0..(Len(col) - 1) : i < ToOf(col, to) => RowAt(col, i) <= to
<1> DEFINE end  == EndOf(col, to)
           back == BackOf(end)
           last == ToOf(col, to)
<1>1. /\ Len(col) \in Nat \ {0}
      /\ \A i \in 0..(Len(col) - 1) : RowAt(col, i) \in Nat
      /\ \A i, j \in 0..(Len(col) - 1) : i <= j => RowAt(col, i) <= RowAt(col, j)
  BY RowsAre
<1>2. OffsetStep \in Nat \ {0}
  BY StepAssumption
<1>3. end \in 0..Len(col) /\ \A i \in Samples(col) : to < RowAt(col, i) => end <= i
  BY EndIs
<1>4. back \in 0..end /\ (back # 0 => end = back + 2 * OffsetStep)
  <2>1. end \in Nat
    BY <1>1, <1>3
  <2> HIDE DEF end
  <2> QED
    BY <2>1, BackIs
<1>5. /\ last \in back..Len(col)
      /\ \A i \in 0..(Len(col) - 1) : (back <= i /\ i < last) => RowAt(col, i) <= to
  BY ToIs
<1> HIDE DEF end, back, last
<1>6. back # 0 => RowAt(col, back) <= to /\ back \in 0..(Len(col) - 1)
  <2> SUFFICES ASSUME back # 0 PROVE RowAt(col, back) <= to /\ back \in 0..(Len(col) - 1)
    OBVIOUS
  <2>1. back \in 0..(Len(col) - 1) /\ back \in Nat
    BY <1>1, <1>2, <1>3, <1>4
  <2>2. PICK m \in back..(back + OffsetStep - 1) : m \in Nat /\ m % OffsetStep = 0
    BY <2>1, MultipleNear
  <2>3. m < end /\ m \in 0..(Len(col) - 1) /\ back <= m
    BY <1>1, <1>2, <1>3, <1>4, <2>1, <2>2
  <2>4. m \in Samples(col)
    BY <2>2, <2>3 DEF Samples
  <2>5. ~(to < RowAt(col, m))
    BY <1>1, <1>3, <2>3, <2>4
  <2>6. RowAt(col, back) <= RowAt(col, m)
    BY <1>1, <2>1, <2>3
  <2> QED
    BY <1>1, <2>1, <2>3, <2>5, <2>6
<1>7. ASSUME NEW i \in 0..(Len(col) - 1), i < last
      PROVE  RowAt(col, i) <= to
  <2>1. CASE back <= i
    BY <1>5, <1>7, <2>1
  <2>2. CASE ~(back <= i)
    <3>1. back # 0 /\ i <= back
      BY <1>1, <1>3, <1>4, <2>2
    <3>2. RowAt(col, i) <= RowAt(col, back)
      BY <1>1, <1>6, <3>1
    <3> QED
      BY <1>1, <1>6, <3>1, <3>2
  <2> QED
    BY <2>1, <2>2
<1> QED
  BY <1>7 DEF last

-----------------------------------------------------------------------------
(* Every column that a segment can have.                                   *)

\* No segment has rows at first.
LEMMA ColumnInitIInv == ColumnInit => ColumnIInv
BY DEF ColumnInit, ColumnIInv, Sorted

\* A row is added behind rows that are not above it.
LEMMA ColumnNextIInv == ColumnIInv /\ [ColumnNext]_columnVars => ColumnIInv'
<1> SUFFICES ASSUME ColumnIInv, [ColumnNext]_columnVars
             PROVE  ColumnIInv'
  OBVIOUS
<1>1. column \in Seq(Strings) /\ Sorted(column) /\ Strings \subseteq Nat
  BY StringsAssumption DEF ColumnIInv
<1>2. CASE UNCHANGED columnVars
  BY <1>1, <1>2 DEF ColumnIInv, columnVars
<1>3. ASSUME NEW s \in Strings,
             column # <<>> => Last(column) <= s,
             column' = Append(column, s)
      PROVE  ColumnIInv'
  <2>1. column' \in Seq(Strings) /\ Len(column') = Len(column) + 1 /\ Len(column) \in Nat
    BY <1>1, <1>3
  <2>2. /\ \A i \in 1..Len(column) : column'[i] = column[i] /\ column[i] \in Nat
        /\ column'[Len(column) + 1] = s /\ s \in Nat
    <3>1. \A i \in 1..Len(column) : column[i] \in Strings
      BY <1>1
    <3>2. \A i \in 1..Len(column) : Append(column, s)[i] = column[i]
      BY <1>1
    <3>3. Append(column, s)[Len(column) + 1] = s
      BY <1>1
    <3> QED
      BY <1>1, <1>3, <3>1, <3>2, <3>3
  <2>3. \A i \in 1..Len(column) : column[i] <= s
    <3>1. CASE column = <<>>
      BY <3>1
    <3>2. CASE column # <<>>
      <4>1. Len(column) \in 1..Len(column)
        BY <1>1, <3>2
      <4>2. column[Len(column)] <= s
        BY <1>3, <3>2 DEF Last
      <4>3. \A i \in 1..Len(column) : column[i] <= column[Len(column)]
        BY <1>1, <4>1 DEF Sorted
      <4> QED
        BY <2>2, <4>1, <4>2, <4>3
    <3> QED
      BY <3>1, <3>2
  <2>4. ASSUME NEW i \in 1..Len(column'), NEW j \in 1..Len(column'), i <= j
        PROVE  column'[i] <= column'[j]
    <3>1. CASE j \in 1..Len(column)
      <4>1. i \in 1..Len(column)
        BY <2>1, <2>4, <3>1
      <4> QED
        BY <1>1, <2>2, <2>4, <3>1, <4>1 DEF Sorted
    <3>2. CASE j = Len(column) + 1
      <4>1. i \in 1..Len(column) \/ i = Len(column) + 1
        BY <2>1, <2>4
      <4> QED
        BY <2>2, <2>3, <3>2, <4>1
    <3> QED
      BY <2>1, <2>4, <3>1, <3>2
  <2> QED
    BY <2>1, <2>4 DEF ColumnIInv, Sorted
<1> QED
  BY <1>2, <1>3 DEF ColumnNext, AddRow

\* The rows of a segment are always sorted.
THEOREM ColumnInvariant == ColumnSpec => []ColumnIInv
BY ColumnInitIInv, ColumnNextIInv, PTL DEF ColumnSpec

\* A column that has rows is one that the lemmas are about.
LEMMA ColumnHasRows == ColumnIInv /\ column # <<>> => Column(column)
BY DEF ColumnIInv, Column

\* What a lookup between two strings reads: from one row to another, or
\* nothing if the samples leave nothing between them.
LEMMA ReadIs ==
  ASSUME NEW from, NEW to, Column(column), from \in Nat, to \in Nat, from <= to
  PROVE  /\ Between(column, from, to)[2] >= 0
         /\ \A i \in 0..(Len(column) - 1) :
              i \in ReadIn(from, to) <=>
                /\ StartOf(column, from) < EndOf(column, to)
                /\ FromOf(column, from) <= i /\ i < ToOf(column, to)
         /\ ReadIn(from, to) \in SUBSET (0..(Len(column) - 1))
<1> DEFINE first == FromOf(column, from)
           last  == ToOf(column, to)
           start == StartOf(column, from)
           end   == EndOf(column, to)
<1>1. Len(column) \in Nat \ {0}
  BY RowsAre
<1>2. first \in 0..Len(column) /\ start \in 0..(Len(column) - 1)
  <2>1. start \in 0..(Len(column) - 1)
    BY StartIs DEF Samples
  <2>2. first \in start..Len(column)
    BY FromIs
  <2> HIDE DEF first, start
  <2> QED
    BY <1>1, <2>1, <2>2
<1>3. end \in 0..Len(column)
  BY EndIs
<1>4. last \in 0..Len(column)
  <2>1. last \in BackOf(end)..Len(column) /\ BackOf(end) \in Nat
    BY <1>3, BackIs, ToIs
  <2> HIDE DEF last, end
  <2> QED
    BY <1>1, <2>1
<1>5. first <= last
  BY NothingMissed
<1>6. Between(column, from, to) = IF end <= start THEN <<0, 0>> ELSE <<first, last - first>>
  BY BetweenParts
<1> HIDE DEF first, last, start, end
<1>7. CASE end <= start
  <2>1. Between(column, from, to) = <<0, 0>>
    BY <1>6, <1>7
  <2>2. ReadIn(from, to) = {} /\ Between(column, from, to)[2] >= 0
    BY <2>1 DEF ReadIn, Covered
  <2> QED
    BY <1>2, <1>3, <1>7, <2>2 DEF first, last, start, end
<1>8. CASE start < end
  <2>1. Between(column, from, to) = <<first, last - first>>
    BY <1>2, <1>3, <1>6, <1>8
  <2>2. ReadIn(from, to) = first..(last - 1) /\ Between(column, from, to)[2] >= 0
    BY <1>2, <1>4, <1>5, <2>1 DEF ReadIn, Covered
  <2>3. \A i \in 0..(Len(column) - 1) : i \in ReadIn(from, to) <=> first <= i /\ i < last
    BY <1>1, <1>2, <1>4, <2>2
  <2>4. ReadIn(from, to) \in SUBSET (0..(Len(column) - 1))
    BY <1>1, <1>2, <1>4, <2>2
  <2> QED
    BY <1>8, <2>2, <2>3, <2>4 DEF first, last, start, end
<1> QED
  BY <1>2, <1>3, <1>7, <1>8

\* The rows between two strings.
LEMMA RangeIs ==
  ASSUME NEW from, NEW to, Column(column)
  PROVE  /\ RangeOf(from, to) \in SUBSET (0..(Len(column) - 1))
         /\ \A i \in 0..(Len(column) - 1) :
              i \in RangeOf(from, to) <=> from <= RowAt(column, i) /\ RowAt(column, i) <= to
BY RowsAre DEF RangeOf, RowsWith

\* Reading the rows between two strings (get_lookup_interval_offsets_range and
\* the slice it is for) misses none, for any number of rows and of samples.
THEOREM BetweenCorrect == ColumnSpec => []BetweenComplete
<1>1. ColumnIInv => BetweenComplete
  <2> SUFFICES ASSUME ColumnIInv, NEW from \in Strings, NEW to \in Strings, from <= to, column # <<>>
               PROVE  RangeOf(from, to) \subseteq ReadIn(from, to) /\ Between(column, from, to)[2] >= 0
    BY DEF BetweenComplete
  <2>1. Column(column) /\ from \in Nat /\ to \in Nat
    BY ColumnHasRows, StringsAssumption
  <2>2. ASSUME NEW i \in RangeOf(from, to)
        PROVE  i \in ReadIn(from, to)
    <3>1. i \in 0..(Len(column) - 1) /\ from <= RowAt(column, i) /\ RowAt(column, i) <= to
      BY <2>1, <2>2, RangeIs
    <3>2. /\ StartOf(column, from) < EndOf(column, to)
          /\ FromOf(column, from) <= i /\ i < ToOf(column, to)
      BY <2>1, <3>1, NothingMissed
    <3> QED
      BY <2>1, <3>1, <3>2, ReadIs
  <2> QED
    BY <2>1, <2>2, ReadIs
<1> QED
  BY <1>1, ColumnInvariant, PTL

\* And it reads no other row, unless a string has more rows than a step.
THEOREM BetweenExactCorrect == ColumnSpec => []BetweenExactIfFew
<1>1. ColumnIInv => BetweenExactIfFew
  <2> SUFFICES ASSUME ColumnIInv,
                      \A s \in Strings : Cardinality(RowsWith({s})) <= OffsetStep,
                      NEW from \in Strings, NEW to \in Strings, from <= to, column # <<>>
               PROVE  ReadIn(from, to) = RangeOf(from, to)
    BY DEF BetweenExactIfFew
  <2>1. Column(column) /\ from \in Nat /\ to \in Nat
    BY ColumnHasRows, StringsAssumption
  <2>2. \A s \in Strings : Cardinality({i \in 0..(Len(column) - 1) : RowAt(column, i) \in {s}}) <= OffsetStep
    BY DEF RowsWith
  <2>3. ASSUME NEW i \in ReadIn(from, to)
        PROVE  i \in RangeOf(from, to)
    <3>1. i \in 0..(Len(column) - 1)
      BY <2>1, <2>3, ReadIs
    <3>2. FromOf(column, from) <= i /\ i < ToOf(column, to)
      BY <2>1, <2>3, <3>1, ReadIs
    <3>3. from <= RowAt(column, i)
      BY <2>1, <2>2, <3>1, <3>2, FromExact
    <3>4. RowAt(column, i) <= to
      BY <2>1, <3>1, <3>2, ToExact
    <3> QED
      BY <2>1, <3>1, <3>3, <3>4, RangeIs
  <2>4. ASSUME NEW i \in RangeOf(from, to)
        PROVE  i \in ReadIn(from, to)
    <3>1. i \in 0..(Len(column) - 1) /\ from <= RowAt(column, i) /\ RowAt(column, i) <= to
      BY <2>1, <2>4, RangeIs
    <3>2. /\ StartOf(column, from) < EndOf(column, to)
          /\ FromOf(column, from) <= i /\ i < ToOf(column, to)
      BY <2>1, <3>1, NothingMissed
    <3> QED
      BY <2>1, <3>1, <3>2, ReadIs
  <2> QED
    BY <2>3, <2>4
<1> QED
  BY <1>1, ColumnInvariant, PTL

-----------------------------------------------------------------------------
(* Loops over lists.                                                       *)

\* Each value is made from the one before it.
Steps(V, v0, step, f) ==
  /\ f \in [Nat -> V]
  /\ f[0] = v0
  /\ \A n \in Nat : f[n + 1] = step[<<n, f[n]>>]

\* Such a sequence of values exists (what a loop over a list computes).
LEMMA StepByStep ==
  ASSUME NEW V, NEW v0 \in V, NEW step \in [Nat \X V -> V]
  PROVE  \E f : Steps(V, v0, step, f)
<1> DEFINE Upto(n, g) == /\ g \in [0..n -> V]
                         /\ g[0] = v0
                         /\ \A k \in 0..(n - 1) : g[k + 1] = step[<<k, g[k]>>]
           Missing == {n \in Nat : ~ \E g : Upto(n, g)}
<1>1. \A n \in Nat : \E g : Upto(n, g)
  <2> SUFFICES ASSUME Missing # {} PROVE FALSE
    OBVIOUS
  <2>1. PICK m \in Missing : \A k \in Missing : m <= k
    <3>1. Missing \in SUBSET Nat
      OBVIOUS
    <3> HIDE DEF Missing
    <3> QED
      BY <3>1, LeastExists
  <2>2. m \in Nat /\ ~ \E g : Upto(m, g)
    BY <2>1
  <2>3. CASE m = 0
    <3>1. Upto(0, [k \in 0..0 |-> v0])
      OBVIOUS
    <3> QED
      BY <2>2, <2>3, <3>1
  <2>4. CASE m # 0
    <3>1. m - 1 \in Nat /\ m - 1 \notin Missing
      <4>1. m - 1 \in Nat /\ ~(m <= m - 1)
        BY <2>2, <2>4
      <4> QED
        BY <2>1, <4>1
    <3>2. PICK g : Upto(m - 1, g)
      BY <3>1
    <3> DEFINE h == [k \in 0..m |-> IF k = m THEN step[<<m - 1, g[m - 1]>>] ELSE g[k]]
    <3>3. g[m - 1] \in V /\ step[<<m - 1, g[m - 1]>>] \in V
      <4>1. m - 1 \in 0..(m - 1)
        BY <3>1
      <4>2. g[m - 1] \in V
        BY <3>2, <4>1
      <4> QED
        BY <3>1, <4>2
    <3>4. h \in [0..m -> V] /\ h[0] = v0
      <4>1. \A k \in 0..m : k # m => k \in 0..(m - 1)
        BY <2>2
      <4>2. 0 \in 0..m
        BY <2>2
      <4> QED
        BY <2>4, <3>2, <3>3, <4>1, <4>2
    <3>5. \A k \in 0..(m - 1) : h[k + 1] = step[<<k, h[k]>>]
      <4> TAKE k \in 0..(m - 1)
      <4>1. k \in 0..m /\ k + 1 \in 0..m /\ k # m
        BY <2>2
      <4>2. h[k] = g[k]
        BY <4>1
      <4>3. CASE k + 1 = m
        <5>1. k = m - 1
          BY <2>2, <4>3
        <5> QED
          BY <4>1, <4>2, <4>3, <5>1
      <4>4. CASE k + 1 # m
        <5>1. k \in 0..((m - 1) - 1)
          BY <2>2, <4>4
        <5>2. h[k + 1] = g[k + 1]
          BY <4>1, <4>4
        <5> QED
          BY <3>2, <4>2, <5>1, <5>2
      <4> QED
        BY <4>3, <4>4
    <3> HIDE DEF h
    <3>6. Upto(m, h)
      BY <3>4, <3>5
    <3> QED
      BY <2>2, <3>6
  <2> QED
    BY <2>3, <2>4
<1>2. ASSUME NEW n \in Nat, NEW g, Upto(n, g), NEW h, Upto(n + 1, h)
      PROVE  g[n] = h[n]
  <2> DEFINE Apart == {k \in 0..n : g[k] # h[k]}
  <2>1. CASE Apart = {}
    BY <2>1
  <2>2. CASE Apart # {}
    <3>1. PICK k \in Apart : \A j \in Apart : k <= j
      <4>1. Apart \in SUBSET Nat
        OBVIOUS
      <4> HIDE DEF Apart
      <4> QED
        BY <2>2, <4>1, LeastExists
    <3>2. k \in 0..n /\ g[k] # h[k] /\ k # 0
      BY <1>2, <3>1
    <3>3. k - 1 \in 0..n /\ k - 1 \in 0..(n - 1) /\ k - 1 \in 0..((n + 1) - 1) /\ (k - 1) + 1 = k /\ ~(k <= k - 1)
      BY <3>2
    <3>4. g[k - 1] = h[k - 1]
      BY <3>1, <3>3
    <3>5. g[k] = step[<<k - 1, g[k - 1]>>] /\ h[k] = step[<<k - 1, h[k - 1]>>]
      BY <1>2, <3>3
    <3> QED
      BY <3>2, <3>4, <3>5
  <2> QED
    BY <2>1, <2>2
<1> DEFINE pick(n) == CHOOSE g : Upto(n, g)
           f == [n \in Nat |-> pick(n)[n]]
<1>3. \A n \in Nat : Upto(n, pick(n))
  <2> HIDE DEF Upto
  <2> QED
    BY <1>1
<1>4. f \in [Nat -> V] /\ f[0] = v0
  <2>1. \A n \in Nat : pick(n)[n] \in V
    <3> TAKE n \in Nat
    <3>1. Upto(n, pick(n)) /\ n \in 0..n
      <4> HIDE DEF Upto, pick
      <4> QED
        BY <1>3
    <3> HIDE DEF pick
    <3> QED
      BY <3>1
  <2>2. pick(0)[0] = v0
    <3>1. Upto(0, pick(0))
      BY <1>3
    <3> HIDE DEF pick
    <3> QED
      BY <3>1
  <2> HIDE DEF pick
  <2> QED
    BY <2>1, <2>2
<1>5. \A n \in Nat : f[n + 1] = step[<<n, f[n]>>]
  <2> TAKE n \in Nat
  <2>1. Upto(n, pick(n)) /\ Upto(n + 1, pick(n + 1))
    <3> HIDE DEF Upto, pick
    <3> QED
      BY <1>3
  <2>2. pick(n)[n] = pick(n + 1)[n]
    <3> HIDE DEF pick, Upto
    <3> QED
      BY <1>2, <2>1
  <2>3. pick(n + 1)[n + 1] = step[<<n, pick(n + 1)[n]>>]
    <3>1. n \in 0..((n + 1) - 1)
      OBVIOUS
    <3> HIDE DEF pick
    <3> QED
      BY <2>1, <3>1
  <2>4. f[n] = pick(n)[n] /\ f[n + 1] = pick(n + 1)[n + 1]
    <3> HIDE DEF pick
    <3> QED
      OBVIOUS
  <2> HIDE DEF f, pick
  <2> QED
    BY <2>2, <2>3, <2>4
<1> HIDE DEF f
<1>6. Steps(V, v0, step, f)
  BY <1>4, <1>5 DEF Steps
<1> QED
  BY <1>6

-----------------------------------------------------------------------------
(* Looking up some strings.                                                *)

\* The strings of an idx are numbers.
LEMMA KeysAreNumbers ==
  ASSUME NEW col, Column(col)
  PROVE  DOMAIN CreateSparseIndex(col) \subseteq Nat
<1>1. \A i \in Samples(col) : RowAt(col, i) \in Nat
  BY RowsAre DEF Samples
<1>2. DOMAIN CreateSparseIndex(col) = {RowAt(col, i) : i \in Samples(col)}
  BY IndexIs
<1> QED
  BY <1>1, <1>2

\* A search starts at the first row, or at the first sample of a string below.
LEMMA StartFirst ==
  ASSUME NEW col, Column(col), NEW s \in Nat
  PROVE  \/ StartOf(col, s) = 0
         \/ /\ RowAt(col, StartOf(col, s)) < s
            /\ \A i \in Samples(col) : RowAt(col, i) = RowAt(col, StartOf(col, s)) => StartOf(col, s) <= i
<1> DEFINE idx == CreateSparseIndex(col)
           below == KeysBelow(idx, s)
           start == StartOf(col, s)
           k     == Max(below)
<1>1. CASE below = {}
  BY <1>1 DEF StartOf
<1>2. CASE below # {}
  <2>1. start = idx[k]
    BY <1>2 DEF StartOf
  <2>2. below \in SUBSET Nat /\ \A x \in below : x < s /\ x \in DOMAIN idx
    <3>1. DOMAIN idx \subseteq Nat
      BY KeysAreNumbers
    <3> QED
      BY <3>1 DEF KeysBelow
  <2>3. k \in below
    <3> HIDE DEF below
    <3>1. \A x \in below : x <= s
      BY <2>2
    <3>2. \E x \in below : \A y \in below : y <= x
      BY <1>2, <2>2, <3>1, GreatestExists
    <3>3. \E x \in below : \A y \in below : x >= y
      BY <2>2, <3>2
    <3> QED
      BY <3>3 DEF Max
  <2>4. k \in DOMAIN idx /\ k < s
    BY <2>2, <2>3
  <2> HIDE DEF start, k
  <2>5. RowAt(col, start) = k /\ \A i \in Samples(col) : RowAt(col, i) = k => start <= i
    BY <2>1, <2>4, IndexIs
  <2> QED
    BY <2>4, <2>5 DEF start
<1> QED
  BY <1>1, <1>2

\* A search ends at a sample or at the end of the column.
LEMMA EndSample ==
  ASSUME NEW col, Column(col), NEW s \in Nat
  PROVE  /\ EndOf(col, s) \in Samples(col) \/ EndOf(col, s) = Len(col)
         /\ KeysAbove(CreateSparseIndex(col), s) # {} => EndOf(col, s) \in Samples(col)
         /\ KeysAbove(CreateSparseIndex(col), s) = {} => EndOf(col, s) = Len(col)
<1> DEFINE idx == CreateSparseIndex(col)
           above == KeysAbove(idx, s)
<1>1. CASE above = {}
  BY <1>1 DEF EndOf
<1>2. CASE above # {}
  <2>1. above \in SUBSET Nat /\ above \subseteq DOMAIN idx
    <3>1. DOMAIN idx \subseteq Nat
      BY KeysAreNumbers
    <3> QED
      BY <3>1 DEF KeysAbove
  <2>2. Min(above) \in above
    <3> HIDE DEF above
    <3>1. \E x \in above : \A y \in above : x <= y
      BY <1>2, <2>1, LeastExists
    <3> QED
      BY <3>1 DEF Min
  <2>3. EndOf(col, s) = idx[Min(above)]
    BY <1>2 DEF EndOf
  <2> QED
    BY <1>2, <2>1, <2>2, <2>3, IndexIs
<1> QED
  BY <1>1, <1>2

\* The interval of a string is made of where a search for it starts and ends.
LEMMA IntervalIs ==
  ASSUME NEW col, Column(col), NEW s \in Nat
  PROVE  LookupInterval(s, CreateSparseIndex(col), Len(col)) =
           <<StartOf(col, s), IF EndOf(col, s) = Len(col) THEN Len(col) ELSE EndOf(col, s) + 1>>
<1> DEFINE idx == CreateSparseIndex(col)
           below == KeysBelow(idx, s)
           above == KeysAbove(idx, s)
<1>1. Len(col) \in Nat \ {0} /\ Samples(col) \subseteq 0..(Len(col) - 1)
  BY RowsAre DEF Samples
<1>2. (IF below = {} THEN 0 ELSE Min({idx[Max(below)], Len(col)})) = StartOf(col, s)
  <2>1. CASE below = {}
    BY <2>1 DEF StartOf
  <2>2. CASE below # {}
    <3> DEFINE a == StartOf(col, s)
               L == Len(col)
    <3>1. a = idx[Max(below)]
      BY <2>2 DEF StartOf
    <3>2. a \in 0..(L - 1) /\ L \in Nat
      BY <1>1, StartIs
    <3>3. Min({a, L}) = a
      <4> HIDE DEF a, L
      <4>1. a \in {a, L} /\ \A y \in {a, L} : a <= y
        BY <3>2
      <4>2. \A x \in {a, L} : (\A y \in {a, L} : x <= y) => x = a
        BY <3>2
      <4> QED
        BY <4>1, <4>2 DEF Min
    <3> QED
      BY <2>2, <3>1, <3>3
  <2> QED
    BY <2>1, <2>2
<1>3. (IF above = {} THEN Len(col) ELSE idx[Min(above)] + 1)
        = IF EndOf(col, s) = Len(col) THEN Len(col) ELSE EndOf(col, s) + 1
  <2>1. CASE above = {}
    BY <2>1 DEF EndOf
  <2>2. CASE above # {}
    <3>1. EndOf(col, s) = idx[Min(above)]
      BY <2>2 DEF EndOf
    <3>2. EndOf(col, s) \in Samples(col)
      BY <2>2, EndSample
    <3> QED
      BY <1>1, <2>2, <3>1, <3>2
  <2> QED
    BY <2>1, <2>2
<1> QED
  BY <1>2, <1>3 DEF LookupInterval

\* The first row of the interval of a string, and the row after its last.
First(col, s) == LookupInterval(s, CreateSparseIndex(col), Len(col))[1]
After(col, s) == LookupInterval(s, CreateSparseIndex(col), Len(col))[2]

\* An interval has rows, all of the column, and every row of its string
\* (get_lookup_interval, whose panic on an interval that is out of order is
\* not reached).
LEMMA IntervalHolds ==
  ASSUME NEW col, Column(col), NEW s \in Nat
  PROVE  /\ LookupInterval(s, CreateSparseIndex(col), Len(col)) = <<First(col, s), After(col, s)>>
         /\ First(col, s) \in Nat /\ After(col, s) \in Nat
         /\ First(col, s) < After(col, s) /\ After(col, s) <= Len(col)
         /\ \A i \in 0..(Len(col) - 1) : RowAt(col, i) = s => First(col, s) <= i /\ i < After(col, s)
<1> DEFINE a == StartOf(col, s)
           e == EndOf(col, s)
<1>1. /\ First(col, s) = a
      /\ After(col, s) = IF e = Len(col) THEN Len(col) ELSE e + 1
      /\ LookupInterval(s, CreateSparseIndex(col), Len(col)) = <<First(col, s), After(col, s)>>
  BY IntervalIs DEF First, After
<1>2. /\ Len(col) \in Nat \ {0}
      /\ \A i \in 0..(Len(col) - 1) : RowAt(col, i) \in Nat
      /\ \A i, j \in 0..(Len(col) - 1) : i <= j => RowAt(col, i) <= RowAt(col, j)
      /\ Samples(col) \subseteq 0..(Len(col) - 1)
  BY RowsAre DEF Samples
<1>3. a \in 0..(Len(col) - 1) /\ \A i \in 0..(a - 1) : RowAt(col, i) < s
  BY <1>2, StartIs
<1>4. e \in 0..Len(col) /\ \A i \in 0..(Len(col) - 1) : e <= i => s < RowAt(col, i)
  BY EndIs
<1>5. a = 0 \/ RowAt(col, a) < s
  BY StartFirst
<1> HIDE DEF a, e
<1>6. a <= e
  <2> SUFFICES ASSUME e < a PROVE FALSE
    BY <1>2, <1>3, <1>4
  <2>1. a # 0 /\ s < RowAt(col, a)
    BY <1>3, <1>4
  <2> QED
    BY <1>2, <1>3, <1>5, <2>1
<1>7. ASSUME NEW i \in 0..(Len(col) - 1), RowAt(col, i) = s
      PROVE  a <= i /\ i < e
  <2>1. ~(i < a)
    BY <1>2, <1>3, <1>7
  <2>2. ~(e <= i)
    BY <1>2, <1>4, <1>7
  <2> QED
    BY <1>2, <1>3, <1>4, <2>1, <2>2
<1>8. e + 1 <= Len(col) \/ e = Len(col)
  BY <1>2, <1>4
<1> QED
  BY <1>1, <1>2, <1>3, <1>4, <1>6, <1>7, <1>8

\* The intervals of greater strings start and end no earlier.
LEMMA IntervalsOrdered ==
  ASSUME NEW col, Column(col), NEW s \in Nat, NEW t \in Nat, s <= t
  PROVE  First(col, s) <= First(col, t) /\ After(col, s) <= After(col, t)
<1>1. /\ First(col, s) = StartOf(col, s) /\ First(col, t) = StartOf(col, t)
      /\ After(col, s) = IF EndOf(col, s) = Len(col) THEN Len(col) ELSE EndOf(col, s) + 1
      /\ After(col, t) = IF EndOf(col, t) = Len(col) THEN Len(col) ELSE EndOf(col, t) + 1
  BY IntervalIs DEF First, After
<1>2. /\ Len(col) \in Nat \ {0}
      /\ \A i \in 0..(Len(col) - 1) : RowAt(col, i) \in Nat
      /\ Samples(col) \subseteq 0..(Len(col) - 1)
  BY RowsAre DEF Samples
<1>3. StartOf(col, s) \in Samples(col) /\ StartOf(col, t) \in Samples(col)
  BY StartIs
<1>4. StartOf(col, s) <= StartOf(col, t)
  <2> DEFINE a == StartOf(col, s)
             b == StartOf(col, t)
  <2>1. a \in 0..(Len(col) - 1) /\ b \in 0..(Len(col) - 1)
    BY <1>2, <1>3
  <2>2. \A i \in Samples(col) : (b <= i /\ RowAt(col, i) < t) => RowAt(col, i) = RowAt(col, b)
    BY StartIs
  <2>3. \/ a = 0
        \/ RowAt(col, a) < s /\ \A i \in Samples(col) : RowAt(col, i) = RowAt(col, a) => a <= i
    BY StartFirst
  <2>4. a \in Samples(col) /\ b \in Samples(col)
    BY <1>3
  <2> HIDE DEF a, b
  <2>5. ASSUME b < a PROVE FALSE
    <3>1. RowAt(col, a) < s /\ \A i \in Samples(col) : RowAt(col, i) = RowAt(col, a) => a <= i
      BY <2>1, <2>3, <2>5
    <3>2. RowAt(col, a) < t
      BY <1>2, <2>1, <3>1
    <3>3. RowAt(col, a) = RowAt(col, b)
      BY <2>1, <2>2, <2>4, <2>5, <3>2
    <3> QED
      BY <2>1, <2>4, <2>5, <3>1, <3>3
  <2> QED
    BY <2>1, <2>5 DEF a, b
<1>5. EndOf(col, s) <= EndOf(col, t)
  <2>1. EndOf(col, s) \in 0..Len(col) /\ EndOf(col, t) \in 0..Len(col)
    BY EndIs
  <2>2. CASE EndOf(col, t) = Len(col)
    BY <1>2, <2>1, <2>2
  <2>3. CASE EndOf(col, t) \in Samples(col)
    <3> DEFINE e == EndOf(col, t)
    <3>1. e \in 0..(Len(col) - 1)
      BY <1>2, <2>3
    <3>2. t < RowAt(col, e)
      <4>1. e <= e
        BY <3>1
      <4> HIDE DEF e
      <4>2. \A i \in 0..(Len(col) - 1) : e <= i => t < RowAt(col, i)
        BY EndIs DEF e
      <4> QED
        BY <3>1, <4>1, <4>2
    <3>3. s < RowAt(col, e)
      BY <1>2, <3>1, <3>2
    <3> QED
      BY <2>3, <3>3, EndIs
  <2> QED
    BY <2>2, <2>3, EndSample
<1>6. EndOf(col, s) \in 0..Len(col) /\ EndOf(col, t) \in 0..Len(col)
  BY EndIs
<1> QED
  BY <1>1, <1>2, <1>4, <1>5, <1>6

-----------------------------------------------------------------------------
(* Merging the intervals of a lookup.                                      *)

\* Intervals, as a first row and the row after the last.
Interval == Nat \X Nat

\* Adding an interval to a list of intervals: the last one of the list is made
\* longer, or one is put behind it.
LEMMA WithIntervalIs ==
  ASSUME NEW done \in Seq(Interval), NEW iv \in Interval
  PROVE  /\ WithInterval(done, iv) \in Seq(Interval)
         /\ \A i \in 1..(Len(done) - 1) : WithInterval(done, iv)[i] = done[i]
         /\ (done # <<>> /\ iv[1] <= done[Len(done)][2]) =>
              /\ Len(WithInterval(done, iv)) = Len(done)
              /\ WithInterval(done, iv)[Len(done)] = <<done[Len(done)][1], iv[2]>>
         /\ ~(done # <<>> /\ iv[1] <= done[Len(done)][2]) =>
              /\ Len(WithInterval(done, iv)) = Len(done) + 1
              /\ \A i \in 1..Len(done) : WithInterval(done, iv)[i] = done[i]
              /\ WithInterval(done, iv)[Len(done) + 1] = iv
<1>1. CASE done # <<>> /\ iv[1] <= done[Len(done)][2]
  <2> DEFINE L == Len(done)
             new == <<done[L][1], iv[2]>>
             fr == Front(done)
  <2>1. L \in Nat \ {0} /\ L \in 1..L
    BY <1>1
  <2>2. done[L] \in Interval /\ new \in Interval
    BY <2>1 DEF Interval
  <2>3. WithInterval(done, iv) = Append(fr, new)
    BY <1>1 DEF WithInterval, Last
  <2>4. fr \in Seq(Interval) /\ Len(fr) = L - 1 /\ \A i \in 1..(L - 1) : fr[i] = done[i]
    <3>1. \A i \in 1..(L - 1) : done[i] \in Interval
      BY <2>1
    <3>2. fr = SubSeq(done, 1, L - 1)
      BY DEF Front
    <3>3. /\ SubSeq(done, 1, L - 1) \in Seq(Interval)
          /\ Len(SubSeq(done, 1, L - 1)) = IF 1 <= L - 1 THEN (L - 1) - 1 + 1 ELSE 0
          /\ \A i \in 1..((L - 1) - 1 + 1) : SubSeq(done, 1, L - 1)[i] = done[1 + i - 1]
      <4> DEFINE m == L - 1
      <4>1. m \in Int /\ \A i \in 1..m : done[i] \in Interval
        BY <2>1, <3>1
      <4> HIDE DEF m
      <4>2. /\ SubSeq(done, 1, m) \in Seq(Interval)
            /\ Len(SubSeq(done, 1, m)) = IF 1 <= m THEN m - 1 + 1 ELSE 0
            /\ \A i \in 1..(m - 1 + 1) : SubSeq(done, 1, m)[i] = done[1 + i - 1]
        BY <4>1, SubSeqProperties
      <4> QED
        BY <4>2 DEF m
    <3>4. L - 1 \in Nat /\ ((L - 1) - 1 + 1 = L - 1) /\ (IF 1 <= L - 1 THEN (L - 1) - 1 + 1 ELSE 0) = L - 1
      <4> HIDE DEF fr, L, new
      <4>1. L - 1 \in Nat /\ ((L - 1) - 1 + 1 = L - 1)
        BY <2>1
      <4>2. CASE 1 <= L - 1
        BY <4>1, <4>2
      <4>3. CASE ~(1 <= L - 1)
        BY <2>1, <4>1, <4>3
      <4> QED
        BY <4>1, <4>2, <4>3
    <3>5. \A i \in 1..(L - 1) : 1 + i - 1 = i
      BY <2>1
    <3> HIDE DEF fr, L
    <3> QED
      BY <3>2, <3>3, <3>4, <3>5
  <2> HIDE DEF new, fr
  <2>5. /\ Append(fr, new) \in Seq(Interval)
        /\ Len(Append(fr, new)) = L
        /\ \A i \in 1..(L - 1) : Append(fr, new)[i] = done[i]
        /\ Append(fr, new)[L] = new
    BY <2>1, <2>2, <2>4
  <2> QED
    BY <1>1, <2>3, <2>5 DEF new
<1>2. CASE ~(done # <<>> /\ iv[1] <= done[Len(done)][2])
  <2>1. WithInterval(done, iv) = Append(done, iv)
    BY <1>2 DEF WithInterval, Last
  <2> QED
    BY <1>2, <2>1
<1> QED
  BY <1>1, <1>2

\* The loop over the intervals, interval by interval.
LEMMA MergedIs ==
  ASSUME NEW ivs \in Seq(Interval)
  PROVE  \E upTo \in [0..Len(ivs) -> Seq(Interval)] :
           /\ upTo[0] = <<>>
           /\ \A n \in 1..Len(ivs) : upTo[n] = WithInterval(upTo[n - 1], ivs[n])
           /\ Merged(ivs) = upTo[Len(ivs)]
<1> DEFINE L    == Len(ivs)
           V    == Seq(Interval)
           body(u) == [n \in 0..L |-> IF n = 0 THEN <<>> ELSE WithInterval(u[n - 1], ivs[n])]
           new(x) == IF x[1] + 1 \in 1..L THEN WithInterval(x[2], ivs[x[1] + 1]) ELSE x[2]
           step == [x \in Nat \X V |-> new(x)]
<1>1. L \in Nat /\ \A n \in 1..L : ivs[n] \in Interval
  OBVIOUS
<1>2. step \in [Nat \X V -> V]
  <2>1. ASSUME NEW x \in Nat \X V
        PROVE  new(x) \in V
    <3>1. x[1] \in Nat /\ x[2] \in Seq(Interval)
      OBVIOUS
    <3>2. CASE x[1] + 1 \in 1..L
      BY <1>1, <3>1, <3>2, WithIntervalIs
    <3> QED
      BY <3>1, <3>2
  <2> HIDE DEF new, V
  <2> QED
    BY <2>1
<1>3. <<>> \in V
  OBVIOUS
<1> HIDE DEF step
<1>4. PICK f : Steps(V, <<>>, step, f)
  <2> DEFINE none == <<>>
  <2>1. none \in V
    BY <1>3
  <2> HIDE DEF V, none
  <2>2. \E f : Steps(V, none, step, f)
    BY <1>2, <2>1, StepByStep
  <2> QED
    BY <2>2 DEF none
<1>5. f \in [Nat -> V] /\ f[0] = <<>> /\ \A n \in Nat : f[n + 1] = step[<<n, f[n]>>]
  BY <1>4 DEF Steps
<1> DEFINE up == [n \in 0..L |-> f[n]]
<1>6. up \in [0..L -> V] /\ up[0] = <<>>
  <2> HIDE DEF V
  <2> QED
    BY <1>1, <1>5
<1>7. ASSUME NEW n \in 1..L
      PROVE  up[n] = WithInterval(up[n - 1], ivs[n])
  <2>1. n - 1 \in Nat /\ n - 1 \in 0..L /\ (n - 1) + 1 = n /\ n \in 0..L
    BY <1>1
  <2>2. f[(n - 1) + 1] = step[<<n - 1, f[n - 1]>>] /\ f[n - 1] \in V
    BY <1>5, <2>1
  <2>3. <<n - 1, f[n - 1]>> \in Nat \X V
    BY <2>1, <2>2
  <2>4. step[<<n - 1, f[n - 1]>>] = new(<<n - 1, f[n - 1]>>)
    <3> HIDE DEF new, V
    <3> QED
      BY <2>3 DEF step
  <2>5. new(<<n - 1, f[n - 1]>>) = WithInterval(f[n - 1], ivs[n])
    BY <2>1
  <2> HIDE DEF new, V
  <2> QED
    BY <2>1, <2>2, <2>4, <2>5
<1> HIDE DEF up
<1>8. up = body(up)
  <2>1. \A n \in 0..L : n # 0 => n \in 1..L
    BY <1>1
  <2>2. \A n \in 0..L : up[n] = IF n = 0 THEN <<>> ELSE WithInterval(up[n - 1], ivs[n])
    BY <1>6, <1>7, <2>1
  <2> HIDE DEF V
  <2> QED
    BY <1>6, <2>2
<1> DEFINE upTo == CHOOSE u : u = body(u)
<1>9. upTo = body(upTo)
  <2> HIDE DEF body
  <2> QED
    BY <1>8
<1>10. Merged(ivs) = upTo[L]
  BY DEF Merged
<1>11. \A n \in 0..L : upTo[n] = IF n = 0 THEN <<>> ELSE WithInterval(upTo[n - 1], ivs[n])
  <2> HIDE DEF upTo
  <2> QED
    BY <1>9
<1> HIDE DEF upTo
<1>12. \A n \in 0..L : upTo[n] \in V
  <2> DEFINE Bad == {n \in 0..L : upTo[n] \notin V}
  <2> SUFFICES ASSUME Bad # {} PROVE FALSE
    OBVIOUS
  <2>1. PICK n \in Bad : \A k \in Bad : n <= k
    <3>1. Bad \in SUBSET Nat
      OBVIOUS
    <3> HIDE DEF Bad
    <3> QED
      BY <3>1, LeastExists
  <2>2. n \in 0..L /\ upTo[n] \notin V
    BY <2>1
  <2>3. n # 0
    BY <1>3, <1>11, <2>2
  <2>4. n - 1 \in 0..L /\ ~(n <= n - 1) /\ n \in 1..L
    BY <2>2, <2>3
  <2>5. upTo[n - 1] \in V
    <3>1. n - 1 \notin Bad
      BY <2>1, <2>4
    <3> QED
      BY <2>4, <3>1
  <2>6. upTo[n] = WithInterval(upTo[n - 1], ivs[n])
    BY <1>11, <2>2, <2>3
  <2>7. WithInterval(upTo[n - 1], ivs[n]) \in V
    BY <1>1, <2>4, <2>5, WithIntervalIs
  <2> QED
    BY <2>2, <2>6, <2>7
<1>13. upTo \in [0..L -> V]
  <2>1. upTo = [n \in 0..L |-> upTo[n]]
    BY <1>9
  <2> HIDE DEF V
  <2> QED
    BY <2>1, <1>12
<1>14. upTo[0] = <<>> /\ \A n \in 1..L : upTo[n] = WithInterval(upTo[n - 1], ivs[n])
  <2>1. \A n \in 1..L : n \in 0..L /\ n # 0
    OBVIOUS
  <2> QED
    BY <1>1, <1>11, <2>1
<1> QED
  BY <1>10, <1>13, <1>14

\* A one-to-one map of a finite set into the numbers below its size reaches
\* each of them.
LEMMA CountedOff ==
  ASSUME NEW S, IsFiniteSet(S),
         NEW f \in [S -> 0..(Cardinality(S) - 1)],
         \A s, t \in S : f[s] = f[t] => s = t
  PROVE  \A k \in 0..(Cardinality(S) - 1) : \E s \in S : f[s] = k
<1> DEFINE R == {f[s] : s \in S}
           I == 0..(Cardinality(S) - 1)
<1>1. Cardinality(S) \in Nat
  BY FS_CardinalityType
<1>2. IsFiniteSet(I) /\ Cardinality(I) = Cardinality(S)
  BY <1>1, FS_Interval
<1>3. R \in SUBSET I
  OBVIOUS
<1>4. f \in Bijection(S, R)
  <2>1. f \in [S -> R]
    OBVIOUS
  <2>2. IsInjective(f)
    BY DEF IsInjective
  <2>3. \A t \in R : \E s \in S : f[s] = t
    OBVIOUS
  <2> HIDE DEF R
  <2> QED
    BY <2>1, <2>2, <2>3 DEF Bijection, Injection, Surjection
<1>5. Cardinality(R) = Cardinality(S)
  <2> HIDE DEF R
  <2>1. ExistsBijection(S, R)
    BY <1>4 DEF ExistsBijection
  <2> QED
    BY <2>1, FS_Bijection
<1>6. R = I
  <2> HIDE DEF R, I
  <2> QED
    BY <1>2, <1>3, <1>5, FS_Subset
<1> QED
  BY <1>6

\* A relation that orders a set.
Orders(before, S) ==
  /\ \A s \in S : <<s, s>> \notin before
  /\ \A r, s, t \in S : <<r, s>> \in before /\ <<s, t>> \in before => <<r, t>> \in before
  /\ \A s, t \in S : s = t \/ <<s, t>> \in before \/ <<t, s>> \in before

\* A finite set put in an order has each member at one position, after those
\* that come before it.
LEMMA OrderedByIs ==
  ASSUME NEW S, IsFiniteSet(S), NEW before, Orders(before, S)
  PROVE  /\ Cardinality(S) \in Nat
         /\ OrderedBy(S, before) \in [1..Cardinality(S) -> S]
         /\ \A j, k \in 1..Cardinality(S) : j < k => <<OrderedBy(S, before)[j], OrderedBy(S, before)[k]>> \in before
         /\ \A s \in S : \E k \in 1..Cardinality(S) : OrderedBy(S, before)[k] = s
<1> DEFINE Below(s) == {r \in S : <<r, s>> \in before}
           n == Cardinality(S)
           seq == OrderedBy(S, before)
           f == [s \in S |-> Cardinality(Below(s))]
<1>1. n \in Nat
  BY FS_CardinalityType
<1>2. ASSUME NEW s \in S
      PROVE  IsFiniteSet(Below(s)) /\ Cardinality(Below(s)) \in 0..(n - 1)
  <2>1. Below(s) \in SUBSET S /\ s \notin Below(s)
    BY DEF Orders
  <2> HIDE DEF Below, n
  <2>2. IsFiniteSet(Below(s)) /\ Cardinality(Below(s)) <= Cardinality(S) /\ Cardinality(Below(s)) \in Nat
    BY <2>1, FS_Subset, FS_CardinalityType
  <2>3. Cardinality(Below(s)) # Cardinality(S)
    BY <2>1, FS_Subset
  <2> QED
    BY <1>1, <2>2, <2>3 DEF n
<1>3. ASSUME NEW s \in S, NEW t \in S, <<s, t>> \in before
      PROVE  f[s] < f[t]
  <2>1. Below(s) \in SUBSET Below(t) /\ s \in Below(t) /\ s \notin Below(s)
    BY <1>3 DEF Orders
  <2>2. IsFiniteSet(Below(t)) /\ IsFiniteSet(Below(s))
    BY <1>2
  <2> HIDE DEF Below
  <2>3. Cardinality(Below(s)) <= Cardinality(Below(t)) /\ Cardinality(Below(s)) # Cardinality(Below(t))
    BY <2>1, <2>2, FS_Subset
  <2>4. Cardinality(Below(s)) \in Nat /\ Cardinality(Below(t)) \in Nat
    BY <2>2, FS_CardinalityType
  <2> QED
    BY <2>3, <2>4
<1>4. f \in [S -> 0..(n - 1)]
  <2> HIDE DEF Below, n
  <2> QED
    BY <1>2
<1> HIDE DEF f
<1>5. \A s, t \in S : f[s] = f[t] => s = t
  <2> TAKE s, t \in S
  <2>1. f[s] \in Int /\ f[t] \in Int
    BY <1>1, <1>4
  <2>2. <<s, t>> \in before \/ <<t, s>> \in before \/ s = t
    BY DEF Orders
  <2> QED
    BY <1>3, <2>1, <2>2
<1>6. \A k \in 0..(n - 1) : \E s \in S : f[s] = k
  BY <1>4, <1>5, CountedOff
<1>7. ASSUME NEW k \in 1..n
      PROVE  seq[k] \in S /\ f[seq[k]] = k - 1
  <2>1. k - 1 \in 0..(n - 1)
    BY <1>1
  <2>2. PICK s \in S : f[s] = k - 1
    BY <1>6, <2>1
  <2>3. seq[k] = CHOOSE t \in S : Cardinality(Below(t)) = k - 1
    BY DEF OrderedBy
  <2>4. \A t \in S : f[t] = Cardinality(Below(t))
    BY DEF f
  <2> HIDE DEF Below, seq
  <2>5. (CHOOSE t \in S : Cardinality(Below(t)) = k - 1) \in S
        /\ Cardinality(Below(CHOOSE t \in S : Cardinality(Below(t)) = k - 1)) = k - 1
    BY <2>2, <2>4
  <2> QED
    BY <2>3, <2>4, <2>5
<1>8. ASSUME NEW j \in 1..n, NEW k \in 1..n, j < k
      PROVE  <<seq[j], seq[k]>> \in before
  <2> DEFINE a == seq[j]
             b == seq[k]
  <2>1. a \in S /\ b \in S /\ f[a] = j - 1 /\ f[b] = k - 1
    BY <1>7
  <2> HIDE DEF a, b
  <2>2. a # b
    BY <1>1, <1>8, <2>1
  <2>3. <<b, a>> \notin before
    <3> SUFFICES ASSUME <<b, a>> \in before PROVE FALSE
      OBVIOUS
    <3>1. f[b] < f[a]
      BY <1>3, <2>1
    <3> QED
      BY <1>1, <1>8, <2>1, <3>1
  <2>4. <<a, b>> \in before
    BY <2>1, <2>2, <2>3 DEF Orders
  <2> QED
    BY <2>4 DEF a, b
<1>9. ASSUME NEW s \in S
      PROVE  \E k \in 1..n : seq[k] = s
  <2>1. f[s] \in 0..(n - 1)
    BY <1>4
  <2> DEFINE k == f[s] + 1
  <2>2. k \in 1..n /\ k - 1 = f[s]
    BY <1>1, <2>1
  <2> HIDE DEF k, seq
  <2>3. seq[k] \in S /\ f[seq[k]] = f[s]
    BY <1>7, <2>2
  <2> QED
    BY <1>5, <2>2, <2>3
<1>10. seq \in [1..n -> S]
  <2> DEFINE at(k) == CHOOSE s \in S : Cardinality({r \in S : <<r, s>> \in before}) = k - 1
  <2>1. seq = [k \in 1..n |-> at(k)]
    BY DEF OrderedBy
  <2> HIDE DEF seq, n, at
  <2> QED
    BY <1>7, <2>1
<1> QED
  BY <1>1, <1>8, <1>9, <1>10

\* The order of a finite set of numbers has each of them at a position, the
\* lesser before the greater.
LEMMA AscendingIs ==
  ASSUME NEW S \in SUBSET Nat, IsFiniteSet(S)
  PROVE  /\ Cardinality(S) \in Nat
         /\ \A k \in 1..Cardinality(S) : Ascending(S)[k] \in S
         /\ \A j, k \in 1..Cardinality(S) : j < k => Ascending(S)[j] < Ascending(S)[k]
         /\ \A j, k \in 1..Cardinality(S) : j <= k => Ascending(S)[j] <= Ascending(S)[k]
         /\ \A s \in S : \E k \in 1..Cardinality(S) : Ascending(S)[k] = s
         /\ DOMAIN Ascending(S) = 1..Cardinality(S)
<1> DEFINE before == {m \in S \X S : m[1] < m[2]}
           n == Cardinality(S)
           seq == OrderedBy(S, before)
<1>1. \A s, t \in S : <<s, t>> \in before <=> s < t
  OBVIOUS
<1> HIDE DEF before
<1>2. \A s \in S : s \in Nat
  OBVIOUS
<1>3. Orders(before, S)
  BY <1>1, <1>2 DEF Orders
<1>4. /\ n \in Nat
      /\ seq \in [1..n -> S]
      /\ \A j, k \in 1..n : j < k => <<seq[j], seq[k]>> \in before
      /\ \A s \in S : \E k \in 1..n : seq[k] = s
  BY <1>3, OrderedByIs
<1>5. Ascending(S) = seq
  BY DEF Ascending, before
<1> HIDE DEF seq, n
<1>6. \A j, k \in 1..n : j < k => seq[j] < seq[k]
  BY <1>1, <1>4
<1>7. \A j, k \in 1..n : j <= k => seq[j] <= seq[k]
  <2> TAKE j, k \in 1..n
  <2>1. seq[j] \in Nat /\ seq[k] \in Nat
    BY <1>2, <1>4
  <2>2. CASE j = k
    BY <2>1, <2>2
  <2>3. CASE j < k
    BY <1>6, <2>1, <2>3
  <2> QED
    BY <1>4, <2>2, <2>3
<1> QED
  BY <1>4, <1>5, <1>6, <1>7 DEF n

-----------------------------------------------------------------------------

\* A list of intervals that start before they end, one behind the other.
Apart(done) ==
  /\ done \in Seq(Interval)
  /\ \A i \in 1..Len(done) : done[i][1] < done[i][2]
  /\ \A i, j \in 1..Len(done) : i < j => done[i][2] < done[j][1]

\* An interval lies within one of a list.
Within(iv, done) == \E i \in 1..Len(done) : done[i][1] <= iv[1] /\ iv[2] <= done[i][2]

\* A list stays apart with an interval more that ends no earlier than the last
\* one, holds what it held and the new one, and ends where the new one ends.
LEMMA WithIntervalKeeps ==
  ASSUME NEW done, Apart(done), NEW iv \in Interval, iv[1] < iv[2],
         done # <<>> => done[Len(done)][1] <= iv[1] /\ done[Len(done)][2] <= iv[2]
  PROVE  LET more == WithInterval(done, iv)
         IN  /\ Apart(more)
             /\ more # <<>> /\ more[Len(more)][2] = iv[2] /\ more[Len(more)][1] <= iv[1]
             /\ Within(iv, more)
             /\ \A x \in Interval : Within(x, done) => Within(x, more)
<1> DEFINE L == Len(done)
           more == WithInterval(done, iv)
<1>1. done \in Seq(Interval) /\ L \in Nat /\ more \in Seq(Interval) /\ Len(more) \in Nat
  <2>1. done \in Seq(Interval)
    BY DEF Apart
  <2>2. more \in Seq(Interval)
    BY <2>1, WithIntervalIs
  <2> HIDE DEF more
  <2> QED
    BY <2>1, <2>2
<1>2. \A i \in 1..L : done[i] \in Interval /\ done[i][1] \in Nat /\ done[i][2] \in Nat
  <2>1. \A i \in 1..L : done[i] \in Interval
    BY <1>1
  <2> QED
    BY <2>1 DEF Interval
<1>3. iv[1] \in Nat /\ iv[2] \in Nat
  BY DEF Interval
<1>4. /\ \A i \in 1..L : done[i][1] < done[i][2]
      /\ \A i, j \in 1..L : i < j => done[i][2] < done[j][1]
  BY DEF Apart
<1>5. CASE done # <<>> /\ iv[1] <= done[L][2]
  <2>1. Len(more) = L /\ more[L] = <<done[L][1], iv[2]>> /\ \A i \in 1..(L - 1) : more[i] = done[i]
    BY <1>1, <1>5, WithIntervalIs
  <2>2. L \in 1..L /\ L # 0
    BY <1>1, <1>5
  <2>3. done[L][1] <= iv[1] /\ done[L][2] <= iv[2]
    BY <1>5
  <2> HIDE DEF more, L
  <2>4. more[L][1] = done[L][1] /\ more[L][2] = iv[2]
    BY <2>1
  <2>5. \A i \in 1..L : more[i][1] = done[i][1] /\ done[i][2] <= more[i][2]
                        /\ (i # L => more[i][2] = done[i][2])
    <3> TAKE i \in 1..L
    <3>1. i = L \/ i \in 1..(L - 1)
      BY <1>1
    <3> QED
      BY <1>2, <2>1, <2>3, <2>4, <3>1
  <2>6. \A i \in 1..L : more[i][1] < more[i][2]
    BY <1>2, <1>3, <1>4, <2>3, <2>4, <2>5
  <2>7. \A i, j \in 1..L : i < j => more[i][2] < more[j][1]
    <3> TAKE i, j \in 1..L
    <3> HAVE i < j
    <3>1. i # L
      BY <1>1
    <3> QED
      BY <1>4, <2>5, <3>1
  <2>8. Apart(more)
    BY <1>1, <2>1, <2>6, <2>7 DEF Apart
  <2>9. Within(iv, more)
    <3>1. more[L][1] <= iv[1] /\ iv[2] <= more[L][2] /\ L \in 1..Len(more)
      BY <1>3, <2>1, <2>2, <2>3, <2>4
    <3> QED
      BY <3>1 DEF Within
  <2>10. ASSUME NEW x \in Interval, Within(x, done)
         PROVE  Within(x, more)
    <3>1. PICK i \in 1..L : done[i][1] <= x[1] /\ x[2] <= done[i][2]
      BY <2>10 DEF Within, L
    <3>2. x[1] \in Nat /\ x[2] \in Nat
      BY DEF Interval
    <3>3. more[i][2] \in Nat
      <4>1. i = L \/ more[i][2] = done[i][2]
        BY <2>5
      <4> QED
        BY <1>2, <1>3, <2>4, <4>1
    <3>4. more[i][1] <= x[1] /\ x[2] <= more[i][2]
      BY <1>2, <2>5, <3>1, <3>2, <3>3
    <3> QED
      BY <2>1, <3>4 DEF Within
  <2>11. more # <<>>
    BY <2>1, <2>2
  <2> QED
    BY <1>2, <2>1, <2>2, <2>3, <2>4, <2>8, <2>9, <2>10, <2>11 DEF more, L
<1>6. CASE ~(done # <<>> /\ iv[1] <= done[L][2])
  <2>1. /\ Len(more) = L + 1 /\ more[L + 1] = iv
        /\ \A i \in 1..L : more[i] = done[i]
    BY <1>1, <1>6, WithIntervalIs
  <2>2. L # 0 => done[L][2] < iv[1]
    <3> SUFFICES ASSUME L # 0 PROVE done[L][2] < iv[1]
      OBVIOUS
    <3>1. done # <<>> /\ L \in 1..L
      BY <1>1
    <3> QED
      BY <1>2, <1>3, <1>6, <3>1
  <2> HIDE DEF more, L
  <2>3. \A i \in 1..L : done[i][2] < iv[1]
    <3> TAKE i \in 1..L
    <3>1. L \in 1..L /\ L # 0
      BY <1>1
    <3>2. i = L \/ i < L
      BY <1>1
    <3> QED
      BY <1>2, <1>3, <1>4, <2>2, <3>1, <3>2
  <2>4. \A i \in 1..(L + 1) : i = L + 1 \/ i \in 1..L
    BY <1>1
  <2>5. \A i \in 1..(L + 1) : more[i][1] < more[i][2]
    BY <1>4, <2>1, <2>4
  <2>6. \A i, j \in 1..(L + 1) : i < j => more[i][2] < more[j][1]
    <3> TAKE i, j \in 1..(L + 1)
    <3> HAVE i < j
    <3>1. i \in 1..L
      BY <1>1
    <3> QED
      BY <1>4, <2>1, <2>3, <2>4, <3>1
  <2>7. Apart(more)
    BY <1>1, <2>1, <2>5, <2>6 DEF Apart
  <2>8. L + 1 \in 1..(L + 1)
    BY <1>1
  <2>9. Within(iv, more)
    BY <1>3, <2>1, <2>8 DEF Within
  <2>10. ASSUME NEW x \in Interval, Within(x, done)
         PROVE  Within(x, more)
    <3>1. PICK i \in 1..L : done[i][1] <= x[1] /\ x[2] <= done[i][2]
      BY <2>10 DEF Within, L
    <3>2. i \in 1..(L + 1)
      BY <1>1
    <3> QED
      BY <2>1, <3>1, <3>2 DEF Within
  <2>11. more # <<>>
    BY <1>1, <2>1
  <2> QED
    BY <1>3, <2>1, <2>7, <2>9, <2>10, <2>11 DEF more, L
<1> QED
  BY <1>5, <1>6

\* Merging intervals that start and end one no earlier than the one before
\* leaves them apart, with every one of them held by one of the result, and
\* reaches no further than they do (get_lookup_offsets).
LEMMA MergedHolds ==
  ASSUME NEW ivs \in Seq(Interval), ivs # <<>>, NEW bound \in Nat,
         \A n \in 1..Len(ivs) : ivs[n][1] < ivs[n][2] /\ ivs[n][2] <= bound,
         \A m, n \in 1..Len(ivs) : m <= n => ivs[m][1] <= ivs[n][1] /\ ivs[m][2] <= ivs[n][2]
  PROVE  /\ Apart(Merged(ivs))
         /\ \A n \in 1..Len(ivs) : Within(ivs[n], Merged(ivs))
         /\ \A i \in 1..Len(Merged(ivs)) : Merged(ivs)[i][2] <= bound
<1> DEFINE L == Len(ivs)
<1>1. L \in Nat \ {0} /\ \A n \in 1..L : ivs[n] \in Interval
  OBVIOUS
<1>2. PICK upTo \in [0..L -> Seq(Interval)] :
           /\ upTo[0] = <<>>
           /\ \A n \in 1..L : upTo[n] = WithInterval(upTo[n - 1], ivs[n])
           /\ Merged(ivs) = upTo[L]
  BY MergedIs
<1> DEFINE Ends(n) == upTo[n] # <<>> /\ upTo[n][Len(upTo[n])][2] = ivs[n][2] /\ upTo[n][Len(upTo[n])][1] <= ivs[n][1]
           Holds(n) == \A m \in 1..n : Within(ivs[m], upTo[n])
           Good(n) == Apart(upTo[n]) /\ Holds(n) /\ (n # 0 => Ends(n))
           Bad == {n \in 0..L : ~Good(n)}
<1>3. Good(0)
  <2>1. upTo[0] = <<>>
    BY <1>2
  <2>2. Apart(<<>>)
    BY DEF Apart
  <2> QED
    BY <2>1, <2>2
<1>4. ASSUME NEW n \in 1..L, Good(n - 1)
      PROVE  Good(n)
  <2> DEFINE done == upTo[n - 1]
             iv   == ivs[n]
             more == upTo[n]
  <2>1. n - 1 \in 0..L /\ n \in Nat /\ n # 0
    BY <1>1
  <2>2. iv \in Interval /\ iv[1] < iv[2]
    BY <1>1
  <2>3. more = WithInterval(done, iv)
    BY <1>2
  <2>4. Apart(done) /\ (n - 1 # 0 => Ends(n - 1)) /\ (n - 1 = 0 => done = <<>>)
    BY <1>2, <1>4
  <2>5. done # <<>> => done[Len(done)][1] <= iv[1] /\ done[Len(done)][2] <= iv[2]
    <3> SUFFICES ASSUME done # <<>> PROVE done[Len(done)][1] <= iv[1] /\ done[Len(done)][2] <= iv[2]
      OBVIOUS
    <3> DEFINE l == done[Len(done)]
               p == ivs[n - 1]
    <3>1. n - 1 # 0
      BY <2>4
    <3>2. l[2] = p[2] /\ l[1] <= p[1]
      BY <2>4, <3>1
    <3>3. n - 1 \in 1..L /\ n - 1 <= n
      BY <2>1, <3>1
    <3>4. p[1] <= iv[1] /\ p[2] <= iv[2] /\ p \in Interval
      BY <1>1, <3>3
    <3>5. l \in Interval
      <4>1. done \in Seq(Interval)
        BY <2>4 DEF Apart
      <4> HIDE DEF done
      <4>2. Len(done) \in 1..Len(done)
        BY <4>1
      <4> QED
        BY <4>1, <4>2
    <3>6. p[1] \in Nat /\ l[1] \in Nat /\ iv[1] \in Nat
      BY <2>2, <3>4, <3>5 DEF Interval
    <3> HIDE DEF l, p, iv
    <3>7. l[1] <= iv[1] /\ l[2] <= iv[2]
      BY <3>2, <3>4, <3>6
    <3> QED
      BY <3>7 DEF l
  <2>6. /\ Apart(more)
        /\ more # <<>> /\ more[Len(more)][2] = iv[2] /\ more[Len(more)][1] <= iv[1]
        /\ Within(iv, more)
        /\ \A x \in Interval : Within(x, done) => Within(x, more)
    <3> HIDE DEF done, iv, more
    <3> QED
      BY <2>2, <2>3, <2>4, <2>5, WithIntervalKeeps
  <2>7. ASSUME NEW m \in 1..n
        PROVE  Within(ivs[m], more)
    <3>1. CASE m = n
      BY <2>6, <3>1
    <3>2. CASE m # n
      <4>1. m \in 1..(n - 1) /\ ivs[m] \in Interval
        BY <1>1, <3>2
      <4>2. Within(ivs[m], done)
        BY <1>4, <4>1
      <4> QED
        BY <2>6, <4>1, <4>2
    <3> QED
      BY <3>1, <3>2
  <2> QED
    BY <2>6, <2>7
<1>5. Good(L)
  <2> SUFFICES ASSUME L \in Bad PROVE FALSE
    BY <1>1
  <2>1. PICK n \in Bad : \A k \in Bad : n <= k
    <3>1. Bad \in SUBSET Nat /\ Bad # {}
      BY <1>1
    <3> HIDE DEF Bad
    <3> QED
      BY <3>1, LeastExists
  <2>2. n \in 0..L /\ ~Good(n)
    BY <2>1
  <2> HIDE DEF Good
  <2>3. n # 0
    BY <1>3, <2>2
  <2>4. n \in 1..L /\ n - 1 \in 0..L /\ ~(n <= n - 1)
    BY <1>1, <2>2, <2>3
  <2>5. Good(n - 1)
    <3>1. n - 1 \notin Bad
      BY <2>1, <2>4
    <3> QED
      BY <2>4, <3>1
  <2> QED
    BY <1>4, <2>2, <2>4, <2>5
<1>6. Apart(Merged(ivs)) /\ \A n \in 1..L : Within(ivs[n], Merged(ivs))
  BY <1>2, <1>5
<1>7. ASSUME NEW i \in 1..Len(Merged(ivs))
      PROVE  Merged(ivs)[i][2] <= bound
  <2> DEFINE out == Merged(ivs)
             K == Len(out)
  <2>1. out # <<>> /\ out[K][2] = ivs[L][2] /\ ivs[L][2] <= bound /\ out \in Seq(Interval)
        /\ ivs[L] \in Interval
    BY <1>1, <1>2, <1>5 DEF Apart
  <2>2. /\ \A m \in 1..K : out[m][1] < out[m][2]
        /\ \A m, n \in 1..K : m < n => out[m][2] < out[n][1]
    BY <1>6 DEF Apart
  <2> HIDE DEF out
  <2>3. K \in Nat /\ \A m \in 1..K : out[m] \in Interval
    BY <2>1
  <2>4. \A m \in 1..K : out[m][1] \in Nat /\ out[m][2] \in Nat
    BY <2>3 DEF Interval
  <2>5. i \in 1..K
    BY DEF out
  <2>6. CASE i = K
    BY <2>1, <2>6 DEF out
  <2>7. CASE i # K
    <3>1. K \in 1..K /\ i < K
      BY <2>3, <2>5, <2>7
    <3>2. out[i][2] < out[K][1] /\ out[K][1] < out[K][2]
      BY <2>2, <2>5, <3>1
    <3>3. out[i][2] <= bound
      BY <2>1, <2>4, <2>5, <3>1, <3>2
    <3> QED
      BY <3>3 DEF out
  <2> QED
    BY <2>6, <2>7
<1> QED
  BY <1>6, <1>7

\* The intervals that the strings of a lookup are read from, before they are
\* turned into first rows and lengths.
Intervals(S, col) == [k \in 1..Cardinality(S) |-> LookupInterval(Ascending(S)[k], CreateSparseIndex(col), Len(col))]

\* They are intervals of the column, in order, and hold the rows of their string.
LEMMA IntervalsAre ==
  ASSUME NEW col, Column(col), NEW S \in SUBSET Nat, IsFiniteSet(S), NEW n, n = Cardinality(S)
  PROVE  /\ n \in Nat
         /\ Intervals(S, col) \in Seq(Interval) /\ Len(Intervals(S, col)) = n
         /\ \A k \in 1..n : Intervals(S, col)[k][1] < Intervals(S, col)[k][2] /\ Intervals(S, col)[k][2] <= Len(col)
         /\ \A j, k \in 1..n : j <= k => /\ Intervals(S, col)[j][1] <= Intervals(S, col)[k][1]
                                         /\ Intervals(S, col)[j][2] <= Intervals(S, col)[k][2]
         /\ \A s \in S : \E k \in 1..n :
              \A i \in 0..(Len(col) - 1) : RowAt(col, i) = s => Intervals(S, col)[k][1] <= i /\ i < Intervals(S, col)[k][2]
<1> DEFINE ivs == Intervals(S, col)
           at(k) == Ascending(S)[k]
<1>1. /\ n \in Nat
      /\ \A k \in 1..n : at(k) \in S
      /\ \A j, k \in 1..n : j <= k => at(j) <= at(k)
      /\ \A s \in S : \E k \in 1..n : at(k) = s
  BY AscendingIs
<1>2. \A k \in 1..n : at(k) \in Nat
  BY <1>1
<1>3. ivs = [k \in 1..n |-> LookupInterval(at(k), CreateSparseIndex(col), Len(col))]
  BY DEF Intervals
<1> HIDE DEF ivs, at
<1>4. ASSUME NEW k \in 1..n
      PROVE  /\ ivs[k] = <<First(col, at(k)), After(col, at(k))>>
             /\ ivs[k] \in Interval
             /\ ivs[k][1] = First(col, at(k)) /\ ivs[k][2] = After(col, at(k))
             /\ ivs[k][1] < ivs[k][2] /\ ivs[k][2] <= Len(col)
  <2> DEFINE s == at(k)
  <2>1. s \in Nat
    BY <1>2
  <2>2. ivs[k] = LookupInterval(s, CreateSparseIndex(col), Len(col))
    BY <1>3
  <2> HIDE DEF s
  <2>3. /\ LookupInterval(s, CreateSparseIndex(col), Len(col)) = <<First(col, s), After(col, s)>>
        /\ First(col, s) \in Nat /\ After(col, s) \in Nat
        /\ First(col, s) < After(col, s) /\ After(col, s) <= Len(col)
    BY <2>1, IntervalHolds
  <2>4. /\ ivs[k] = <<First(col, s), After(col, s)>>
        /\ ivs[k] \in Interval
        /\ ivs[k][1] = First(col, s) /\ ivs[k][2] = After(col, s)
    BY <2>2, <2>3 DEF Interval
  <2> QED
    BY <2>3, <2>4 DEF s
<1>5. ivs \in Seq(Interval) /\ Len(ivs) = n
  <2>1. ivs \in [1..n -> Interval]
    BY <1>3, <1>4
  <2> QED
    BY <1>1, <2>1
<1>6. ASSUME NEW j \in 1..n, NEW k \in 1..n, j <= k
      PROVE  ivs[j][1] <= ivs[k][1] /\ ivs[j][2] <= ivs[k][2]
  <2>1. at(j) <= at(k) /\ at(j) \in Nat /\ at(k) \in Nat
    BY <1>1, <1>2, <1>6
  <2>2. First(col, at(j)) <= First(col, at(k)) /\ After(col, at(j)) <= After(col, at(k))
    BY <2>1, IntervalsOrdered
  <2> QED
    BY <1>4, <2>2
<1>7. ASSUME NEW s \in S
      PROVE  \E k \in 1..n :
               \A i \in 0..(Len(col) - 1) : RowAt(col, i) = s => ivs[k][1] <= i /\ i < ivs[k][2]
  <2>1. PICK k \in 1..n : at(k) = s
    BY <1>1
  <2>2. \A i \in 0..(Len(col) - 1) : RowAt(col, i) = s => First(col, s) <= i /\ i < After(col, s)
    BY IntervalHolds
  <2> QED
    BY <1>4, <2>1, <2>2
<1> QED
  BY <1>1, <1>4, <1>5, <1>6, <1>7 DEF ivs

\* A lookup of at least one string, in terms of the merged intervals.
LEMMA OffsetsAre ==
  ASSUME NEW col, NEW S \in SUBSET Nat, IsFiniteSet(S)
  PROVE  LookupOffsets(S, CreateSparseIndex(col), Len(col)) =
           [i \in DOMAIN Merged(Intervals(S, col)) |->
              <<Merged(Intervals(S, col))[i][1],
                Merged(Intervals(S, col))[i][2] - Merged(Intervals(S, col))[i][1]>>]
<1>1. DOMAIN Ascending(S) = 1..Cardinality(S)
  BY AscendingIs
<1>2. [k \in DOMAIN Ascending(S) |-> LookupInterval(Ascending(S)[k], CreateSparseIndex(col), Len(col))] = Intervals(S, col)
  BY <1>1 DEF Intervals
<1> QED
  BY <1>2, Zenon DEF LookupOffsets

\* The first rows and lengths that a lookup gives are those of intervals of the
\* column, one behind the other, that hold every row with one of the strings.
LEMMA LookupHolds ==
  ASSUME NEW col, Column(col), NEW S \in SUBSET Nat, IsFiniteSet(S),
         NEW ivs, ivs = LookupOffsets(S, CreateSparseIndex(col), Len(col))
  PROVE  /\ ivs \in Seq(Interval)
         /\ \A i \in 1..Len(ivs) : ivs[i][2] > 0 /\ ivs[i][1] + ivs[i][2] <= Len(col)
         /\ \A i, j \in 1..Len(ivs) : i < j => ivs[i][1] + ivs[i][2] < ivs[j][1]
         /\ \A r \in 0..(Len(col) - 1) : RowAt(col, r) \in S =>
              \E i \in 1..Len(ivs) : ivs[i][1] <= r /\ r < ivs[i][1] + ivs[i][2]
<1> DEFINE n    == Cardinality(S)
           H    == Len(col)
           each == Intervals(S, col)
           out  == Merged(each)
<1>1. H \in Nat
  BY RowsAre
<1>2. ivs = [i \in DOMAIN out |-> <<out[i][1], out[i][2] - out[i][1]>>]
  BY OffsetsAre
<1>3. /\ n \in Nat
      /\ each \in Seq(Interval) /\ Len(each) = n
      /\ \A k \in 1..n : each[k][1] < each[k][2] /\ each[k][2] <= H
      /\ \A j, k \in 1..n : j <= k => each[j][1] <= each[k][1] /\ each[j][2] <= each[k][2]
      /\ \A s \in S : \E k \in 1..n :
           \A i \in 0..(H - 1) : RowAt(col, i) = s => each[k][1] <= i /\ i < each[k][2]
  BY IntervalsAre
<1> HIDE DEF each, n
<1>4. /\ Apart(out)
      /\ \A k \in 1..n : Within(each[k], out)
      /\ \A i \in 1..Len(out) : out[i][2] <= H
  <2>1. CASE each = <<>>
    <3>1. n = 0
      BY <1>3, <2>1
    <3>2. PICK upTo \in [0..Len(each) -> Seq(Interval)] : upTo[0] = <<>> /\ Merged(each) = upTo[Len(each)]
      BY <1>3, MergedIs
    <3>3. out = <<>>
      BY <1>3, <3>1, <3>2
    <3>4. Apart(<<>>)
      BY DEF Apart
    <3> HIDE DEF out
    <3> QED
      BY <3>1, <3>3, <3>4
  <2>2. CASE each # <<>>
    BY <1>1, <1>3, <2>2, MergedHolds
  <2> QED
    BY <2>1, <2>2
<1>5. /\ out \in Seq(Interval)
      /\ \A i \in 1..Len(out) : out[i][1] < out[i][2]
      /\ \A i, j \in 1..Len(out) : i < j => out[i][2] < out[j][1]
  BY <1>4 DEF Apart
<1> HIDE DEF out
<1> DEFINE L == Len(out)
<1>6. L \in Nat /\ DOMAIN out = 1..L /\ \A i \in 1..L : out[i] \in Interval
  BY <1>5
<1>7. \A i \in 1..L : out[i][1] \in Nat /\ out[i][2] \in Nat
  BY <1>6 DEF Interval
<1>8. ASSUME NEW i \in 1..L
      PROVE  /\ ivs[i] \in Interval /\ ivs[i][1] = out[i][1] /\ ivs[i][2] = out[i][2] - out[i][1]
             /\ ivs[i][1] + ivs[i][2] = out[i][2]
  <2>1. ivs[i] = <<out[i][1], out[i][2] - out[i][1]>>
    BY <1>2, <1>6
  <2>2. out[i][1] \in Nat /\ out[i][2] \in Nat /\ out[i][1] < out[i][2]
    BY <1>5, <1>7
  <2> QED
    BY <2>1, <2>2 DEF Interval
<1>9. ivs \in Seq(Interval) /\ Len(ivs) = L
  <2>1. DOMAIN ivs = 1..L /\ ivs = [i \in 1..L |-> ivs[i]]
    BY <1>2, <1>6
  <2>2. ivs \in [1..L -> Interval]
    BY <1>8, <2>1
  <2> QED
    BY <1>6, <2>2
<1> HIDE DEF L
<1>10. \A i \in 1..L : ivs[i][2] > 0 /\ ivs[i][1] + ivs[i][2] <= H
  <2> TAKE i \in 1..L
  <2>1. out[i][1] \in Nat /\ out[i][2] \in Nat /\ out[i][1] < out[i][2] /\ out[i][2] <= H
    BY <1>4, <1>5, <1>7 DEF L
  <2> QED
    BY <1>8, <2>1
<1>11. \A i, j \in 1..L : i < j => ivs[i][1] + ivs[i][2] < ivs[j][1]
  BY <1>5, <1>8 DEF L
<1>12. ASSUME NEW r \in 0..(H - 1), RowAt(col, r) \in S
       PROVE  \E i \in 1..L : ivs[i][1] <= r /\ r < ivs[i][1] + ivs[i][2]
  <2>1. PICK k \in 1..n : each[k][1] <= r /\ r < each[k][2]
    BY <1>3, <1>12
  <2>2. PICK i \in 1..L : out[i][1] <= each[k][1] /\ each[k][2] <= out[i][2]
    BY <1>4 DEF Within, L
  <2>3. each[k] \in Interval
    BY <1>3
  <2>4. each[k][1] \in Nat /\ each[k][2] \in Nat /\ r \in Nat /\ out[i][1] \in Nat /\ out[i][2] \in Nat
    BY <1>1, <1>7, <2>3 DEF Interval
  <2> DEFINE a == each[k][1]
             b == each[k][2]
             c == out[i][1]
             d == out[i][2]
  <2>5. a \in Nat /\ b \in Nat /\ c \in Nat /\ d \in Nat /\ a <= r /\ r < b /\ c <= a /\ b <= d
    BY <2>1, <2>2, <2>4
  <2> HIDE DEF a, b, c, d
  <2>6. c <= r /\ r < d
    BY <2>4, <2>5
  <2> USE DEF c, d
  <2> QED
    BY <1>8, <2>6
<1> QED
  BY <1>9, <1>10, <1>11, <1>12 DEF H

\* Looking up strings (get_lookup_offsets and the slices of get_lazy_frames)
\* reads every row with one of them, none twice and none outside the segment.
THEOREM LookupCorrect == ColumnSpec => []LookupComplete
<1>1. ColumnIInv => LookupComplete
  <2> SUFFICES ASSUME ColumnIInv, NEW S \in SUBSET Strings, IsFiniteSet(S), column # <<>>
               PROVE  LET ivs == LookupOffsets(S, CreateSparseIndex(column), Len(column))
                      IN  /\ RowsWith(S) \subseteq UNION {Covered(ivs[i]) : i \in DOMAIN ivs}
                          /\ UNION {Covered(ivs[i]) : i \in DOMAIN ivs} \subseteq 0..(Len(column) - 1)
                          /\ \A i, j \in DOMAIN ivs : i # j => Covered(ivs[i]) \cap Covered(ivs[j]) = {}
    BY DEF LookupComplete
  <2> DEFINE ivs == LookupOffsets(S, CreateSparseIndex(column), Len(column))
             H   == Len(column)
  <2>1. Column(column) /\ S \in SUBSET Nat /\ H \in Nat
    BY ColumnHasRows, StringsAssumption, RowsAre
  <2>2. /\ ivs \in Seq(Interval)
        /\ \A i \in 1..Len(ivs) : ivs[i][2] > 0 /\ ivs[i][1] + ivs[i][2] <= H
        /\ \A i, j \in 1..Len(ivs) : i < j => ivs[i][1] + ivs[i][2] < ivs[j][1]
        /\ \A r \in 0..(H - 1) : RowAt(column, r) \in S =>
             \E i \in 1..Len(ivs) : ivs[i][1] <= r /\ r < ivs[i][1] + ivs[i][2]
    BY <2>1, LookupHolds
  <2> HIDE DEF ivs
  <2>3. /\ DOMAIN ivs = 1..Len(ivs)
        /\ \A i \in 1..Len(ivs) : ivs[i][1] \in Nat /\ ivs[i][2] \in Nat
    <3>1. \A i \in 1..Len(ivs) : ivs[i] \in Interval
      BY <2>2
    <3> QED
      BY <2>2, <3>1 DEF Interval
  <2>4. ASSUME NEW r \in RowsWith(S)
        PROVE  r \in UNION {Covered(ivs[i]) : i \in DOMAIN ivs}
    <3>1. r \in 0..(H - 1) /\ RowAt(column, r) \in S
      BY DEF RowsWith
    <3>2. PICK i \in 1..Len(ivs) : ivs[i][1] <= r /\ r < ivs[i][1] + ivs[i][2]
      BY <2>2, <3>1
    <3>3. r \in Covered(ivs[i])
      BY <2>1, <2>3, <3>1, <3>2 DEF Covered
    <3> QED
      BY <2>3, <3>3
  <2>5. ASSUME NEW i \in DOMAIN ivs
        PROVE  Covered(ivs[i]) \subseteq 0..(H - 1)
    BY <2>1, <2>2, <2>3 DEF Covered
  <2>6. ASSUME NEW i \in DOMAIN ivs, NEW j \in DOMAIN ivs, i # j
        PROVE  Covered(ivs[i]) \cap Covered(ivs[j]) = {}
    <3>1. i \in 1..Len(ivs) /\ j \in 1..Len(ivs) /\ (i < j \/ j < i)
      BY <2>3, <2>6
    <3>2. /\ ivs[i][1] \in Nat /\ ivs[i][2] \in Nat /\ ivs[j][1] \in Nat /\ ivs[j][2] \in Nat
          /\ ivs[i][1] + ivs[i][2] < ivs[j][1] \/ ivs[j][1] + ivs[j][2] < ivs[i][1]
      BY <2>2, <2>3, <3>1
    <3> QED
      BY <3>2 DEF Covered
  <2> QED
    BY <2>4, <2>5, <2>6 DEF ivs
<1> QED
  BY <1>1, ColumnInvariant, PTL

-----------------------------------------------------------------------------
(* Lists put one behind the other, and the rows of a table.               *)

\* Lists put one behind the other, by a list of what the first of them make.
LEMMA FlattenSteps ==
  ASSUME NEW R, NEW seqs \in Seq(Seq(R)), seqs # <<>>
  PROVE  \E flat \in [1..Len(seqs) -> Seq(R)] :
           /\ flat[1] = seqs[1]
           /\ \A n \in 2..Len(seqs) : flat[n] = flat[n - 1] \o seqs[n]
           /\ FlattenSeq(seqs) = flat[Len(seqs)]
<1> DEFINE L    == Len(seqs)
           V    == Seq(R)
           body(u) == [n \in 1..L |-> IF n = 1 THEN seqs[n] ELSE u[n - 1] \o seqs[n]]
           new(x) == IF x[1] + 2 \in 1..L THEN x[2] \o seqs[x[1] + 2] ELSE x[2]
           step == [x \in Nat \X V |-> new(x)]
           v0 == seqs[1]
<1>1. L \in Nat /\ L > 0 /\ \A n \in 1..L : seqs[n] \in V
  OBVIOUS
<1>2. step \in [Nat \X V -> V]
  <2>1. ASSUME NEW x \in Nat \X V
        PROVE  new(x) \in V
    <3>1. x[1] \in Nat /\ x[2] \in Seq(R)
      OBVIOUS
    <3>2. CASE x[1] + 2 \in 1..L
      <4>1. seqs[x[1] + 2] \in Seq(R)
        BY <1>1, <3>2
      <4>2. x[2] \o seqs[x[1] + 2] \in Seq(R)
        BY <3>1, <4>1
      <4> QED
        BY <3>2, <4>2
    <3> QED
      BY <3>1, <3>2
  <2> HIDE DEF new, V
  <2> QED
    BY <2>1
<1>3. v0 \in V
  BY <1>1
<1> HIDE DEF step
<1>4. PICK f : Steps(V, v0, step, f)
  <2> HIDE DEF V, v0
  <2> QED
    BY <1>2, <1>3, StepByStep
<1>5. f \in [Nat -> V] /\ f[0] = v0 /\ \A n \in Nat : f[n + 1] = step[<<n, f[n]>>]
  BY <1>4 DEF Steps
<1> DEFINE up == [n \in 1..L |-> f[n - 1]]
<1>6. up \in [1..L -> V] /\ up[1] = v0
  <2>1. \A n \in 1..L : n - 1 \in Nat
    BY <1>1
  <2> HIDE DEF V, v0
  <2> QED
    BY <1>1, <1>5, <2>1
<1>7. ASSUME NEW n \in 2..L
      PROVE  up[n] = up[n - 1] \o seqs[n]
  <2>1. n - 2 \in Nat /\ n - 1 \in 1..L /\ (n - 2) + 1 = n - 1 /\ n \in 1..L /\ (n - 2) + 2 = n /\ (n - 1) - 1 = n - 2
    BY <1>1
  <2>2. f[(n - 2) + 1] = step[<<n - 2, f[n - 2]>>] /\ f[n - 2] \in V
    BY <1>5, <2>1
  <2>3. <<n - 2, f[n - 2]>> \in Nat \X V
    BY <2>1, <2>2
  <2>4. step[<<n - 2, f[n - 2]>>] = new(<<n - 2, f[n - 2]>>)
    <3> HIDE DEF new, V
    <3> QED
      BY <2>3 DEF step
  <2>5. new(<<n - 2, f[n - 2]>>) = f[n - 2] \o seqs[n]
    BY <2>1
  <2>6. up[n] = f[n - 1] /\ up[n - 1] = f[n - 2]
    BY <2>1
  <2> HIDE DEF new, V, up
  <2> QED
    BY <2>1, <2>2, <2>4, <2>5, <2>6
<1> HIDE DEF up
<1>8. up = body(up)
  <2>1. \A n \in 1..L : n # 1 => n \in 2..L
    BY <1>1
  <2>2. \A n \in 1..L : up[n] = IF n = 1 THEN seqs[n] ELSE up[n - 1] \o seqs[n]
    BY <1>6, <1>7, <2>1
  <2> HIDE DEF V
  <2> QED
    BY <1>6, <2>2
<1> DEFINE flat == CHOOSE u : u = body(u)
<1>9. flat = body(flat)
  <2> HIDE DEF body
  <2> QED
    BY <1>8
<1>10. FlattenSeq(seqs) = flat[L]
  BY <1>1 DEF FlattenSeq
<1>11. \A n \in 1..L : flat[n] = IF n = 1 THEN seqs[n] ELSE flat[n - 1] \o seqs[n]
  <2> HIDE DEF flat
  <2> QED
    BY <1>9
<1>12. \A n \in 1..L : flat[n] \in V
  <2> HIDE DEF flat
  <2> DEFINE Bad == {n \in 1..L : flat[n] \notin V}
  <2> SUFFICES ASSUME Bad # {} PROVE FALSE
    OBVIOUS
  <2>1. PICK n \in Bad : \A k \in Bad : n <= k
    <3>1. Bad \in SUBSET Nat
      OBVIOUS
    <3> HIDE DEF Bad
    <3> QED
      BY <3>1, LeastExists
  <2>2. n \in 1..L /\ flat[n] \notin V
    BY <2>1
  <2>3. n # 1
    BY <1>1, <1>11, <2>2
  <2>4. n - 1 \in 1..L /\ ~(n <= n - 1)
    BY <2>2, <2>3
  <2>5. flat[n - 1] \in V
    <3>1. n - 1 \notin Bad
      BY <2>1, <2>4
    <3> QED
      BY <2>4, <3>1
  <2>6. flat[n] = flat[n - 1] \o seqs[n]
    BY <1>11, <2>2, <2>3
  <2>7. flat[n - 1] \o seqs[n] \in V
    BY <1>1, <2>2, <2>5
  <2> QED
    BY <2>2, <2>6, <2>7
<1>13. flat \in [1..L -> V]
  <2> HIDE DEF flat
  <2>1. flat = [n \in 1..L |-> flat[n]]
    BY <1>9
  <2> HIDE DEF V
  <2> QED
    BY <2>1, <1>12
<1> HIDE DEF flat
<1>14. flat[1] = seqs[1] /\ \A n \in 2..L : flat[n] = flat[n - 1] \o seqs[n]
  <2>1. 1 \in 1..L /\ \A n \in 2..L : n \in 1..L /\ n # 1
    BY <1>1
  <2> QED
    BY <1>11, <2>1
<1> QED
  BY <1>10, <1>13, <1>14

\* The rows that intervals say they have are more than none if there is an
\* interval, and each has a row.
LEMMA HeightIs ==
  ASSUME NEW ivs \in Seq(Interval), ivs # <<>>, \A i \in 1..Len(ivs) : ivs[i][2] > 0
  PROVE  HeightOf(ivs) > 0
<1> DEFINE L    == Len(ivs)
           body(u) == [n \in 0..L |-> IF n = 0 THEN 0 ELSE u[n - 1] + ivs[n][2]]
           new(x) == IF x[1] + 1 \in 1..L THEN x[2] + ivs[x[1] + 1][2] ELSE x[2]
           step == [x \in Nat \X Nat |-> new(x)]
<1>1. L \in Nat /\ L > 0 /\ \A n \in 1..L : ivs[n][2] \in Nat
  BY DEF Interval
<1>2. step \in [Nat \X Nat -> Nat]
  BY <1>1
<1> HIDE DEF step
<1>4. PICK f : Steps(Nat, 0, step, f)
  BY <1>2, StepByStep
<1>5. f \in [Nat -> Nat] /\ f[0] = 0 /\ \A n \in Nat : f[n + 1] = step[<<n, f[n]>>]
  BY <1>4 DEF Steps
<1> DEFINE up == [n \in 0..L |-> f[n]]
<1>7. ASSUME NEW n \in 1..L
      PROVE  up[n] = up[n - 1] + ivs[n][2]
  <2>1. n - 1 \in Nat /\ n - 1 \in 0..L /\ (n - 1) + 1 = n /\ n \in 0..L
    BY <1>1
  <2>2. f[(n - 1) + 1] = step[<<n - 1, f[n - 1]>>] /\ f[n - 1] \in Nat
    BY <1>5, <2>1
  <2>4. step[<<n - 1, f[n - 1]>>] = new(<<n - 1, f[n - 1]>>)
    BY <2>1, <2>2 DEF step
  <2> QED
    BY <2>1, <2>2, <2>4
<1>8. up = body(up)
  <2>1. \A n \in 0..L : n # 0 => n \in 1..L
    BY <1>1
  <2>2. \A n \in 0..L : up[n] = IF n = 0 THEN 0 ELSE up[n - 1] + ivs[n][2]
    BY <1>5, <1>7, <2>1
  <2>3. up = [n \in 0..L |-> up[n]]
    OBVIOUS
  <2> HIDE DEF up
  <2> QED
    BY <2>2, <2>3
<1> HIDE DEF up
<1> DEFINE upTo == CHOOSE u : u = body(u)
<1>9. upTo = body(upTo)
  <2> HIDE DEF body
  <2> QED
    BY <1>8
<1>10. HeightOf(ivs) = upTo[L]
  BY DEF HeightOf
<1>11. \A n \in 0..L : upTo[n] = IF n = 0 THEN 0 ELSE upTo[n - 1] + ivs[n][2]
  <2> HIDE DEF upTo
  <2> QED
    BY <1>9
<1> HIDE DEF upTo
<1>12. \A n \in 0..L : upTo[n] \in Nat
  <2> DEFINE Bad == {n \in 0..L : upTo[n] \notin Nat}
  <2> SUFFICES ASSUME Bad # {} PROVE FALSE
    OBVIOUS
  <2>1. PICK n \in Bad : \A k \in Bad : n <= k
    <3>1. Bad \in SUBSET Nat
      OBVIOUS
    <3> HIDE DEF Bad
    <3> QED
      BY <3>1, LeastExists
  <2>2. n \in 0..L /\ upTo[n] \notin Nat
    BY <2>1
  <2>3. n # 0
    BY <1>11, <2>2
  <2>4. n - 1 \in 0..L /\ ~(n <= n - 1) /\ n \in 1..L
    BY <2>2, <2>3
  <2>5. upTo[n - 1] \in Nat
    <3>1. n - 1 \notin Bad
      BY <2>1, <2>4
    <3> QED
      BY <2>4, <3>1
  <2>6. upTo[n] = upTo[n - 1] + ivs[n][2]
    BY <1>11, <2>2, <2>3
  <2> QED
    BY <1>1, <2>2, <2>4, <2>5, <2>6
<1>13. upTo[L] = upTo[L - 1] + ivs[L][2] /\ upTo[L - 1] \in Nat /\ ivs[L][2] \in Nat /\ ivs[L][2] > 0
  <2>1. L \in 0..L /\ L # 0 /\ L - 1 \in 0..L /\ L \in 1..L
    BY <1>1
  <2> QED
    BY <1>1, <1>11, <1>12, <2>1
<1> QED
  BY <1>10, <1>13

\* The elements of lists are all different.
AllDifferent(seqs) ==
  \A i, j \in 1..Len(seqs) : \A k \in 1..Len(seqs[i]), l \in 1..Len(seqs[j]) :
    seqs[i][k] = seqs[j][l] => i = j /\ k = l
\* A list has the elements of the first n lists, each once.
ListsOnce(list, seqs, n) ==
  /\ \A i \in 1..n : \A k \in 1..Len(seqs[i]) : \E m \in 1..Len(list) : list[m] = seqs[i][k]
  /\ \A m \in 1..Len(list) : \E i \in 1..n : \E k \in 1..Len(seqs[i]) : list[m] = seqs[i][k]
  /\ \A l, m \in 1..Len(list) : list[l] = list[m] => l = m

\* It does so for one list more when that is put behind it.
LEMMA ListsOnceMore ==
  ASSUME NEW R, NEW seqs \in Seq(Seq(R)), AllDifferent(seqs), NEW n \in 2..Len(seqs),
         NEW list \in Seq(R), ListsOnce(list, seqs, n - 1)
  PROVE  ListsOnce(list \o seqs[n], seqs, n)
<1> DEFINE t == seqs[n]
           a == Len(list)
           b == Len(t)
           both == list \o t
<1>1. n \in 1..Len(seqs) /\ n - 1 \in 1..Len(seqs) /\ \A i \in 1..n : i # n => i \in 1..(n - 1)
  OBVIOUS
<1>2. t \in Seq(R) /\ a \in Nat /\ b \in Nat
  BY <1>1
<1> HIDE DEF t
<1>3. both \in Seq(R) /\ Len(both) = a + b
  BY <1>2
<1>4. ASSUME NEW m \in 1..a
      PROVE  m \in 1..Len(both) /\ both[m] = list[m]
  BY <1>2, <1>3
<1>5. ASSUME NEW k \in 1..b
      PROVE  a + k \in 1..Len(both) /\ both[a + k] = t[k]
  BY <1>2, <1>3
<1>6. ASSUME NEW m \in 1..Len(both), m \notin 1..a
      PROVE  m - a \in 1..b /\ both[m] = t[m - a]
  BY <1>2, <1>3, <1>6
<1> HIDE DEF both, a, b
<1>7. /\ \A i \in 1..(n - 1) : \A k \in 1..Len(seqs[i]) : \E m \in 1..a : list[m] = seqs[i][k]
      /\ \A m \in 1..a : \E i \in 1..(n - 1) : \E k \in 1..Len(seqs[i]) : list[m] = seqs[i][k]
      /\ \A l, m \in 1..a : list[l] = list[m] => l = m
  BY DEF ListsOnce, a
<1>8. ASSUME NEW i \in 1..n, NEW k \in 1..Len(seqs[i])
      PROVE  \E m \in 1..Len(both) : both[m] = seqs[i][k]
  <2>1. CASE i = n
    <3>1. k \in 1..b /\ seqs[i][k] = t[k]
      BY <2>1 DEF t, b
    <3> QED
      BY <1>5, <3>1
  <2>2. CASE i # n
    <3>1. i \in 1..(n - 1)
      BY <1>1, <2>2
    <3>2. PICK m \in 1..a : list[m] = seqs[i][k]
      BY <1>7, <3>1
    <3> QED
      BY <1>4, <3>2
  <2> QED
    BY <2>1, <2>2
<1>9. ASSUME NEW m \in 1..Len(both)
      PROVE  \E i \in 1..n : \E k \in 1..Len(seqs[i]) : both[m] = seqs[i][k]
  <2>1. CASE m \in 1..a
    <3>1. PICK i \in 1..(n - 1) : \E k \in 1..Len(seqs[i]) : list[m] = seqs[i][k]
      BY <1>7, <2>1
    <3>2. i \in 1..n
      OBVIOUS
    <3> QED
      BY <1>4, <2>1, <3>1, <3>2
  <2>2. CASE m \notin 1..a
    <3>1. m - a \in 1..Len(seqs[n]) /\ both[m] = seqs[n][m - a]
      BY <1>6, <2>2 DEF t, b
    <3>2. n \in 1..n
      OBVIOUS
    <3> QED
      BY <3>1, <3>2
  <2> QED
    BY <2>1, <2>2
<1>10. ASSUME NEW l \in 1..a, NEW k \in 1..b
       PROVE  list[l] # t[k]
  <2>1. PICK i \in 1..(n - 1) : \E j \in 1..Len(seqs[i]) : list[l] = seqs[i][j]
    BY <1>7
  <2>5. PICK j \in 1..Len(seqs[i]) : list[l] = seqs[i][j]
    BY <2>1
  <2>2. i \in 1..Len(seqs) /\ i # n
    OBVIOUS
  <2>3. k \in 1..Len(seqs[n])
    BY DEF b, t
  <2>4. seqs[i][j] # seqs[n][k]
    BY <1>1, <2>2, <2>3 DEF AllDifferent
  <2> QED
    BY <2>4, <2>5 DEF t
<1>11. ASSUME NEW k \in 1..b, NEW l \in 1..b, t[k] = t[l]
       PROVE  k = l
  BY <1>1, <1>11 DEF AllDifferent, t, b
<1>12. ASSUME NEW l \in 1..Len(both), NEW m \in 1..Len(both), both[l] = both[m]
       PROVE  l = m
  <2>1. CASE l \in 1..a /\ m \in 1..a
    BY <1>4, <1>7, <1>12, <2>1
  <2>2. CASE l \in 1..a /\ m \notin 1..a
    BY <1>4, <1>6, <1>10, <1>12, <2>2
  <2>3. CASE l \notin 1..a /\ m \in 1..a
    BY <1>4, <1>6, <1>10, <1>12, <2>3
  <2>4. CASE l \notin 1..a /\ m \notin 1..a
    <3>1. l - a \in 1..b /\ m - a \in 1..b /\ t[l - a] = t[m - a]
      BY <1>6, <1>12, <2>4
    <3>2. l - a = m - a
      BY <1>11, <3>1
    <3>3. l \in Int /\ m \in Int /\ a \in Int
      BY <1>2
    <3> QED
      BY <3>2, <3>3
  <2> QED
    BY <2>1, <2>2, <2>3, <2>4
<1> QED
  BY <1>8, <1>9, <1>12 DEF ListsOnce, both, t

\* Lists put one behind the other have every element, and each once if the
\* elements are all different.
LEMMA FlattenIs ==
  ASSUME NEW R, NEW seqs \in Seq(Seq(R)), AllDifferent(seqs)
  PROVE  FlattenSeq(seqs) \in Seq(R) /\ ListsOnce(FlattenSeq(seqs), seqs, Len(seqs))
<1> DEFINE L == Len(seqs)
<1>1. L \in Nat /\ \A n \in 1..L : seqs[n] \in Seq(R)
  OBVIOUS
<1>2. CASE seqs = <<>>
  <2> DEFINE none == FlattenSeq(seqs)
  <2>1. none = <<>> /\ L = 0
    BY <1>2 DEF FlattenSeq
  <2> HIDE DEF none
  <2>2. none \in Seq(R) /\ Len(none) = 0
    BY <2>1
  <2>3. ListsOnce(none, seqs, L)
    BY <2>1, <2>2 DEF ListsOnce
  <2> QED
    BY <2>2, <2>3 DEF none
<1>3. CASE seqs # <<>>
  <2>1. PICK flat \in [1..L -> Seq(R)] : /\ flat[1] = seqs[1]
                                         /\ \A n \in 2..L : flat[n] = flat[n - 1] \o seqs[n]
                                         /\ FlattenSeq(seqs) = flat[L]
    BY <1>3, FlattenSteps
  <2> DEFINE Bad == {n \in 1..L : ~ListsOnce(flat[n], seqs, n)}
  <2>2. Bad = {}
    <3> SUFFICES ASSUME Bad # {} PROVE FALSE
      OBVIOUS
    <3>1. PICK n \in Bad : \A k \in Bad : n <= k
      <4>1. Bad \in SUBSET Nat
        OBVIOUS
      <4> HIDE DEF Bad
      <4> QED
        BY <4>1, LeastExists
    <3>2. n \in 1..L /\ ~ListsOnce(flat[n], seqs, n)
      BY <3>1
    <3>3. CASE n = 1
      <4>1. 1 \in 1..L /\ 1 \in 1..1 /\ \A i \in 1..1 : i = 1
        BY <1>1, <3>2, <3>3
      <4>2. \A k, l \in 1..Len(seqs[1]) : seqs[1][k] = seqs[1][l] => k = l
        BY <4>1 DEF AllDifferent
      <4>3. ListsOnce(seqs[1], seqs, 1)
        BY <4>1, <4>2 DEF ListsOnce
      <4> QED
        BY <2>1, <3>2, <3>3, <4>3
    <3>4. CASE n # 1
      <4>1. n - 1 \in 1..L /\ ~(n <= n - 1) /\ n \in 2..L
        BY <3>2, <3>4
      <4>2. ListsOnce(flat[n - 1], seqs, n - 1)
        <5>1. n - 1 \notin Bad
          BY <3>1, <4>1
        <5> QED
          BY <4>1, <5>1
      <4>3. flat[n - 1] \in Seq(R) /\ flat[n] = flat[n - 1] \o seqs[n]
        BY <2>1, <4>1
      <4>4. ListsOnce(flat[n - 1] \o seqs[n], seqs, n)
        BY <4>1, <4>2, <4>3, ListsOnceMore
      <4> QED
        BY <3>2, <4>3, <4>4
    <3> QED
      BY <3>3, <3>4
  <2>3. L \in 1..L
    BY <1>1, <1>3
  <2> QED
    BY <2>1, <2>2, <2>3
<1> QED
  BY <1>2, <1>3

\* No element of a list comes twice.
NoneTwice(list) == \A l, m \in 1..Len(list) : list[l] = list[m] => l = m

\* The rows of an interval.
LEMMA SliceIs ==
  ASSUME NEW R, NEW rows \in Seq(R), NEW iv \in Interval, iv[1] + iv[2] <= Len(rows)
  PROVE  /\ SliceOf(rows, iv) \in Seq(R) /\ Len(SliceOf(rows, iv)) = iv[2]
         /\ \A k \in 1..iv[2] : SliceOf(rows, iv)[k] = rows[iv[1] + k]
<1> DEFINE a == iv[1]
           b == iv[2]
<1>1. a \in Nat /\ b \in Nat /\ Len(rows) \in Nat /\ a + b <= Len(rows)
  BY DEF Interval
<1> HIDE DEF a, b
<1>2. Min({Len(rows), a + b}) = a + b
  BY <1>1 DEF Min
<1>3. SubSeq(rows, a + 1, a + b) \in Seq(R) /\ Len(SubSeq(rows, a + 1, a + b)) = b
  <2>1. \A k \in (a + 1)..(a + b) : k \in 1..Len(rows)
    BY <1>1
  <2> QED
    BY <1>1, <2>1
<1>4. \A k \in 1..b : SubSeq(rows, a + 1, a + b)[k] = rows[a + k]
  BY <1>1
<1>5. SliceOf(rows, iv) = SubSeq(rows, a + 1, a + b)
  BY <1>2 DEF SliceOf, a, b
<1> QED
  BY <1>3, <1>4, <1>5 DEF a, b

\* The rows of intervals that come one behind the other.
LEMMA SlicesAre ==
  ASSUME NEW R, NEW rows \in Seq(R), NoneTwice(rows), NEW ivs \in Seq(Interval),
         \A i \in 1..Len(ivs) : ivs[i][1] + ivs[i][2] <= Len(rows),
         \A i, j \in 1..Len(ivs) : i < j => ivs[i][1] + ivs[i][2] < ivs[j][1]
  PROVE  /\ SlicesOf(rows, ivs) \in Seq(R)
         /\ NoneTwice(SlicesOf(rows, ivs))
         /\ \A i \in 1..Len(ivs) : \A p \in 1..Len(rows) :
              ivs[i][1] < p /\ p <= ivs[i][1] + ivs[i][2] =>
                \E m \in 1..Len(SlicesOf(rows, ivs)) : SlicesOf(rows, ivs)[m] = rows[p]
<1> DEFINE L == Len(ivs)
           slice(i) == SliceOf(rows, ivs[i])
           parts == [i \in 1..L |-> slice(i)]
           first(i) == ivs[i][1]
           count(i) == ivs[i][2]
<1>1. L \in Nat /\ DOMAIN ivs = 1..L /\ \A i \in 1..L : ivs[i] \in Interval /\ first(i) \in Nat /\ count(i) \in Nat
  <2>1. \A i \in 1..Len(ivs) : ivs[i] \in Interval
    OBVIOUS
  <2> QED
    BY <2>1 DEF Interval
<1>2. ASSUME NEW i \in 1..L
      PROVE  /\ slice(i) \in Seq(R) /\ Len(slice(i)) = count(i)
             /\ \A k \in 1..count(i) : slice(i)[k] = rows[first(i) + k] /\ first(i) + k \in 1..Len(rows)
  <2>1. ivs[i] \in Interval /\ ivs[i][1] + ivs[i][2] <= Len(rows)
    BY <1>1
  <2>2. /\ SliceOf(rows, ivs[i]) \in Seq(R) /\ Len(SliceOf(rows, ivs[i])) = ivs[i][2]
        /\ \A k \in 1..ivs[i][2] : SliceOf(rows, ivs[i])[k] = rows[ivs[i][1] + k]
    BY <2>1, SliceIs
  <2>3. \A k \in 1..count(i) : first(i) + k \in 1..Len(rows)
    BY <1>1, <2>1
  <2> QED
    BY <2>2, <2>3
<1>3. SlicesOf(rows, ivs) = FlattenSeq(parts)
  BY <1>1 DEF SlicesOf
<1> HIDE DEF slice
<1>4. parts \in Seq(Seq(R)) /\ Len(parts) = L /\ \A i \in 1..L : parts[i] = slice(i)
  BY <1>1, <1>2
<1> HIDE DEF parts
<1>5. \A i, j \in 1..L : i < j => first(i) + count(i) < first(j)
  OBVIOUS
<1> HIDE DEF first, count, L
<1>6. ASSUME NEW i \in 1..L, NEW j \in 1..L, NEW k \in 1..count(i), NEW l \in 1..count(j),
             slice(i)[k] = slice(j)[l]
      PROVE  i = j /\ k = l
  <2>1. /\ first(i) + k \in 1..Len(rows) /\ first(j) + l \in 1..Len(rows)
        /\ rows[first(i) + k] = rows[first(j) + l]
    BY <1>2, <1>6
  <2>2. first(i) + k = first(j) + l
    BY <2>1 DEF NoneTwice
  <2>3. first(i) \in Nat /\ count(i) \in Nat /\ first(j) \in Nat /\ count(j) \in Nat /\ i \in Nat /\ j \in Nat
    BY <1>1
  <2>4. ~(i < j)
    BY <1>5, <2>2, <2>3
  <2>5. ~(j < i)
    BY <1>5, <2>2, <2>3
  <2>6. i = j
    BY <2>3, <2>4, <2>5
  <2> QED
    BY <2>2, <2>3, <2>6
<1>7. AllDifferent(parts)
  BY <1>2, <1>4, <1>6 DEF AllDifferent
<1>8. FlattenSeq(parts) \in Seq(R) /\ ListsOnce(FlattenSeq(parts), parts, L)
  BY <1>4, <1>7, FlattenIs
<1>9. ASSUME NEW i \in 1..L, NEW p \in 1..Len(rows), first(i) < p, p <= first(i) + count(i)
      PROVE  \E m \in 1..Len(FlattenSeq(parts)) : FlattenSeq(parts)[m] = rows[p]
  <2>1. first(i) \in Nat /\ count(i) \in Nat /\ p \in Nat
    BY <1>1
  <2>2. p - first(i) \in 1..count(i) /\ first(i) + (p - first(i)) = p
    BY <1>9, <2>1
  <2>3. p - first(i) \in 1..Len(parts[i]) /\ parts[i][p - first(i)] = rows[p]
    BY <1>2, <1>4, <2>2
  <2>4. \A j \in 1..L : \A k \in 1..Len(parts[j]) :
          \E m \in 1..Len(FlattenSeq(parts)) : FlattenSeq(parts)[m] = parts[j][k]
    BY <1>8 DEF ListsOnce
  <2>5. \E m \in 1..Len(FlattenSeq(parts)) : FlattenSeq(parts)[m] = parts[i][p - first(i)]
    BY <2>3, <2>4
  <2> QED
    BY <2>3, <2>5
<1>10. NoneTwice(FlattenSeq(parts))
  BY <1>8 DEF ListsOnce, NoneTwice
<1> QED
  BY <1>3, <1>8, <1>9, <1>10 DEF first, count, L

\* The strings of finitely many terms are finitely many.
LEMMA StringsFinite ==
  ASSUME NEW terms, IsFiniteSet(terms)
  PROVE  IsFiniteSet(StringsOf(terms))
<1> DEFINE T == StringsOf(terms)
           f == [t \in terms |-> t.n]
<1>1. f \in Surjection(terms, T)
  BY DEF Surjection, StringsOf
<1> QED
  BY <1>1, FS_Surjection

\* The numbers of a column of rows.
Numbers(rows, i) == [k \in DOMAIN rows |-> rows[k][i].n]

\* Looking up terms in a sorted column reads every row with one of them, and
\* no row twice; if there is such a row, the table is not taken to be empty.
LEMMA LookedIs ==
  ASSUME NEW R, NEW rows \in Seq(R), NoneTwice(rows), NEW i, Column(Numbers(rows, i)),
         NEW terms, IsFiniteSet(terms), \A t \in terms : t.n \in Nat,
         NEW read, read = Looked(rows, i, terms)
  PROVE  /\ read.rows \in Seq(R)
         /\ NoneTwice(read.rows)
         /\ \A k \in 1..Len(rows) : rows[k][i] \in terms =>
              (\E m \in 1..Len(read.rows) : read.rows[m] = rows[k]) /\ read.h > 0
<1> DEFINE col == Numbers(rows, i)
           S == StringsOf(terms)
           H == Len(rows)
           ivs == LookupOffsets(S, CreateSparseIndex(col), Len(col))
           slices == SlicesOf(rows, ivs)
<1>1. DOMAIN rows = 1..H /\ H \in Nat
  OBVIOUS
<1>2. Len(col) = H /\ \A k \in 1..H : col[k] = rows[k][i].n
  <2>1. DOMAIN col = 1..H /\ \A k \in 1..H : col[k] = rows[k][i].n
    BY <1>1 DEF Numbers
  <2>2. col \in Seq(Strings)
    BY DEF Column
  <2> HIDE DEF col
  <2>3. Len(col) \in Nat /\ DOMAIN col = 1..Len(col)
    BY <2>2
  <2>4. Len(col) = H
    BY <1>1, <2>1, <2>3
  <2> QED
    BY <2>1, <2>4
<1>3. S \in SUBSET Nat /\ IsFiniteSet(S)
  BY StringsFinite DEF StringsOf
<1>4. read = [rows |-> slices, h |-> HeightOf(ivs)]
  BY DEF Looked, LookedIn, Offsets, Numbers
<1> HIDE DEF col
<1>5. /\ ivs \in Seq(Interval)
      /\ \A j \in 1..Len(ivs) : ivs[j][2] > 0 /\ ivs[j][1] + ivs[j][2] <= H
      /\ \A j, k \in 1..Len(ivs) : j < k => ivs[j][1] + ivs[j][2] < ivs[k][1]
      /\ \A r \in 0..(H - 1) : RowAt(col, r) \in S =>
           \E j \in 1..Len(ivs) : ivs[j][1] <= r /\ r < ivs[j][1] + ivs[j][2]
  <2> HIDE DEF S
  <2>1. Column(col)
    BY DEF col
  <2> QED
    BY <1>2, <1>3, <2>1, LookupHolds
<1> HIDE DEF ivs
<1>6. /\ slices \in Seq(R)
      /\ NoneTwice(slices)
      /\ \A j \in 1..Len(ivs) : \A p \in 1..H :
           ivs[j][1] < p /\ p <= ivs[j][1] + ivs[j][2] =>
             \E m \in 1..Len(slices) : slices[m] = rows[p]
  BY <1>5, SlicesAre
<1> HIDE DEF slices
<1>7. ASSUME NEW k \in 1..H, rows[k][i] \in terms
      PROVE  (\E m \in 1..Len(slices) : slices[m] = rows[k]) /\ HeightOf(ivs) > 0
  <2>1. k - 1 \in 0..(H - 1) /\ (k - 1) + 1 = k
    BY <1>1
  <2>2. RowAt(col, k - 1) \in S
    BY <1>2, <1>7, <2>1 DEF RowAt, StringsOf
  <2>3. PICK j \in 1..Len(ivs) : ivs[j][1] <= k - 1 /\ k - 1 < ivs[j][1] + ivs[j][2]
    BY <1>5, <2>1, <2>2
  <2>4. ivs[j] \in Interval
    BY <1>5
  <2>5. ivs[j][1] \in Nat /\ ivs[j][2] \in Nat
    BY <2>4 DEF Interval
  <2>6. ivs[j][1] < k /\ k <= ivs[j][1] + ivs[j][2]
    BY <2>1, <2>3, <2>5
  <2>7. ivs # <<>>
    BY <2>3
  <2>8. HeightOf(ivs) > 0
    BY <1>5, <2>7, HeightIs
  <2> QED
    BY <1>6, <2>6, <2>8
<1> QED
  BY <1>4, <1>6, <1>7

-----------------------------------------------------------------------------
(* One table.                                                              *)

\* Terms of a type; what can be indexed is a string.
TermsOf(ty) == {t \in [type : {ty}, n : Int] : CanIndex(ty) => t.n \in Strings}
\* The rows of a table of a pair of types.
TableRows(rows, st, ot) == IsFiniteSet(rows) /\ rows \in SUBSET (TermsOf(st) \X TermsOf(ot))

\* The column that a table is sorted by, and the other one.
Columns(i, j) == (i = 1 /\ j = 2) \/ (i = 2 /\ j = 1)

\* Two terms of a type with one number are one.
LEMMA TermIs ==
  ASSUME NEW ty, NEW s \in TermsOf(ty), NEW t \in TermsOf(ty)
  PROVE  /\ s.n \in Int /\ t.n \in Int
         /\ s.n = t.n => s = t
BY DEF TermsOf

\* Sorted by a column, and by the other among equals, a table has every row
\* once, and the numbers of the column ascend.
LEMMA SortedIs ==
  ASSUME NEW st, NEW ot, NEW rows, TableRows(rows, st, ot),
         NEW i, NEW j, Columns(i, j),
         NEW seq, seq = SortedBy(rows, i, j)
  PROVE  /\ seq \in Seq(rows)
         /\ Len(seq) = Cardinality(rows)
         /\ NoneTwice(seq)
         /\ \A r \in rows : \E k \in 1..Len(seq) : seq[k] = r
         /\ \A k, l \in 1..Len(seq) : k <= l => seq[k][i].n <= seq[l][i].n
<1> DEFINE before == {m \in rows \X rows : RowBefore(m[1], m[2], i, j)}
           n == Cardinality(rows)
           out == OrderedBy(rows, before)
<1>1. \A r \in rows : r = <<r[1], r[2]>> /\ r[1] \in TermsOf(st) /\ r[2] \in TermsOf(ot)
  BY DEF TableRows
<1>2. \A r \in rows : r[i].n \in Int /\ r[j].n \in Int
  BY <1>1, TermIs DEF Columns
<1>3. ASSUME NEW r \in rows, NEW s \in rows, r[i].n = s[i].n, r[j].n = s[j].n
      PROVE  r = s
  <2>1. r[1].n = s[1].n /\ r[2].n = s[2].n
    BY <1>3 DEF Columns
  <2>2. r[1] = s[1] /\ r[2] = s[2]
    BY <1>1, <2>1, TermIs
  <2> QED
    BY <1>1, <2>2
<1>4. \A r, s \in rows : <<r, s>> \in before <=> r[i].n < s[i].n \/ (r[i].n = s[i].n /\ r[j].n < s[j].n)
  BY DEF RowBefore
<1> HIDE DEF before
<1>5. Orders(before, rows)
  <2>1. \A r \in rows : <<r, r>> \notin before
    BY <1>2, <1>4
  <2>2. ASSUME NEW r \in rows, NEW s \in rows, NEW t \in rows, <<r, s>> \in before, <<s, t>> \in before
        PROVE  <<r, t>> \in before
    <3> DEFINE a1 == r[i].n
               a2 == r[j].n
               b1 == s[i].n
               b2 == s[j].n
               c1 == t[i].n
               c2 == t[j].n
    <3>1. a1 \in Int /\ a2 \in Int /\ b1 \in Int /\ b2 \in Int /\ c1 \in Int /\ c2 \in Int
      BY <1>2
    <3>2. (a1 < b1 \/ (a1 = b1 /\ a2 < b2)) /\ (b1 < c1 \/ (b1 = c1 /\ b2 < c2))
      BY <1>4, <2>2
    <3>3. <<r, t>> \in before <=> a1 < c1 \/ (a1 = c1 /\ a2 < c2)
      BY <1>4
    <3> HIDE DEF a1, a2, b1, b2, c1, c2
    <3> QED
      BY <3>1, <3>2, <3>3
  <2>3. ASSUME NEW r \in rows, NEW s \in rows, r # s
        PROVE  <<r, s>> \in before \/ <<s, r>> \in before
    <3>1. r[i].n # s[i].n \/ r[j].n # s[j].n
      BY <1>3, <2>3
    <3>2. r[i].n \in Int /\ r[j].n \in Int /\ s[i].n \in Int /\ s[j].n \in Int
      BY <1>2
    <3> QED
      BY <1>4, <3>1, <3>2
  <2> QED
    BY <2>1, <2>2, <2>3 DEF Orders
<1>6. /\ n \in Nat
      /\ out \in [1..n -> rows]
      /\ \A k, l \in 1..n : k < l => <<out[k], out[l]>> \in before
      /\ \A r \in rows : \E k \in 1..n : out[k] = r
  BY <1>5, OrderedByIs DEF TableRows
<1>7. seq = out
  BY DEF SortedBy, before
<1> HIDE DEF out, n
<1>8. out \in Seq(rows) /\ Len(out) = n
  BY <1>6
<1>9. ASSUME NEW k \in 1..n, NEW l \in 1..n, out[k] = out[l]
      PROVE  k = l
  <2>1. out[k] \in rows
    BY <1>6
  <2>2. <<out[k], out[k]>> \notin before
    BY <1>5, <2>1 DEF Orders
  <2>3. ~(k < l) /\ ~(l < k)
    BY <1>6, <1>9, <2>2
  <2> QED
    BY <2>3
<1>10. ASSUME NEW k \in 1..n, NEW l \in 1..n, k <= l
       PROVE  out[k][i].n <= out[l][i].n
  <2>1. out[k] \in rows /\ out[l] \in rows
    BY <1>6
  <2>2. out[k][i].n \in Int /\ out[l][i].n \in Int
    BY <1>2, <2>1
  <2>3. CASE k = l
    BY <2>2, <2>3
  <2>4. CASE k < l
    <3>1. <<out[k], out[l]>> \in before
      BY <1>6, <2>4
    <3>2. out[k][i].n < out[l][i].n \/ out[k][i].n = out[l][i].n
      BY <1>4, <2>1, <3>1
    <3> QED
      BY <2>2, <3>2
  <2> QED
    BY <1>10, <2>3, <2>4
<1> QED
  BY <1>6, <1>7, <1>8, <1>9, <1>10 DEF NoneTwice, n

\* What is known of terms of a type: nothing, or a finite set of them.
KnownOf(terms, ty) == terms.on \in BOOLEAN /\ IsFiniteSet(terms.set) /\ terms.set \in SUBSET TermsOf(ty)
\* A term is not known to be another.
May(terms, t) == terms.on => t \in terms.set
\* Every row of terms that may be is read, and then the table is not taken to
\* be empty.
Gives(read, rows, subjects, objects) ==
  \A r \in rows : May(subjects, r[1]) /\ May(objects, r[2]) =>
    (\E m \in 1..Len(read.rows) : read.rows[m] = r) /\ read.h > 0

\* The numbers of a sorted column of strings.
LEMMA NumbersAre ==
  ASSUME NEW st, NEW ot, NEW rows, TableRows(rows, st, ot), rows # {},
         NEW i, NEW j, Columns(i, j), i = 1 => CanIndex(st), i = 2 => CanIndex(ot)
  PROVE  Column(Numbers(SortedBy(rows, i, j), i))
<1>0. PICK seq : seq = SortedBy(rows, i, j)
  OBVIOUS
<1> DEFINE col == Numbers(seq, i)
           L == Len(seq)
<1>1. /\ seq \in Seq(rows) /\ L = Cardinality(rows)
      /\ \A k, l \in 1..L : k <= l => seq[k][i].n <= seq[l][i].n
  BY <1>0, SortedIs
<1>2. L \in Nat /\ L > 0
  <2>1. IsFiniteSet(rows)
    BY DEF TableRows
  <2> HIDE DEF L
  <2> QED
    BY <1>1, <2>1, FS_CardinalityType, FS_EmptySet
<1>3. DOMAIN seq = 1..L /\ \A k \in 1..L : seq[k] \in rows
  BY <1>1
<1>4. \A r \in rows : r[i].n \in Strings
  BY DEF TableRows, TermsOf, Columns
<1>5. col = [k \in 1..L |-> seq[k][i].n]
  BY <1>3 DEF Numbers
<1> HIDE DEF col
<1>6. col \in [1..L -> Strings]
  BY <1>3, <1>4, <1>5
<1>7. col \in Seq(Strings) /\ Len(col) = L
  BY <1>2, <1>6
<1>8. Sorted(col)
  BY <1>1, <1>5, <1>7 DEF Sorted
<1> QED
  BY <1>0, <1>2, <1>7, <1>8 DEF Column, col

\* A table looked up by one of its columns.
LEMMA ByColumnIs ==
  ASSUME NEW st, NEW ot, NEW rows, TableRows(rows, st, ot), rows # {},
         NEW i, NEW j, Columns(i, j), i = 1 => CanIndex(st), i = 2 => CanIndex(ot),
         NEW terms, IsFiniteSet(terms), \A t \in terms : t.n \in Nat,
         NEW read, read = Looked(SortedBy(rows, i, j), i, terms)
  PROVE  /\ read.rows \in Seq(rows)
         /\ NoneTwice(read.rows)
         /\ \A r \in rows : r[i] \in terms =>
              (\E m \in 1..Len(read.rows) : read.rows[m] = r) /\ read.h > 0
<1>0. PICK seq : seq = SortedBy(rows, i, j)
  OBVIOUS
<1>1. /\ seq \in Seq(rows) /\ NoneTwice(seq)
      /\ \A r \in rows : \E k \in 1..Len(seq) : seq[k] = r
  BY <1>0, SortedIs
<1>2. Column(Numbers(seq, i))
  BY <1>0, NumbersAre
<1>3. read = Looked(seq, i, terms)
  BY <1>0
<1>4. /\ read.rows \in Seq(rows)
      /\ NoneTwice(read.rows)
      /\ \A k \in 1..Len(seq) : seq[k][i] \in terms =>
           (\E m \in 1..Len(read.rows) : read.rows[m] = seq[k]) /\ read.h > 0
  BY <1>1, <1>2, <1>3, LookedIs
<1>5. ASSUME NEW r \in rows, r[i] \in terms
      PROVE  (\E m \in 1..Len(read.rows) : read.rows[m] = r) /\ read.h > 0
  <2>1. PICK k \in 1..Len(seq) : seq[k] = r
    BY <1>1
  <2> QED
    BY <1>4, <1>5, <2>1
<1> QED
  BY <1>4, <1>5

\* Rows of a table read by what is known of subjects or of objects: each at
\* most once, and none that may match is left out.
LEMMA LazyFramesIs ==
  ASSUME NEW st, NEW ot, NEW rows, TableRows(rows, st, ot), rows # {}, CanIndex(st), NEW pred,
         NEW subjects, KnownOf(subjects, st), NEW objects, KnownOf(objects, ot),
         NEW read, read = LazyFrames(pred, ot, rows, subjects, objects)
  PROVE  /\ read.rows \in Seq(rows)
         /\ NoneTwice(read.rows)
         /\ Gives(read, rows, subjects, objects)
<1> DEFINE useObjects == ~subjects.on /\ objects.on /\ CanAndShouldIndexObject(ot, pred)
<1>1. /\ IsFiniteSet(subjects.set) /\ \A t \in subjects.set : t.n \in Nat
      /\ CanIndex(ot) => IsFiniteSet(objects.set) /\ \A t \in objects.set : t.n \in Nat
  BY StringsAssumption DEF KnownOf, TermsOf
<1>2. CASE subjects.on
  <2>1. read = Looked(SortedBy(rows, 1, 2), 1, subjects.set)
    BY <1>2 DEF LazyFrames, SortedRows
  <2>2. /\ read.rows \in Seq(rows)
        /\ NoneTwice(read.rows)
        /\ \A r \in rows : r[1] \in subjects.set =>
             (\E m \in 1..Len(read.rows) : read.rows[m] = r) /\ read.h > 0
    BY <1>1, <2>1, ByColumnIs DEF Columns
  <2> QED
    BY <1>2, <2>2 DEF May, Gives
<1>3. CASE ~subjects.on /\ useObjects
  <2>1. read = Looked(SortedBy(rows, 2, 1), 2, objects.set) /\ CanIndex(ot)
    BY <1>3 DEF LazyFrames, ObjectRows, CanAndShouldIndexObject
  <2>2. /\ read.rows \in Seq(rows)
        /\ NoneTwice(read.rows)
        /\ \A r \in rows : r[2] \in objects.set =>
             (\E m \in 1..Len(read.rows) : read.rows[m] = r) /\ read.h > 0
    BY <1>1, <2>1, ByColumnIs DEF Columns
  <2> QED
    BY <1>3, <2>2 DEF May, Gives
<1>4. CASE ~subjects.on /\ ~useObjects
  <2>0. PICK seq : seq = SortedBy(rows, 1, 2)
    OBVIOUS
  <2>4. Columns(1, 2)
    BY DEF Columns
  <2>1. read = [rows |-> seq, h |-> Cardinality(rows)]
    BY <1>4, <2>0 DEF LazyFrames, SortedRows
  <2>2. /\ seq \in Seq(rows) /\ NoneTwice(seq)
        /\ \A r \in rows : \E k \in 1..Len(seq) : seq[k] = r
    BY <2>0, <2>4, SortedIs
  <2>3. Cardinality(rows) > 0
    BY FS_CardinalityType, FS_EmptySet DEF TableRows
  <2> QED
    BY <2>1, <2>2, <2>3 DEF Gives
<1> QED
  BY <1>2, <1>3, <1>4

\* The rows at the positions kept are the rows that are kept.
LEMMA PickedIs ==
  ASSUME NEW R, NEW rows \in Seq(R), NoneTwice(rows), NEW kept \in SUBSET (1..Len(rows))
  PROVE  /\ Picked(rows, kept) \in Seq(R)
         /\ NoneTwice(Picked(rows, kept))
         /\ \A m \in 1..Len(Picked(rows, kept)) : \E k \in kept : Picked(rows, kept)[m] = rows[k]
         /\ \A k \in kept : \E m \in 1..Len(Picked(rows, kept)) : Picked(rows, kept)[m] = rows[k]
<1> DEFINE at == Ascending(kept)
           n == Cardinality(kept)
           out == [k \in 1..n |-> rows[at[k]]]
<1>1. Len(rows) \in Nat /\ kept \in SUBSET Nat /\ IsFiniteSet(kept)
  <2>1. Len(rows) \in Nat
    OBVIOUS
  <2>2. IsFiniteSet(1..Len(rows))
    BY <2>1, FS_Interval
  <2>3. IsFiniteSet(kept)
    BY <2>2, FS_Subset
  <2> QED
    BY <2>1, <2>3
<1>2. /\ n \in Nat
      /\ \A k \in 1..n : at[k] \in kept
      /\ \A j, k \in 1..n : j < k => at[j] < at[k]
      /\ \A s \in kept : \E k \in 1..n : at[k] = s
      /\ DOMAIN at = 1..n
  BY <1>1, AscendingIs
<1>3. Picked(rows, kept) = out
  BY <1>2 DEF Picked
<1> HIDE DEF at, n
<1>4. \A k \in 1..n : rows[at[k]] \in R
  <2>1. \A k \in 1..n : at[k] \in 1..Len(rows)
    BY <1>2
  <2>2. \A k \in 1..Len(rows) : rows[k] \in R
    OBVIOUS
  <2> QED
    BY <2>1, <2>2
<1>5. out \in Seq(R) /\ Len(out) = n /\ \A k \in 1..n : out[k] = rows[at[k]]
  BY <1>2, <1>4
<1> HIDE DEF out
<1>6. ASSUME NEW k \in 1..n, NEW l \in 1..n, out[k] = out[l]
      PROVE  k = l
  <2>1. at[k] \in 1..Len(rows) /\ at[l] \in 1..Len(rows) /\ rows[at[k]] = rows[at[l]]
    BY <1>2, <1>5, <1>6
  <2>2. at[k] = at[l] /\ at[k] \in Nat
    BY <1>1, <2>1 DEF NoneTwice
  <2>3. ~(k < l) /\ ~(l < k)
    BY <1>2, <2>2
  <2> QED
    BY <2>3
<1>7. \A m \in 1..n : \E k \in kept : out[m] = rows[k]
  BY <1>2, <1>5
<1>8. \A k \in kept : \E m \in 1..n : out[m] = rows[k]
  BY <1>2, <1>5
<1> QED
  BY <1>3, <1>5, <1>6, <1>7, <1>8 DEF NoneTwice

\* What is read of one table: rows that pass, each at most once, and all that
\* may match.
LEMMA SingleTriplesIs ==
  ASSUME NEW st, NEW ot, NEW rows, TableRows(rows, st, ot), rows # {}, CanIndex(st), NEW pred,
         NEW subjects, KnownOf(subjects, st), NEW objects, KnownOf(objects, ot),
         NEW read, read = SingleTriples(pred, ot, rows, subjects, objects)
  PROVE  /\ read.rows \in Seq(rows)
         /\ NoneTwice(read.rows)
         /\ \A m \in 1..Len(read.rows) : Passes(subjects, read.rows[m][1]) /\ Passes(objects, read.rows[m][2])
         /\ Gives(read, rows, subjects, objects)
<1> DEFINE all == LazyFrames(pred, ot, rows, subjects, objects)
           kept == {k \in DOMAIN all.rows : Passes(subjects, all.rows[k][1]) /\ Passes(objects, all.rows[k][2])}
<1>1. read = [rows |-> Picked(all.rows, kept), h |-> all.h]
  BY DEF SingleTriples
<1>2. /\ all.rows \in Seq(rows)
      /\ NoneTwice(all.rows)
      /\ Gives(all, rows, subjects, objects)
  BY LazyFramesIs
<1> HIDE DEF all
<1>3. DOMAIN all.rows = 1..Len(all.rows)
  BY <1>2
<1>4. kept \in SUBSET (1..Len(all.rows))
  BY <1>3
<1>5. \A k \in kept : Passes(subjects, all.rows[k][1]) /\ Passes(objects, all.rows[k][2])
  OBVIOUS
<1>6. ASSUME NEW r \in rows, May(subjects, r[1]), May(objects, r[2])
      PROVE  (\E k \in kept : all.rows[k] = r) /\ all.h > 0
  <2>1. PICK m \in 1..Len(all.rows) : all.rows[m] = r
    BY <1>2, <1>6 DEF Gives
  <2>2. Passes(subjects, r[1]) /\ Passes(objects, r[2])
    BY <1>6 DEF Passes, May
  <2>3. m \in kept
    BY <1>3, <2>1, <2>2
  <2> QED
    BY <1>2, <1>6, <2>1, <2>3 DEF Gives
<1> HIDE DEF kept
<1> DEFINE out == Picked(all.rows, kept)
<1>7. /\ out \in Seq(rows)
      /\ NoneTwice(out)
      /\ \A m \in 1..Len(out) : \E k \in kept : out[m] = all.rows[k]
      /\ \A k \in kept : \E m \in 1..Len(out) : out[m] = all.rows[k]
  BY <1>2, <1>4, PickedIs
<1> HIDE DEF out
<1>8. \A m \in 1..Len(out) : Passes(subjects, out[m][1]) /\ Passes(objects, out[m][2])
  BY <1>5, <1>7
<1>9. \A r \in rows : May(subjects, r[1]) /\ May(objects, r[2]) =>
        (\E m \in 1..Len(out) : out[m] = r) /\ all.h > 0
  BY <1>6, <1>7
<1> QED
  BY <1>1, <1>7, <1>8, <1>9 DEF out, Gives

-----------------------------------------------------------------------------
(* The tables of a predicate.                                              *)

\* The triples of one of the maps of a graph: finitely many, of IRIs and blank
\* nodes as subjects, both of them strings.
Stored(triples) ==
  /\ IsFiniteSet(triples)
  /\ \A t \in triples : /\ t = <<t[1], t[2], t[3]>>
                        /\ t[1] \in TermsOf(t[1].type) /\ CanIndex(t[1].type)
                        /\ t[3] \in TermsOf(t[3].type)
\* What is known of the terms at a place, of any type.
KnownTerms(terms) ==
  terms.on \in BOOLEAN /\ IsFiniteSet(terms.set) /\ \A t \in terms.set : t \in TermsOf(t.type)

\* The terms known of a type are known, and the value of a single one counts
\* as long as there is one left.
LEMMA FilterTermsIs ==
  ASSUME NEW terms, KnownTerms(terms), NEW ty
  PROVE  /\ KnownOf(FilterTerms(terms, ty), ty)
         /\ \A t : t.type = ty /\ May(terms, t) => May(FilterTerms(terms, ty), t) /\ ~NoneLeft(FilterTerms(terms, ty))
         /\ \A t : ~NoneLeft(FilterTerms(terms, ty)) /\ Passes(FilterTerms(terms, ty), t) => Passes(terms, t)
<1>1. CASE ~terms.on
  <2>1. FilterTerms(terms, ty) = [on |-> FALSE, set |-> {}]
    BY <1>1 DEF FilterTerms, All
  <2>2. IsFiniteSet({})
    BY FS_EmptySet
  <2> QED
    BY <1>1, <2>1, <2>2 DEF KnownOf, May, NoneLeft, Passes
<1>2. CASE terms.on
  <2> DEFINE left == {t \in terms.set : t.type = ty}
  <2>1. FilterTerms(terms, ty) = [on |-> TRUE, set |-> left]
    BY <1>2 DEF FilterTerms, Only
  <2>2. IsFiniteSet(terms.set) /\ IsFiniteSet(left)
    BY FS_Subset DEF KnownTerms
  <2>3. left \in SUBSET TermsOf(ty)
    BY DEF KnownTerms
  <2>4. ASSUME NEW t, left # {}, Cardinality(left) = 1 => t \in left, Cardinality(terms.set) = 1
        PROVE  t \in terms.set
    <3>1. PICK x : terms.set = {x}
      BY <2>2, <2>4, FS_Singleton
    <3>2. left = {x}
      BY <2>4, <3>1
    <3>3. Cardinality(left) = 1
      BY <3>2, FS_Singleton
    <3> QED
      BY <2>4, <3>3
  <2>5. \A t : t.type = ty /\ t \in terms.set => t \in left
    OBVIOUS
  <2> HIDE DEF left
  <2>6. KnownOf(FilterTerms(terms, ty), ty)
    BY <2>1, <2>2, <2>3 DEF KnownOf
  <2>7. \A t : t.type = ty /\ May(terms, t) => May(FilterTerms(terms, ty), t) /\ ~NoneLeft(FilterTerms(terms, ty))
    BY <1>2, <2>1, <2>5 DEF May, NoneLeft
  <2>8. \A t : ~NoneLeft(FilterTerms(terms, ty)) /\ Passes(FilterTerms(terms, ty), t) => Passes(terms, t)
    BY <1>2, <2>1, <2>4 DEF NoneLeft, Passes
  <2> QED
    BY <2>6, <2>7, <2>8
<1> QED
  BY <1>1, <1>2 DEF KnownTerms

\* The rows of the table of a pair of types.
RowsAt(triples, ty) == {<<t[1], t[3]>> : t \in {u \in triples : TypePair(u) = ty}}

\* They are the rows of a table, and stand for the triples they were made of.
LEMMA RowsAtAre ==
  ASSUME NEW triples, Stored(triples), NEW u \in triples, NEW ty, ty = TypePair(u)
  PROVE  /\ TableRows(RowsAt(triples, ty), ty[1], ty[2]) /\ CanIndex(ty[1])
         /\ RowsAt(triples, ty) # {}
         /\ \A r \in RowsAt(triples, ty) : /\ r[1].type = ty[1] /\ r[2].type = ty[2]
                                           /\ \E t \in triples : t[1] = r[1] /\ t[3] = r[2]
<1> DEFINE part == {t \in triples : TypePair(t) = ty}
           rows == RowsAt(triples, ty)
           f == [t \in part |-> <<t[1], t[3]>>]
<1>1. rows = {<<t[1], t[3]>> : t \in part}
  BY DEF RowsAt
<1> HIDE DEF rows
<1>2. IsFiniteSet(part)
  BY FS_Subset DEF Stored
<1>3. IsFiniteSet(rows)
  <2>1. f \in Surjection(part, rows)
    BY <1>1 DEF Surjection
  <2> QED
    BY <1>2, <2>1, FS_Surjection
<1>4. ASSUME NEW t \in part
      PROVE  /\ t \in triples /\ t[1].type = ty[1] /\ t[3].type = ty[2]
             /\ t[1] \in TermsOf(ty[1]) /\ t[3] \in TermsOf(ty[2]) /\ CanIndex(ty[1])
  <2>1. t \in triples /\ TypePair(t) = ty
    OBVIOUS
  <2>2. t[1].type = ty[1] /\ t[3].type = ty[2]
    BY <2>1 DEF TypePair
  <2> QED
    BY <2>1, <2>2 DEF Stored
<1>5. u \in part
  OBVIOUS
<1> HIDE DEF part
<1>6. \A r \in rows : \E t \in part : r = <<t[1], t[3]>>
  BY <1>1
<1>7. rows \in SUBSET (TermsOf(ty[1]) \X TermsOf(ty[2]))
  BY <1>4, <1>6
<1>8. \A r \in rows : /\ r[1].type = ty[1] /\ r[2].type = ty[2]
                      /\ \E t \in triples : t[1] = r[1] /\ t[3] = r[2]
  BY <1>4, <1>6
<1>9. rows # {} /\ CanIndex(ty[1])
  BY <1>1, <1>4, <1>5
<1> QED
  BY <1>3, <1>7, <1>8, <1>9 DEF TableRows, rows

\* What is read of the table of a pair of types.
LEMMA ReadTableIs ==
  ASSUME NEW triples, Stored(triples), NEW pred, NEW u \in triples, NEW ty, ty = TypePair(u),
         NEW st, st = ty[1], NEW ot, ot = ty[2],
         NEW subjects, KnownTerms(subjects), NEW objects, KnownTerms(objects),
         ~NoneLeft(FilterTerms(subjects, st)), ~NoneLeft(FilterTerms(objects, ot)),
         NEW tab, tab = ReadTable(triples, pred, ty, subjects, objects)
  PROVE  /\ tab.pred = pred /\ tab.st = st /\ tab.ot = ot
         /\ tab.rows \in Seq(RowsAt(triples, ty))
         /\ NoneTwice(tab.rows)
         /\ \A m \in 1..Len(tab.rows) : Passes(subjects, tab.rows[m][1]) /\ Passes(objects, tab.rows[m][2])
         /\ Gives(tab, RowsAt(triples, ty), subjects, objects)
<1> DEFINE rows == RowsAt(triples, ty)
           ss == FilterTerms(subjects, st)
           os == FilterTerms(objects, ot)
<1>1. PICK read : read = SingleTriples(pred, ot, rows, ss, os)
  OBVIOUS
<1>2. tab = [pred |-> pred, st |-> st, ot |-> ot, rows |-> read.rows, h |-> read.h]
  BY <1>1 DEF ReadTable, RowsAt
<1>3. TableRows(rows, st, ot) /\ CanIndex(st) /\ rows # {}
  BY RowsAtAre
<1>4. \A r \in rows : r[1].type = st /\ r[2].type = ot
  BY RowsAtAre
<1>5. /\ KnownOf(ss, st)
      /\ \A t : t.type = st /\ May(subjects, t) => May(ss, t)
      /\ \A t : Passes(ss, t) => Passes(subjects, t)
  BY FilterTermsIs
<1>6. /\ KnownOf(os, ot)
      /\ \A t : t.type = ot /\ May(objects, t) => May(os, t)
      /\ \A t : Passes(os, t) => Passes(objects, t)
  BY FilterTermsIs
<1>8. KnownOf(ss, st) /\ KnownOf(os, ot)
  BY <1>5, <1>6
<1> HIDE DEF rows, ss, os
<1>7. /\ read.rows \in Seq(rows)
      /\ NoneTwice(read.rows)
      /\ \A m \in 1..Len(read.rows) : Passes(ss, read.rows[m][1]) /\ Passes(os, read.rows[m][2])
      /\ Gives(read, rows, ss, os)
  BY <1>1, <1>3, <1>8, SingleTriplesIs
<1>9. Gives(tab, rows, subjects, objects)
  BY <1>2, <1>4, <1>5, <1>6, <1>7 DEF Gives
<1>10. /\ tab.pred = pred /\ tab.st = st /\ tab.ot = ot /\ tab.rows = read.rows
  BY <1>2
<1> QED
  BY <1>5, <1>6, <1>7, <1>9, <1>10 DEF rows

\* The triple that a row of a table stands for.
TripleAt(tab, m) == <<tab.rows[m][1], tab.pred, tab.rows[m][2]>>

\* A triple of the predicate that nothing known speaks against.
Matches(t, pred, subjects, objects, sTypes, oTypes) ==
  /\ t[2] = pred /\ May(subjects, t[1]) /\ May(objects, t[3])
  /\ May(sTypes, t[1].type) /\ May(oTypes, t[3].type)

\* Every triple that matches is read.
ReadsAll(tables, triples, pred, subjects, objects, sTypes, oTypes) ==
  \A t \in triples : Matches(t, pred, subjects, objects, sTypes, oTypes) =>
    \E tab \in tables : \E m \in 1..Len(tab.rows) : TripleAt(tab, m) = t
\* What is read are triples of the predicate, of the types that the table is
\* said to have and that are asked for, and with the value of a single subject
\* or object that is known.
ReadsOnly(tables, triples, pred, subjects, objects, sTypes, oTypes) ==
  \A tab \in tables : \A m \in 1..Len(tab.rows) :
    /\ TripleAt(tab, m) \in triples /\ tab.pred = pred
    /\ tab.st = tab.rows[m][1].type /\ tab.ot = tab.rows[m][2].type
    /\ May(sTypes, tab.st) /\ May(oTypes, tab.ot)
    /\ Passes(subjects, tab.rows[m][1]) /\ Passes(objects, tab.rows[m][2])
\* No triple is read twice.
ReadsOnce(tables) ==
  \A tab, other \in tables : \A l \in 1..Len(tab.rows), m \in 1..Len(other.rows) :
    TripleAt(tab, l) = TripleAt(other, m) => tab = other /\ l = m

\* The tables that are read of one of the maps of a graph.
LEMMA MultipleTablesAre ==
  ASSUME NEW triples, Stored(triples), NEW pred,
         NEW subjects, KnownTerms(subjects), NEW objects, KnownTerms(objects), NEW sTypes, NEW oTypes,
         NEW tables, tables = MultipleTables(triples, pred, subjects, objects, sTypes, oTypes)
  PROVE  /\ ReadsAll(tables, triples, pred, subjects, objects, sTypes, oTypes)
         /\ ReadsOnly(tables, triples, pred, subjects, objects, sTypes, oTypes)
         /\ ReadsOnce(tables)
<1> DEFINE of == {t \in triples : t[2] = pred}
           pairs == {TypePair(t) : t \in of}
           types == AllCompatibleTypes(pairs, sTypes, oTypes)
           used == {ty \in types : ~NoneLeft(FilterTerms(subjects, ty[1])) /\ ~NoneLeft(FilterTerms(objects, ty[2]))}
           read(ty) == ReadTable(of, pred, ty, subjects, objects)
<1>1. tables = {tab \in {read(ty) : ty \in used} : tab.h > 0}
  BY DEF MultipleTables
<1>2. Stored(of)
  <2>1. IsFiniteSet(of)
    BY FS_Subset DEF Stored
  <2> QED
    BY <2>1 DEF Stored
<1>3. ASSUME NEW ty \in used
      PROVE  /\ \E u \in of : ty = TypePair(u)
             /\ ~NoneLeft(FilterTerms(subjects, ty[1])) /\ ~NoneLeft(FilterTerms(objects, ty[2]))
             /\ May(sTypes, ty[1]) /\ May(oTypes, ty[2])
  BY DEF AllCompatibleTypes, May
<1>4. ASSUME NEW t \in of, May(sTypes, t[1].type), May(oTypes, t[3].type),
             May(subjects, t[1]), May(objects, t[3])
      PROVE  TypePair(t) \in used
  <2>1. TypePair(t)[1] = t[1].type /\ TypePair(t)[2] = t[3].type /\ TypePair(t) \in pairs
    BY DEF TypePair
  <2>2. ~NoneLeft(FilterTerms(subjects, t[1].type)) /\ ~NoneLeft(FilterTerms(objects, t[3].type))
    BY <1>4, FilterTermsIs
  <2>3. TypePair(t) \in types
    BY <1>4, <2>1 DEF AllCompatibleTypes, May
  <2> QED
    BY <2>1, <2>2, <2>3
<1>5. \A t \in of : t \in triples /\ t[2] = pred /\ t = <<t[1], t[2], t[3]>>
  BY DEF Stored
<1> HIDE DEF used, read
<1>6. ASSUME NEW ty \in used
      PROVE  /\ read(ty).pred = pred /\ read(ty).st = ty[1] /\ read(ty).ot = ty[2]
             /\ read(ty).rows \in Seq(RowsAt(of, ty))
             /\ NoneTwice(read(ty).rows)
             /\ \A m \in 1..Len(read(ty).rows) : /\ Passes(subjects, read(ty).rows[m][1])
                                                 /\ Passes(objects, read(ty).rows[m][2])
             /\ Gives(read(ty), RowsAt(of, ty), subjects, objects)
             /\ \A r \in RowsAt(of, ty) : /\ r[1].type = ty[1] /\ r[2].type = ty[2]
                                          /\ \E t \in of : t[1] = r[1] /\ t[3] = r[2]
  <2>1. PICK u \in of : ty = TypePair(u)
    BY <1>3
  <2>2. PICK tab : tab = ReadTable(of, pred, ty, subjects, objects)
    OBVIOUS
  <2>3. read(ty) = tab
    BY <2>2 DEF read
  <2> HIDE DEF of
  <2>7. PICK st : st = ty[1]
    OBVIOUS
  <2>8. PICK ot : ot = ty[2]
    OBVIOUS
  <2>4. ~NoneLeft(FilterTerms(subjects, st)) /\ ~NoneLeft(FilterTerms(objects, ot))
    BY <1>3, <2>7, <2>8
  <2>5. /\ tab.pred = pred /\ tab.st = st /\ tab.ot = ot
        /\ tab.rows \in Seq(RowsAt(of, ty))
        /\ NoneTwice(tab.rows)
        /\ \A m \in 1..Len(tab.rows) : Passes(subjects, tab.rows[m][1]) /\ Passes(objects, tab.rows[m][2])
        /\ Gives(tab, RowsAt(of, ty), subjects, objects)
    BY <1>2, <2>1, <2>2, <2>4, <2>7, <2>8, ReadTableIs
  <2>6. \A r \in RowsAt(of, ty) : /\ r[1].type = ty[1] /\ r[2].type = ty[2]
                                  /\ \E t \in of : t[1] = r[1] /\ t[3] = r[2]
    BY <1>2, <2>1, RowsAtAre
  <2> QED
    BY <2>3, <2>5, <2>6, <2>7, <2>8
<1>7. ASSUME NEW ty \in used, NEW m \in 1..Len(read(ty).rows)
      PROVE  /\ read(ty).rows[m] \in RowsAt(of, ty)
             /\ read(ty).rows[m] = <<read(ty).rows[m][1], read(ty).rows[m][2]>>
             /\ read(ty).rows[m][1].type = ty[1] /\ read(ty).rows[m][2].type = ty[2]
             /\ TripleAt(read(ty), m) \in triples
  <2>1. read(ty).rows[m] \in RowsAt(of, ty)
    BY <1>6
  <2> DEFINE r == read(ty).rows[m]
  <2>2. r[1].type = ty[1] /\ r[2].type = ty[2] /\ \E t \in of : t[1] = r[1] /\ t[3] = r[2]
    BY <1>6, <2>1
  <2>3. r = <<r[1], r[2]>>
    BY <2>1 DEF RowsAt
  <2>4. TripleAt(read(ty), m) = <<r[1], pred, r[2]>>
    BY <1>6 DEF TripleAt
  <2> HIDE DEF r, of
  <2>5. <<r[1], pred, r[2]>> \in triples
    BY <1>5, <2>2
  <2> QED
    BY <2>1, <2>2, <2>3, <2>4, <2>5 DEF r
<1>8. ReadsAll(tables, triples, pred, subjects, objects, sTypes, oTypes)
  <2> SUFFICES ASSUME NEW t \in triples, Matches(t, pred, subjects, objects, sTypes, oTypes)
               PROVE  \E tab \in tables : \E m \in 1..Len(tab.rows) : TripleAt(tab, m) = t
    BY DEF ReadsAll
  <2> DEFINE ty == TypePair(t)
             r == <<t[1], t[3]>>
  <2>1. /\ t \in of /\ May(subjects, t[1]) /\ May(objects, t[3])
        /\ May(sTypes, t[1].type) /\ May(oTypes, t[3].type)
    BY DEF Matches
  <2>2. ty \in used
    BY <1>4, <2>1
  <2>3. r \in RowsAt(of, ty) /\ r[1] = t[1] /\ r[2] = t[3]
    BY <2>1 DEF RowsAt
  <2> HIDE DEF ty, r, of
  <2>4. (\E m \in 1..Len(read(ty).rows) : read(ty).rows[m] = r) /\ read(ty).h > 0
    BY <1>6, <2>1, <2>2, <2>3 DEF Gives
  <2>5. PICK m \in 1..Len(read(ty).rows) : read(ty).rows[m] = r
    BY <2>4
  <2>6. read(ty) \in tables
    BY <1>1, <2>2, <2>4
  <2>7. TripleAt(read(ty), m) = <<t[1], pred, t[3]>>
    BY <1>6, <2>2, <2>3, <2>5 DEF TripleAt
  <2>8. t = <<t[1], pred, t[3]>>
    BY <1>5, <2>1
  <2> QED
    BY <2>5, <2>6, <2>7, <2>8
<1>9. \A tab \in tables : \E ty \in used : tab = read(ty)
  BY <1>1
<1> HIDE DEF of
<1>10. ReadsOnly(tables, triples, pred, subjects, objects, sTypes, oTypes)
  <2> SUFFICES ASSUME NEW tab \in tables, NEW m \in 1..Len(tab.rows)
               PROVE  /\ TripleAt(tab, m) \in triples /\ tab.pred = pred
                      /\ tab.st = tab.rows[m][1].type /\ tab.ot = tab.rows[m][2].type
                      /\ May(sTypes, tab.st) /\ May(oTypes, tab.ot)
                      /\ Passes(subjects, tab.rows[m][1]) /\ Passes(objects, tab.rows[m][2])
    BY DEF ReadsOnly
  <2>1. PICK ty \in used : tab = read(ty)
    BY <1>9
  <2> QED
    BY <1>3, <1>6, <1>7, <2>1
<1>11. ReadsOnce(tables)
  <2> SUFFICES ASSUME NEW tab \in tables, NEW other \in tables,
                      NEW l \in 1..Len(tab.rows), NEW m \in 1..Len(other.rows),
                      TripleAt(tab, l) = TripleAt(other, m)
               PROVE  tab = other /\ l = m
    BY DEF ReadsOnce
  <2>1. PICK ty \in used : tab = read(ty)
    BY <1>9
  <2>2. PICK tz \in used : other = read(tz)
    BY <1>9
  <2>3. tab.rows[l][1] = other.rows[m][1] /\ tab.rows[l][2] = other.rows[m][2]
    BY DEF TripleAt
  <2>8. tab.rows[l] = <<tab.rows[l][1], tab.rows[l][2]>> /\ other.rows[m] = <<other.rows[m][1], other.rows[m][2]>>
    BY <1>7, <2>1, <2>2
  <2>4. tab.rows[l] = other.rows[m]
    BY <2>3, <2>8
  <2>5. ty[1] = tz[1] /\ ty[2] = tz[2]
    BY <1>7, <2>1, <2>2, <2>4
  <2>6. ty = <<ty[1], ty[2]>> /\ tz = <<tz[1], tz[2]>>
    BY <1>3 DEF TypePair
  <2>7. tab = other
    BY <2>1, <2>2, <2>5, <2>6
  <2>9. NoneTwice(tab.rows)
    BY <1>6, <2>1
  <2>10. m \in 1..Len(tab.rows) /\ tab.rows[l] = tab.rows[m]
    BY <2>4, <2>7
  <2> QED
    BY <2>7, <2>9, <2>10 DEF NoneTwice
<1> QED
  BY <1>8, <1>10, <1>11

\* Whatever is known of the terms of a pattern, and however the triples of its
\* predicate are laid out, asserted and transient ones: reading the predicate
\* (multiple_tables, get_lazy_frames, get_lookup_offsets) misses no triple that
\* matches, reads none twice, and reads nothing else but triples that only what
\* is known of several subjects or objects speaks against.
THEOREM ScanCorrect ==
  ASSUME NEW graph, Stored(graph.asserted), Stored(graph.transient), NEW pred,
         NEW subjects, KnownTerms(subjects), NEW objects, KnownTerms(objects), NEW sTypes, NEW oTypes,
         NEW tables, tables = PredicateTables(graph, pred, subjects, objects, sTypes, oTypes)
  PROVE  /\ ReadsAll(tables.asserted, graph.asserted, pred, subjects, objects, sTypes, oTypes)
         /\ ReadsOnly(tables.asserted, graph.asserted, pred, subjects, objects, sTypes, oTypes)
         /\ ReadsOnce(tables.asserted)
         /\ ReadsAll(tables.transient, graph.transient, pred, subjects, objects, sTypes, oTypes)
         /\ ReadsOnly(tables.transient, graph.transient, pred, subjects, objects, sTypes, oTypes)
         /\ ReadsOnce(tables.transient)
<1>1. /\ tables.asserted = MultipleTables(graph.asserted, pred, subjects, objects, sTypes, oTypes)
      /\ tables.transient = MultipleTables(graph.transient, pred, subjects, objects, sTypes, oTypes)
  BY DEF PredicateTables
<1> QED
  BY <1>1, MultipleTablesAre

-----------------------------------------------------------------------------
(***************************************************************************)
(* Saving and loading, for any tables, categories and number of saves.     *)
(* The invariant says that the files of at most one save are on disk, that *)
(* a stage of a save leaves the files of the stages before it complete,    *)
(* and that the metadata of the encoders, the last file, is complete for   *)
(* the committed save only.                                                *)
(***************************************************************************)

Owned == \A f \in disk : f[1] \in 1..attempts /\ f \in FilesOf(f[1])
OneSave == \A f, g \in disk : f[1] = g[1]
OfThisSave == stage \in Writing => \A f \in disk : f[1] = attempts
StagesDone ==
  /\ stage \in {"tables", "cats", "cats_meta"} => FilesAt("meta", attempts) \subseteq Whole
  /\ stage \in {"cats", "cats_meta"} => FilesAt("tables", attempts) \subseteq Whole
  /\ stage = "cats_meta" => FilesAt("cats", attempts) \subseteq Whole
LastFile == \A k \in Save : CatsMeta(k) \in Whole => k = committed
Committed ==
  committed = attempts /\ attempts \in Save =>
    FilesOf(attempts) \subseteq Whole /\ stage \in {"idle", "cats_meta"}

Types ==
  /\ memory \subseteq Table
  /\ attempts \in 0..MaxSaves
  /\ committed \in 0..attempts
  /\ saved \in [Save -> SUBSET Table]
  /\ stage \in Stage
  /\ stage # "idle" => attempts \in Save
  /\ torn \subseteq disk

SaveInv == Types /\ Owned /\ OneSave /\ OfThisSave /\ StagesDone /\ LastFile /\ Committed

-----------------------------------------------------------------------------
(* The files of a save.                                                    *)

\* A file carries the number of its save and the kind of its stage.
LEMMA FileShape ==
  ASSUME NEW s \in Writing, NEW k, NEW f \in FilesAt(s, k)
  PROVE  /\ f[1] = k
         /\ s = "meta" => f = Meta(k)
         /\ s = "tables" => f[2] \in {"so", "so_index", "os", "os_index"}
         /\ s = "cats" => f[2] = "cat"
         /\ s = "cats_meta" => f = CatsMeta(k)
BY DEF FilesAt, Writing, NextStage, TableFiles, Meta, CatsMeta

\* The metadata of the encoders belongs to the last stage.
LEMMA CatsMetaShape ==
  ASSUME NEW s \in Writing, NEW k, NEW j, CatsMeta(j) \in FilesAt(s, k)
  PROVE  s = "cats_meta" /\ j = k
BY FileShape DEF CatsMeta, Meta, Writing, NextStage

\* The stages of a save.
LEMMA StageNames == Writing = {"meta", "tables", "cats", "cats_meta"}
BY DEF Writing, NextStage

\* Files of different stages are different.
LEMMA StagesDisjoint ==
  ASSUME NEW s \in Writing, NEW z \in Writing, NEW k, NEW f, f \in FilesAt(s, k), f \in FilesAt(z, k)
  PROVE  s = z
BY FileShape, StageNames DEF Meta, CatsMeta

-----------------------------------------------------------------------------
(* The invariant.                                                          *)

\* The folder is empty at first.
LEMMA SaveInitInv == SaveInit => SaveInv
BY SavesAssumption
DEF SaveInit, SaveInv, Types, Owned, OneSave, OfThisSave, StagesDone, LastFile, Committed, Stage,
    Writing, NextStage, Whole, Save

\* Steps that leave files, stage and saves alone.
LEMMA MemoryStep ==
  ASSUME SaveInv, memory' \subseteq Table, UNCHANGED <<disk, torn, stage, attempts, saved, committed>>
  PROVE  SaveInv'
BY DEF SaveInv, Types, Owned, OneSave, OfThisSave, StagesDone, LastFile, Committed, FilesOf, FilesAt,
       TableFiles, Whole

\* A save begins: no file of it is on disk yet.
LEMMA BeginStep ==
  ASSUME SaveInv, Begin
  PROVE  SaveInv'
<1> USE DEF SaveInv
<1>1. /\ attempts' = attempts + 1 /\ attempts' \in Save /\ stage' = "remove"
      /\ attempts \in Nat
  BY SavesAssumption DEF Begin, Types, Save
<1>2. Types'
  BY <1>1, SavesAssumption DEF Begin, Types, Save, Stage
<1>3. \A k \in 1..attempts : saved'[k] = saved[k]
  BY <1>1 DEF Begin, Types, Save
<1>4. \A k \in 1..attempts : FilesOf(k)' = FilesOf(k)
  BY <1>3 DEF FilesOf, FilesAt
<1>5. Owned'
  BY <1>1, <1>4 DEF Begin, Owned
<1>6. OneSave' /\ LastFile'
  BY DEF Begin, OneSave, LastFile, Whole
<1>7. OfThisSave' /\ StagesDone'
  BY <1>1, StageNames DEF OfThisSave, StagesDone, Writing, NextStage
<1>8. Committed'
  BY <1>1 DEF Begin, Types, Committed
<1> QED BY <1>2, <1>5, <1>6, <1>7, <1>8

\* A file of an earlier save is removed.
LEMMA RemoveStep ==
  ASSUME SaveInv, NEW f \in disk, RemoveFile(f)
  PROVE  SaveInv'
<1> USE DEF SaveInv
<1>1. disk' \subseteq disk /\ torn' \subseteq disk' /\ Whole' \subseteq Whole
  BY DEF RemoveFile, Types, Whole
<1>2. \A k : FilesOf(k)' = FilesOf(k)
  BY DEF RemoveFile, FilesOf, FilesAt
<1>3. Types' /\ Owned' /\ OneSave' /\ LastFile'
  BY <1>1, <1>2 DEF RemoveFile, Types, Owned, OneSave, LastFile
<1>4. OfThisSave' /\ StagesDone' /\ Committed'
  BY DEF RemoveFile, OfThisSave, StagesDone, Committed, Writing, NextStage
<1> QED BY <1>3, <1>4

\* Nothing is left of earlier saves.
LEMMA RemovedStep ==
  ASSUME SaveInv, Removed
  PROVE  SaveInv'
<1> USE DEF SaveInv
<1>1. disk = {} /\ disk' = {} /\ torn' = torn /\ stage' = "meta"
  BY DEF Removed
<1>2. Types'
  BY <1>1, StageNames DEF Removed, Types, Stage
<1>3. Owned' /\ OneSave' /\ OfThisSave' /\ StagesDone' /\ LastFile'
  BY <1>1 DEF Owned, OneSave, OfThisSave, StagesDone, LastFile, Whole
<1>4. Committed'
  BY DEF Removed, Committed
<1> QED BY <1>2, <1>3, <1>4

\* A file of the stage is created.
LEMMA CreateStep ==
  ASSUME SaveInv, NEW f \in FilesAt(stage, attempts), Create(f)
  PROVE  SaveInv'
<1> USE DEF SaveInv
<1>1. stage \in Writing
  BY DEF Types, Stage, FilesAt, Writing, NextStage
<1>2. f[1] = attempts /\ f \in FilesOf(attempts) /\ attempts \in Save
  BY <1>1, FileShape DEF FilesOf, Types, Stage, Writing, NextStage
<1>3. \A g \in disk : ~SamePath(f, g)
  <2> SUFFICES ASSUME NEW g \in disk, SamePath(f, g) PROVE FALSE
    OBVIOUS
  <2>1. g[1] = attempts /\ g \in FilesOf(attempts)
    BY <1>1 DEF OfThisSave, Owned
  <2>2. PICK z \in Writing : g \in FilesAt(z, attempts)
    BY <2>1 DEF FilesOf
  <2>3. f = g
    BY <1>1, <2>2, FileShape, StageNames DEF SamePath, Meta, CatsMeta
  <2> QED BY <2>3 DEF Create
<1>4. disk' = disk \cup {f} /\ torn' = torn \cup {f} /\ Whole' = Whole
  BY <1>3 DEF Create, Whole, Types
<1>5. Types'
  BY <1>4 DEF Create, Types
<1>6. \A k, s : FilesOf(k)' = FilesOf(k) /\ FilesAt(s, k)' = FilesAt(s, k)
  BY DEF Create, FilesOf, FilesAt
<1>7. Owned'
  BY <1>2, <1>4, <1>6 DEF Create, Owned, Save, Types
<1>8. OneSave' /\ OfThisSave'
  BY <1>1, <1>2, <1>4 DEF Create, OneSave, OfThisSave
<1>9. StagesDone' /\ LastFile' /\ Committed'
  BY <1>4, <1>6 DEF Create, StagesDone, LastFile, Committed
<1> QED BY <1>5, <1>7, <1>8, <1>9

\* A file of the stage is complete; the last one commits the save.
LEMMA CompleteStep ==
  ASSUME SaveInv, NEW f \in FilesAt(stage, attempts), Complete(f)
  PROVE  SaveInv'
<1> USE DEF SaveInv
<1>1. stage \in Writing /\ attempts \in Save
  BY DEF Types, Stage, FilesAt, Writing, NextStage
<1>2. f \in disk /\ disk' = disk /\ torn' = torn \ {f} /\ Whole' = Whole \cup {f}
  BY DEF Complete, Types, Whole
<1>3. Types'
  BY <1>1, <1>2 DEF Complete, Types, Save
<1>4. \A k, s : FilesOf(k)' = FilesOf(k) /\ FilesAt(s, k)' = FilesAt(s, k)
  BY DEF Complete, FilesOf, FilesAt
<1>5. Owned' /\ OneSave' /\ OfThisSave' /\ StagesDone'
  BY <1>2, <1>4 DEF Complete, Owned, OneSave, OfThisSave, StagesDone
<1>6. CASE stage = "cats_meta"
  <2>1. f = CatsMeta(attempts) /\ committed' = attempts /\ stage' = stage /\ attempts' = attempts
    BY <1>1, <1>6, FileShape DEF Complete
  <2>2. FilesOf(attempts) \subseteq Whole'
    <3> SUFFICES ASSUME NEW g \in FilesOf(attempts) PROVE g \in Whole'
      OBVIOUS
    <3>1. PICK z \in Writing : g \in FilesAt(z, attempts)
      BY DEF FilesOf
    <3>2. CASE z = "cats_meta"
      BY <1>1, <1>2, <2>1, <3>1, <3>2, FileShape
    <3>3. CASE z # "cats_meta"
      BY <1>2, <1>6, <3>1, <3>3, StageNames DEF StagesDone
    <3> QED BY <3>2, <3>3
  <2>3. LastFile'
    <3> SUFFICES ASSUME NEW k \in Save, CatsMeta(k) \in disk PROVE k = attempts
      BY <1>2, <2>1 DEF LastFile, Whole
    <3> QED BY <1>1 DEF OfThisSave, CatsMeta
  <2> QED BY <1>3, <1>4, <1>5, <1>6, <2>1, <2>2, <2>3 DEF Committed
<1>7. CASE stage # "cats_meta"
  <2>1. \A k \in Save : f # CatsMeta(k)
    BY <1>1, <1>7, CatsMetaShape
  <2> QED BY <1>2, <1>3, <1>4, <1>5, <1>7, <2>1 DEF Complete, LastFile, Committed
<1> QED BY <1>6, <1>7

\* A stage ends with its files complete.
LEMMA AdvanceStep ==
  ASSUME SaveInv, Advance
  PROVE  SaveInv'
<1> USE DEF SaveInv
<1>1. /\ stage = "meta" => stage' = "tables"
      /\ stage = "tables" => stage' = "cats"
      /\ stage = "cats" => stage' = "cats_meta"
      /\ stage = "cats_meta" => stage' = "idle"
  BY DEF Advance, NextStage
<1>2. stage \in {"meta", "tables", "cats", "cats_meta"} /\ FilesAt(stage, attempts) \subseteq Whole
  BY StageNames DEF Advance
<1>3. Types'
  BY <1>1, <1>2, StageNames DEF Advance, Types, Stage
<1>4. \A k, s : FilesOf(k)' = FilesOf(k) /\ FilesAt(s, k)' = FilesAt(s, k)
  BY DEF Advance, FilesOf, FilesAt
<1>5. Owned' /\ OneSave' /\ LastFile'
  BY <1>4 DEF Advance, Owned, OneSave, LastFile, Whole
<1>6. OfThisSave'
  BY <1>1, <1>2, StageNames DEF Advance, OfThisSave
<1>7. StagesDone'
  BY <1>1, <1>2, <1>4 DEF Advance, StagesDone, Whole
<1>8. Committed'
  BY <1>1, <1>2, <1>4 DEF Advance, Committed, Whole
<1> QED BY <1>3, <1>5, <1>6, <1>7, <1>8

\* Steps that end a save.
LEMMA EndStep ==
  ASSUME SaveInv, stage' = "idle", memory' \subseteq Table,
         UNCHANGED <<disk, torn, attempts, saved, committed>>
  PROVE  SaveInv'
<1> USE DEF SaveInv
<1>1. \A k, s : FilesOf(k)' = FilesOf(k) /\ FilesAt(s, k)' = FilesAt(s, k)
  BY DEF FilesOf, FilesAt
<1>2. Types' /\ Owned' /\ OneSave' /\ LastFile' /\ Committed'
  BY <1>1 DEF Types, Owned, OneSave, LastFile, Committed, Whole, Stage
<1>3. OfThisSave' /\ StagesDone'
  BY StageNames DEF OfThisSave, StagesDone
<1> QED BY <1>2, <1>3

\* Every step of every save, failure, crash and load keeps the invariant.
THEOREM SaveInvariant == SaveSpec => []SaveInv
<1>1. SaveInv /\ [SaveNext]_saveVars => SaveInv'
  <2> SUFFICES ASSUME SaveInv, [SaveNext]_saveVars PROVE SaveInv'
    OBVIOUS
  <2>1. CASE \E S \in SUBSET Table : Change(S)
    BY <2>1, MemoryStep DEF Change
  <2>2. CASE Begin
    BY <2>2, BeginStep
  <2>3. CASE \E f \in disk : RemoveFile(f)
    BY <2>3, RemoveStep
  <2>4. CASE Removed
    BY <2>4, RemovedStep
  <2>5. CASE \E f \in FilesAt(stage, attempts) : Create(f) \/ Complete(f)
    BY <2>5, CreateStep, CompleteStep
  <2>6. CASE Advance
    BY <2>6, AdvanceStep
  <2>7. CASE Fail
    BY <2>7, EndStep DEF Fail, SaveInv, Types
  <2>8. CASE Crash
    BY <2>8, EndStep DEF Crash
  <2>9. CASE Load
    BY <2>9, MemoryStep DEF Load, SaveInv, Types
  <2>10. CASE UNCHANGED saveVars
    BY <2>10, MemoryStep DEF saveVars, SaveInv, Types
  <2> QED BY <2>1, <2>2, <2>3, <2>4, <2>5, <2>6, <2>7, <2>8, <2>9, <2>10 DEF SaveNext
<1> QED BY <1>1, SaveInitInv, PTL DEF SaveSpec

-----------------------------------------------------------------------------
(* The theorems.                                                           *)

\* Every reachable state is type correct.
THEOREM SaveTypeCorrect == SaveSpec => []SaveTypeOK
<1>1. SaveInv => SaveTypeOK
  <2> SUFFICES ASSUME SaveInv PROVE SaveTypeOK
    OBVIOUS
  <2>1. disk \subseteq UNION {FilesOf(k) : k \in Save}
    <3> SUFFICES ASSUME NEW f \in disk PROVE \E k \in Save : f \in FilesOf(k)
      OBVIOUS
    <3>1. f[1] \in Save /\ f \in FilesOf(f[1])
      BY SavesAssumption DEF SaveInv, Owned, Types, Save
    <3> QED BY <3>1
  <2> QED BY <2>1 DEF SaveInv, Types, SaveTypeOK
<1> QED BY <1>1, SaveInvariant, PTL

\* A load that succeeds has the triples and the encoders of the last committed
\* save, whatever saves failed or crashed before.
THEOREM LoadCorrect == SaveSpec => []LoadsLastCommitted
<1>1. SaveInv => LoadsLastCommitted
  <2> SUFFICES ASSUME SaveInv, NEW j \in Save, NEW k \in Save, Loads(j, k)
               PROVE  j = committed /\ k = committed
    BY DEF LoadsLastCommitted
  <2>1. Meta(j) \in disk /\ CatsMeta(k) \in disk /\ CatsMeta(k) \in Whole
    BY DEF Loads, Whole
  <2>2. j = k
    BY <2>1 DEF SaveInv, OneSave, Meta, CatsMeta
  <2> QED BY <2>1, <2>2 DEF SaveInv, LastFile
<1> QED BY <1>1, SaveInvariant, PTL

\* A committed save can be loaded, object sorts included, until the next begins.
THEOREM Durability == SaveSpec => []CommittedIsDurable
<1>1. SaveInv => CommittedIsDurable
  <2> SUFFICES ASSUME SaveInv, committed = attempts, attempts \in Save
               PROVE  /\ Loads(attempts, attempts)
                      /\ \A t \in saved[attempts] \cap Indexed : <<attempts, "os", t>> \in disk
    BY DEF CommittedIsDurable
  <2>1. \A s \in Writing : FilesAt(s, attempts) \subseteq Whole
    BY DEF SaveInv, Committed, FilesOf
  <2>2. Meta(attempts) \in Whole /\ CatsMeta(attempts) \in Whole
    BY <2>1, StageNames DEF FilesAt
  <2>3. \A c \in Cat : <<attempts, "cat", c>> \in Whole
    BY <2>1, StageNames DEF FilesAt
  <2>4. \A t \in saved[attempts] : TableFiles(attempts, t) \subseteq Whole
    BY <2>1, StageNames DEF FilesAt
  <2>5. \A t \in saved[attempts] : {<<attempts, "so", t>>, <<attempts, "so_index", t>>} \subseteq Whole
    BY <2>4 DEF TableFiles
  <2>6. \A t \in saved[attempts] \cap Indexed :
          {<<attempts, "os", t>>, <<attempts, "os_index", t>>} \subseteq Whole
    BY <2>4 DEF TableFiles
  <2>7. \A t \in saved[attempts] : <<attempts, "os", t>> \in disk => t \in Indexed
    <3> SUFFICES ASSUME NEW t \in saved[attempts], <<attempts, "os", t>> \in disk
                 PROVE  t \in Indexed
      OBVIOUS
    <3>1. PICK s \in Writing : <<attempts, "os", t>> \in FilesAt(s, attempts)
      BY DEF SaveInv, Owned, FilesOf
    <3>2. <<attempts, "os", t>> \in FilesAt("tables", attempts)
      BY <3>1, FileShape, StageNames DEF Meta, CatsMeta
    <3>3. PICK u \in saved[attempts] : <<attempts, "os", t>> \in TableFiles(attempts, u)
      BY <3>2 DEF FilesAt
    <3>4. u = t /\ u \in Indexed
      BY <3>3 DEF TableFiles
    <3> QED BY <3>4
  <2>8. \A t \in saved[attempts] : TableReadable(attempts, t)
    BY <2>5, <2>6, <2>7 DEF TableReadable
  <2> QED BY <2>2, <2>3, <2>6, <2>8 DEF Loads, Whole
<1> QED BY <1>1, SaveInvariant, PTL
=============================================================================
