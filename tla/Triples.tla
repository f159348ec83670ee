------------------------------ MODULE Triples ------------------------------
(***************************************************************************)
(* One table of triples of the store: the rows (subject, object) of one    *)
(* predicate and one pair of types (lib/triplestore/src/storage.rs,        *)
(* storage/deduplication.rs, storage/so_index.rs).  The rows sit in a list *)
(* of immutable segments, each sorted by subject and, when object indexing *)
(* is on, sorted a second time by object.  A hash index of all rows        *)
(* deduplicates what is added; a table read back from disk has none until  *)
(* the first call that needs it.                                           *)
(*                                                                         *)
(* A row stands for the pair of terms, not for the pair of identifiers, so *)
(* that renumbering leaves it alone.  A data frame is a set of rows:       *)
(* add_rank_sort_triples sorts and deduplicates every batch before it      *)
(* reaches a table.  The order inside a segment, and the sampled index     *)
(* over it, are left out.                                                  *)
(***************************************************************************)
EXTENDS Naturals, Sequences, FiniteSets

CONSTANTS Row,          \* the rows a table may hold
          NoIndex,      \* subject_object_index = None
          SegmentLimit, \* 10 in the code: more segments may be compacted
          WorkLimit     \* 100_000 in the code: height * segments^2 beyond it

ASSUME RowAssumption == IsFiniteSet(Row) /\ \A S \in SUBSET Row : NoIndex # S
ASSUME LimitAssumption == SegmentLimit \in Nat \ {0} /\ WorkLimit \in Nat

VARIABLES
  segments,        \* Triples.segments; <<>> when the store has no such table
  height,          \* Triples.height
  objectIndexing,  \* Triples.object_indexing_enabled
  index,           \* Triples.subject_object_index
  returned         \* the data frame the last call returned ({} for None)

vars == <<segments, height, objectIndexing, index, returned>>

Segment == [subjectSort : SUBSET Row, objectSort : {NoIndex} \cup SUBSET Row]

TypeOK ==
  /\ segments \in Seq(Segment)
  /\ height \in Nat
  /\ objectIndexing \in BOOLEAN
  /\ index \in {NoIndex} \cup SUBSET Row
  /\ returned \in SUBSET Row

-----------------------------------------------------------------------------
(* Segments.                                                               *)

Exists == segments # <<>>

\* The rows the subject sorts of the segments hold together.
RowsOf(segs) == UNION {segs[i].subjectSort : i \in 1..Len(segs)}

\* TriplesSegment::new: both sorts are made from the same data frame.
NewSegment(df, objIndexed) ==
  [subjectSort |-> df, objectSort |-> IF objIndexed THEN df ELSE NoIndex]

\* compact_segments: the subject sorts are merged into one, and so are the
\* object sorts of the segments that have one.
ObjectSorts(segs) ==
  {segs[i].objectSort : i \in {j \in 1..Len(segs) : segs[j].objectSort # NoIndex}}

\* Mutant: the object sort of the segment just added is not merged.
CompactSegmentsWithoutNewObjects(segs) ==
  [subjectSort |-> RowsOf(segs),
   objectSort  |-> LET old == ObjectSorts(SubSeq(segs, 1, Len(segs) - 1))
                   IN  IF old = {} THEN NoIndex ELSE UNION old]

CompactSegments(segs) ==
  [subjectSort |-> RowsOf(segs),
   objectSort  |-> IF ObjectSorts(segs) = {} THEN NoIndex
                                             ELSE UNION ObjectSorts(segs)]

\* A scan that names objects reads the object sort of every segment that has
\* one, and the subject sort of the others; any other scan reads the subject
\* sorts (TriplesSegment::get_lazy_frames).
ScanByObject(segs) ==
  UNION {IF segs[i].objectSort # NoIndex THEN segs[i].objectSort
                                         ELSE segs[i].subjectSort : i \in 1..Len(segs)}

-----------------------------------------------------------------------------
(* The hash index.                                                         *)

\* Mutant: a missing index is created empty.
EnsuredIndexEmpty == IF index = NoIndex THEN {} ELSE index

\* ensure_subject_object_index, which reads the only segment of the table.
EnsuredIndex == IF index = NoIndex THEN segments[1].subjectSort ELSE index

\* maybe_insert_deduplicate keeps the rows the index does not have.
NotIndexed(df) == df \ EnsuredIndex

\* Mutant: the work of a scan is taken to be linear in the segments, and the
\* height of the table not to matter.
ShouldCompactLinear ==
  /\ Len(segments) > SegmentLimit
  /\ Len(segments) > WorkLimit

ShouldCompact ==
  /\ Len(segments) > SegmentLimit
  /\ height * (Len(segments) * Len(segments)) > WorkLimit

-----------------------------------------------------------------------------
Init == /\ segments = <<>>
        /\ height = 0
        /\ objectIndexing = FALSE
        /\ index = {}
        /\ returned = {}

\* Triples::new, for the first batch of a table; the indexing options in force
\* decide whether it is sorted by object.  The caller reports the whole batch
\* as new.
New(df, objIndexed) ==
  /\ ~Exists
  /\ df # {}
  /\ segments' = <<NewSegment(df, objIndexed)>>
  /\ height' = Cardinality(df)
  /\ objectIndexing' = objIndexed
  /\ index' = df
  /\ returned' = df

\* Mutant: the batch is returned as it came, duplicates of stored rows included.
AddTriplesReturningBatch(df) ==
  /\ Exists
  /\ df # {}
  /\ returned' = df
  /\ index' = EnsuredIndex \cup df
  /\ segments' = IF NotIndexed(df) = {} THEN segments
                 ELSE Append(segments, NewSegment(NotIndexed(df), objectIndexing))
  /\ height' = height + Cardinality(NotIndexed(df))
  /\ UNCHANGED objectIndexing

\* deduplicate_and_insert.  Whether to compact is decided before the new
\* segment is counted.
AddTriples(df) ==
  /\ Exists
  /\ df # {}
  /\ LET new == NotIndexed(df)
         seg == NewSegment(new, objectIndexing)
     IN  /\ returned' = new
         /\ index' = EnsuredIndex \cup df
         /\ segments' = IF new = {} THEN segments
                        ELSE IF ShouldCompact
                        THEN <<CompactSegments(Append(segments, seg))>>
                        ELSE Append(segments, seg)
         /\ height' = height + Cardinality(new)
  /\ UNCHANGED objectIndexing

\* Mutant: the probe inserts what it does not find (insert = true).
RemoveOverlappingInserting(df) ==
  /\ Exists
  /\ df # {}
  /\ index' = EnsuredIndex \cup df
  /\ returned' = NotIndexed(df)
  /\ UNCHANGED <<segments, height, objectIndexing>>

\* remove_overlapping_triples_from_dataframe only reads the index, but builds
\* it first if it is missing.
RemoveOverlapping(df) ==
  /\ Exists
  /\ df # {}
  /\ index' = EnsuredIndex
  /\ returned' = NotIndexed(df)
  /\ UNCHANGED <<segments, height, objectIndexing>>

\* A table of one segment, made by new_compacted from the subject sorts of
\* another, or by in_memory_from_serialization.
Compact ==
  /\ Exists
  /\ segments' = <<NewSegment(RowsOf(segments), objectIndexing)>>
  /\ height' = Cardinality(RowsOf(segments))
  /\ index' = RowsOf(segments)
  /\ UNCHANGED <<objectIndexing, returned>>

\* Mutant: the segments are written without compacting them first.
ReloadUncompacted ==
  /\ Exists
  /\ height' = 0
  /\ index' = NoIndex
  /\ UNCHANGED <<segments, objectIndexing, returned>>

\* serialize_triples compacts before it writes; the table read back has height
\* zero and no index, and is sorted by object when a second file was written.
Reload ==
  /\ Exists
  /\ segments' = <<NewSegment(RowsOf(segments), objectIndexing)>>
  /\ height' = 0
  /\ index' = NoIndex
  /\ UNCHANGED <<objectIndexing, returned>>

\* Mutant: the height is lowered by the size of the batch.
DeleteMiscounting(df, objIndexed) ==
  /\ Exists
  /\ df # {}
  /\ LET rest == RowsOf(segments) \ df
     IN  /\ rest # {}
         /\ segments' = <<NewSegment(rest, objIndexed)>>
         /\ height' = height - Cardinality(df)
         /\ objectIndexing' = objIndexed
         /\ index' = rest
  /\ UNCHANGED returned

\* delete_global_cat_triples: the rows that stay are read, the table is dropped
\* and, if any row stayed, made anew under the options then in force.
Delete(df, objIndexed) ==
  /\ Exists
  /\ df # {}
  /\ LET rest == RowsOf(segments) \ df
     IN  IF rest = {}
         THEN /\ segments' = <<>>
              /\ height' = 0
              /\ objectIndexing' = FALSE
              /\ index' = {}
         ELSE /\ segments' = <<NewSegment(rest, objIndexed)>>
              /\ height' = Cardinality(rest)
              /\ objectIndexing' = objIndexed
              /\ index' = rest
  /\ UNCHANGED returned

Next ==
  \/ \E df \in SUBSET Row, o \in BOOLEAN : New(df, o)
  \/ \E df \in SUBSET Row : AddTriples(df)
  \/ \E df \in SUBSET Row : RemoveOverlapping(df)
  \/ Compact
  \/ Reload
  \/ \E df \in SUBSET Row, o \in BOOLEAN : Delete(df, o)

Spec == Init /\ [][Next]_vars

-----------------------------------------------------------------------------
(* Properties.                                                             *)

\* The hash index and the segments agree: every row added since the table was
\* made, compacted or reloaded is in both.  deduplicate_and_insert writes the
\* index before the segments, and trusts the index alone afterwards.
IndexMatchesSegments == index # NoIndex => index = RowsOf(segments)

\* No row is stored twice: a scan concatenates the segments without removing
\* duplicates, so a row in two segments would be answered twice.
SegmentsDisjoint ==
  \A i, j \in 1..Len(segments) :
    i # j => segments[i].subjectSort \cap segments[j].subjectSort = {}

\* The assertions of the code: ensure_subject_object_index finds exactly one
\* segment when the index is missing, create_indices never gets an empty frame.
AssertionsHold ==
  /\ index = NoIndex => Len(segments) = 1
  /\ \A i \in 1..Len(segments) : segments[i].subjectSort # {}

\* A lookup by object sees the rows a full scan sees, although it reads the
\* second copy that compact_segments merges separately.
ObjectScanComplete == ScanByObject(segments) = RowsOf(segments)

\* The number of segments a query must visit is bounded by the two limits of
\* deduplicate_and_insert even if every batch adds a single row, and even for a
\* table reloaded with height zero.
SegmentsBounded ==
  LET n == Len(segments) - 1
  IN  Len(segments) > 1 => n <= SegmentLimit \/ (n - 1) * (n * n) <= WorkLimit

\* The table is a set of rows to its callers.
Set == INSTANCE TripleSet WITH contents <- RowsOf(segments), returned <- returned
ImplementsTripleSet == Set!Spec
=============================================================================
