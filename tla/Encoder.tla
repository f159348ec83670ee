------------------------------ MODULE Encoder ------------------------------
(***************************************************************************)
(* The global encoder of one category of terms, shared by every table of a *)
(* store, through the life of the store: batches bring new strings, the    *)
(* garbage collector removes the ones no table uses, compaction renumbers  *)
(* all of them and the tables with them, a detached graph or a store read  *)
(* back starts from an image with a counter computed anew.                 *)
(*                                                                         *)
(* `column` is the set of identifiers the tables hold and `meaning` the    *)
(* set of strings that were put there: what queries must decode.           *)
(***************************************************************************)
EXTENDS CatMaps

CONSTANT MaxId     \* bound on the counter, for model checking

ASSUME BoundAssumption == MaxId \in Nat

VARIABLES present,  \* whether cat_map has an entry for the category
          enc,      \* CatEncs.maps of the entry
          counter,  \* the counter of the category in Cats
          column,   \* identifiers in the tables
          meaning,  \* ghost: the strings they were made from
          panicked  \* a call of unwrap on None ended the process' use of the store

vars == <<present, enc, counter, column, meaning, panicked>>

TypeOK ==
  /\ present \in BOOLEAN
  /\ Strings(enc) \subseteq Str
  /\ enc.map \in [Strings(enc) -> Nat]
  /\ Ids(enc) \subseteq Nat
  /\ enc.rev \in [Ids(enc) -> Str]
  /\ counter \in Nat
  /\ column \subseteq Nat
  /\ meaning \subseteq Str
  /\ panicked \in BOOLEAN

Init == /\ present = FALSE
        /\ enc = EmptyEnc
        /\ counter = 0
        /\ column = {}
        /\ meaning = {}
        /\ panicked = FALSE

Running == ~panicked

\* Mutant: the counter is advanced by one for a batch, not for every string.
AddOffByOne(S) ==
  /\ Running
  /\ S # {}
  /\ enc' = MergeEnc(enc, S, counter)
  /\ counter' = counter + 1
  /\ column' = column \cup {enc'.map[s] : s \in S}
  /\ meaning' = meaning \cup S
  /\ present' = TRUE
  /\ UNCHANGED panicked

\* add_triples_vec for a column of strings S: known strings are looked up, the
\* others merged, and the column re-encoded.
Add(S) ==
  /\ Running
  /\ S # {}
  /\ counter + Cardinality(S) <= MaxId
  /\ enc' = MergeEnc(enc, S, counter)
  /\ counter' = MergeCounter(enc, S, counter)
  /\ column' = column \cup {enc'.map[s] : s \in S}
  /\ meaning' = meaning \cup S
  /\ present' = TRUE
  /\ UNCHANGED panicked

\* Deleting rows leaves the encoder alone.
Delete(U) ==
  /\ Running
  /\ U # {}
  /\ column' = column \ U
  /\ meaning' = meaning \ {enc.rev[u] : u \in U}
  /\ UNCHANGED <<present, enc, counter, panicked>>

\* Mutant: identifier zero is taken for none at all.
GarbageCollectFromOne ==
  /\ Running
  /\ enc' = CollectEnc(enc, Ids(enc) \ (column \cup {0}))
  /\ UNCHANGED <<present, counter, column, meaning, panicked>>

\* Triplestore::garbage_collect: what no table uses is collected.  The counter
\* stays where it is, and an emptied entry stays in cat_map.
GarbageCollect ==
  /\ Running
  /\ enc' = CollectEnc(enc, Ids(enc) \ column)
  /\ UNCHANGED <<present, counter, column, meaning, panicked>>

\* recompute_counters, after the encoder took its new value.
RecomputeCounter ==
  \/ ~present /\ counter' = 0 /\ UNCHANGED panicked
  \/ present /\ CounterPanics(enc') /\ panicked' = TRUE /\ UNCHANGED counter
  \/ /\ present /\ ~CounterPanics(enc')
     /\ counter' = RecomputedCounter(enc')
     /\ UNCHANGED panicked

\* Mutant: the encoder is compacted before the ranks of the tables are taken.
CompactTooEarly ==
  /\ Running
  /\ enc' = CompactEnc(enc)
  /\ column' = {RankMap(CompactEnc(enc), column)[u] :
                  u \in DOMAIN RankMap(CompactEnc(enc), column)}
  /\ RecomputeCounter
  /\ UNCHANGED <<present, meaning>>

\* Triplestore::compact: the tables take the rank of every identifier in the
\* old encoder, then the encoder is renumbered and its counter recomputed.
Compact ==
  /\ Running
  /\ column' = {RankMap(enc, column)[u] : u \in DOMAIN RankMap(enc, column)}
  /\ enc' = CompactEnc(enc)
  /\ RecomputeCounter
  /\ UNCHANGED <<present, meaning>>

\* Mutant: the counter of the image is the size of its map.
DetachSized ==
  /\ Running
  /\ column # {}
  /\ enc' = ImageEnc(enc, column)
  /\ counter' = Cardinality(Ids(enc'))
  /\ present' = TRUE
  /\ UNCHANGED <<column, meaning, panicked>>

\* The encoder of a detached graph: the image of the identifiers in its tables
\* (Cats::image and Cats::from_map).  An empty image is left out of cat_map and
\* the counter starts at zero again.
Detach ==
  /\ Running
  /\ enc' = ImageEnc(enc, column)
  /\ present' = (Ids(enc') # {})
  /\ counter' = IF present' THEN RecomputedCounter(enc') ELSE 0
  /\ UNCHANGED <<column, meaning, panicked>>

\* A call on a store whose lock was poisoned by a panic fails.
CallAfterPanic == panicked /\ UNCHANGED vars

Next ==
  \/ \E S \in SUBSET Str : Add(S)
  \/ \E U \in SUBSET column : Delete(U)
  \/ GarbageCollect
  \/ Compact
  \/ Detach
  \/ CallAfterPanic

Spec == Init /\ [][Next]_vars

-----------------------------------------------------------------------------
(* Properties.                                                             *)

\* The two maps of an encoder are inverse to each other, so a string has one
\* identifier and decoding an identifier gives back the string it was made for.
MapsInverse ==
  /\ \A s \in Strings(enc) : enc.map[s] \in Ids(enc) /\ enc.rev[enc.map[s]] = s
  /\ \A u \in Ids(enc) : enc.rev[u] \in Strings(enc) /\ enc.map[enc.rev[u]] = u

\* Identifiers handed out next are unused: the counter is above every
\* identifier, after every kind of renumbering.
CounterFresh == \A u \in Ids(enc) : u < counter

\* Every identifier a table holds can be decoded, and together they decode to
\* the strings that were put there: collection removes nothing that is in use,
\* and renumbering tables and encoder separately keeps them in step.
ColumnDecodes ==
  /\ column \subseteq Ids(enc)
  /\ {enc.rev[u] : u \in column} = meaning

\* After garbage collection only strings in use are left.
CollectionComplete ==
  [][GarbageCollect => Ids(enc') = column']_vars

\* The identifiers of a compacted encoder are an initial segment of the
\* naturals in string order, which sorting by raw identifier relies on
\* (create_indices with compacted = true).
CompactIsSorted ==
  [][Compact => /\ Ids(enc') = 0..(Cardinality(Strings(enc')) - 1)
                /\ \A s, t \in Strings(enc') : s < t => enc'.map[s] < enc'.map[t]]_vars
=============================================================================
