------------------------------ MODULE CatMaps ------------------------------
(***************************************************************************)
(* The encoders of terms ("cats", lib/in_memory/src/lib.rs and             *)
(* lib/representation/src/cats): for one category of terms, a map from     *)
(* strings to u32 identifiers and its reverse map.  The compressed and the *)
(* uncompressed variant behave alike and are modelled once.                *)
(*                                                                         *)
(* A string is a natural number, and the order of the numbers stands for   *)
(* the byte order of the strings, which the BTreeMap `map` is sorted by.   *)
(***************************************************************************)
EXTENDS Integers, FiniteSets, Functions

CONSTANT Str     \* the strings

ASSUME StrAssumption == Str \subseteq Nat /\ IsFiniteSet(Str)

\* An encoder: map from strings to identifiers, rev_map back.
EmptyEnc == [map |-> <<>>, rev |-> <<>>]

Strings(enc) == DOMAIN enc.map
Ids(enc) == DOMAIN enc.rev

\* How many members of S come before s in the order of strings: the position
\* of s in an iteration over the sorted map.
Position(S, s) == Cardinality({t \in S : t < s})

\* The identifiers given to the strings of S, which are new, counting from c.
NumberFrom(c, S) == [s \in S |-> c + Position(S, s)]

\* encode_new_in_memory_string for every pair of the function ids: the reverse
\* entry of an identifier that is already taken is overwritten.
InsertAll(enc, ids) ==
  [map |-> [s \in DOMAIN ids \cup DOMAIN enc.map |->
              IF s \in DOMAIN ids THEN ids[s] ELSE enc.map[s]],
   rev |-> [u \in Range(ids) \cup DOMAIN enc.rev |->
              IF u \in Range(ids) THEN CHOOSE s \in DOMAIN ids : ids[s] = u
                                  ELSE enc.rev[u]]]

\* merge: the strings of the other encoder that are new here are numbered from
\* the counter in string order, the others keep the identifier they have here.
MergeEnc(enc, S, c) == InsertAll(enc, NumberFrom(c, S \ Strings(enc)))
MergeCounter(enc, S, c) == c + Cardinality(S \ Strings(enc))

\* The re-encoding merge returns for the identifiers of the other encoder.
MergeReEnc(merged, other) == [u \in Ids(other) |-> merged.map[other.rev[u]]]

\* garbage_collect_cats: the identifiers U and their strings are removed.
CollectEnc(enc, U) ==
  [map |-> Restrict(enc.map, Strings(enc) \ {enc.rev[u] : u \in U}),
   rev |-> Restrict(enc.rev, Ids(enc) \ U)]

\* Mutant: positions are counted from one.
CompactEncFromOne(enc) ==
  LET ids == NumberFrom(1, Strings(enc))
  IN  [map |-> ids,
       rev |-> [u \in Range(ids) |-> CHOOSE s \in Strings(enc) : ids[s] = u]]

\* compact: strings are renumbered by their position, from zero.
CompactEnc(enc) ==
  LET ids == NumberFrom(0, Strings(enc))
  IN  [map |-> ids,
       rev |-> [u \in Range(ids) |-> CHOOSE s \in Strings(enc) : ids[s] = u]]

\* image: the part of the encoder that the identifiers U name.
ImageEnc(enc, U) ==
  LET rev == Restrict(enc.rev, U \cap Ids(enc))
  IN  [map |-> [s \in Range(rev) |-> CHOOSE u \in DOMAIN rev : rev[u] = s],
       rev |-> rev]

\* global_rank_map: an identifier is mapped to the position of its string;
\* identifiers the encoder does not know are missing from the result.
RankMap(enc, U) ==
  [u \in {v \in U : \E s \in Strings(enc) : enc.map[s] = v} |->
     Position(Strings(enc), CHOOSE s \in Strings(enc) : enc.map[s] = u)]

\* calc_new_*_counter: one more than counter(), which is one more than the
\* largest identifier.  counter() unwraps the maximum, so it panics on an
\* encoder that is empty.
CounterPanics(enc) == Ids(enc) = {}
LargestId(enc) == CHOOSE u \in Ids(enc) : \A v \in Ids(enc) : v <= u
RecomputedCounter(enc) == LargestId(enc) + 2
=============================================================================
