---------------------------- MODULE EncoderProofs ----------------------------
(***************************************************************************)
(* Proofs about one encoder, for any finite set of strings and any bound.  *)
(* IInv adds to the checked invariants that a category without an entry    *)
(* has no identifiers, without which a counter that is set to zero could   *)
(* be too low.                                                             *)
(***************************************************************************)
EXTENDS Encoder, CatMapsProofs

IInv == /\ TypeOK
        /\ MapsInverse
        /\ CounterFresh
        /\ ColumnDecodes
        /\ ~present => Ids(enc) = {}

-----------------------------------------------------------------------------
(* The steps.                                                              *)

\* The invariant in terms of Good, for the state before and after a step.
LEMMA GoodEnc == (TypeOK /\ MapsInverse) <=>
                   /\ Good(enc)
                   /\ present \in BOOLEAN /\ counter \in Nat /\ panicked \in BOOLEAN
                   /\ column \subseteq Nat /\ meaning \subseteq Str
BY DEF TypeOK, MapsInverse, Good
LEMMA GoodEncNext == (TypeOK' /\ MapsInverse') <=>
                       /\ Good(enc')
                       /\ present' \in BOOLEAN /\ counter' \in Nat /\ panicked' \in BOOLEAN
                       /\ column' \subseteq Nat /\ meaning' \subseteq Str
BY DEF TypeOK, MapsInverse, Good

\* A batch of strings keeps the invariant.
LEMMA AddKeeps ==
  ASSUME IInv, NEW S \in SUBSET Str, Add(S)
  PROVE  IInv'
<1>1. Good(enc) /\ counter \in Nat /\ \A u \in Ids(enc) : u < counter
  BY GoodEnc DEF IInv, CounterFresh
<1>2. /\ Good(enc')
      /\ Strings(enc') = Strings(enc) \cup S
      /\ Ids(enc) \subseteq Ids(enc')
      /\ \A u \in Ids(enc) : enc'.rev[u] = enc.rev[u]
      /\ counter' \in Nat
      /\ \A u \in Ids(enc') : u < counter'
  BY <1>1, MergeGood DEF Add
<1>3. column' = column \cup {enc'.map[s] : s \in S} /\ meaning' = meaning \cup S
  BY DEF Add
<1>4. \A s \in S : enc'.map[s] \in Ids(enc') /\ enc'.rev[enc'.map[s]] = s
  BY <1>2 DEF Good
<1>5. column \subseteq Ids(enc) /\ {enc.rev[u] : u \in column} = meaning
  BY DEF IInv, ColumnDecodes
<1>6. column' \subseteq Ids(enc')
  BY <1>2, <1>3, <1>4, <1>5
<1>7. {enc'.rev[u] : u \in column'} = meaning'
  <2>1. \A u \in column : enc'.rev[u] = enc.rev[u]
    BY <1>2, <1>5
  <2>2. {enc'.rev[u] : u \in column'} = {enc.rev[u] : u \in column} \cup S
    BY <1>3, <1>4, <2>1
  <2> QED
    BY <1>3, <1>5, <2>2
<1>8. TypeOK' /\ MapsInverse'
  <2>1. present' = TRUE /\ panicked' = panicked
    BY DEF Add
  <2>2. Ids(enc') \subseteq Nat /\ meaning' \subseteq Str /\ panicked \in BOOLEAN
    BY <1>2, <1>3, GoodEnc DEF Good, IInv
  <2> QED
    BY <1>2, <1>6, <2>1, <2>2, GoodEncNext
<1> QED
  BY <1>2, <1>6, <1>7, <1>8 DEF IInv, CounterFresh, ColumnDecodes, Add

\* Deleting rows keeps the invariant: different identifiers decode to
\* different strings, so the strings of the rows left are those left.
LEMMA DeleteKeeps ==
  ASSUME IInv, NEW U \in SUBSET column, Delete(U)
  PROVE  IInv'
<1>1. /\ enc' = enc /\ column' = column \ U /\ meaning' = meaning \ {enc.rev[u] : u \in U}
      /\ present' = present /\ counter' = counter /\ panicked' = panicked
  BY DEF Delete
<1>2. Good(enc) /\ column \subseteq Ids(enc) /\ {enc.rev[u] : u \in column} = meaning
  BY GoodEnc DEF IInv, ColumnDecodes
<1>3. \A u, v \in column : enc.rev[u] = enc.rev[v] => u = v
  BY <1>2 DEF Good
<1>4. {enc.rev[u] : u \in column \ U} = meaning \ {enc.rev[u] : u \in U}
  BY <1>2, <1>3
<1>5. TypeOK' /\ MapsInverse'
  <2>1. column' \subseteq Nat /\ meaning' \subseteq Str
    BY <1>1, GoodEnc DEF IInv
  <2> QED
    BY <1>1, <2>1, GoodEnc, GoodEncNext DEF IInv
<1> QED
  BY <1>1, <1>2, <1>4, <1>5 DEF IInv, CounterFresh, ColumnDecodes

\* Collecting what no table uses keeps the invariant.
LEMMA GarbageCollectKeeps ==
  ASSUME IInv, GarbageCollect
  PROVE  IInv' /\ Ids(enc') = column'
<1> DEFINE U == Ids(enc) \ column
<1>1. /\ enc' = CollectEnc(enc, U) /\ column' = column /\ meaning' = meaning
      /\ present' = present /\ counter' = counter /\ panicked' = panicked
  BY DEF GarbageCollect
<1>2. Good(enc) /\ column \subseteq Ids(enc) /\ {enc.rev[u] : u \in column} = meaning
  BY GoodEnc DEF IInv, ColumnDecodes
<1>3. /\ Good(enc')
      /\ Ids(enc') = column
      /\ \A u \in column : enc'.rev[u] = enc.rev[u]
  <2>1. U \in SUBSET Ids(enc) /\ Ids(enc) \ U = column
    BY <1>2
  <2> HIDE DEF U
  <2> QED
    BY <1>1, <1>2, <2>1, CollectGood
<1>4. TypeOK' /\ MapsInverse'
  BY <1>1, <1>3, GoodEnc, GoodEncNext DEF IInv
<1>5. {enc'.rev[u] : u \in column'} = meaning'
  BY <1>1, <1>2, <1>3
<1>6. \A u \in Ids(enc') : u < counter'
  BY <1>1, <1>2, <1>3 DEF IInv, CounterFresh
<1>7. ~present' => Ids(enc') = {}
  BY <1>1, <1>2, <1>3 DEF IInv
<1> QED
  BY <1>1, <1>3, <1>4, <1>5, <1>6, <1>7 DEF IInv, CounterFresh, ColumnDecodes

\* Recomputing a counter after the encoder has changed makes it fresh.  If it
\* panics instead there is no identifier that it could be too low for.
LEMMA RecomputeFresh ==
  ASSUME counter \in Nat, panicked \in BOOLEAN, Ids(enc') \in SUBSET Nat, ~present => Ids(enc') = {},
         NEW n \in Nat, \A u \in Ids(enc') : u <= n,
         RecomputeCounter
  PROVE  counter' \in Nat /\ panicked' \in BOOLEAN /\ \A u \in Ids(enc') : u < counter'
<1>1. CASE ~present /\ counter' = 0 /\ UNCHANGED panicked
  BY <1>1
<1>2. CASE present /\ CounterPanics(enc') /\ panicked' = TRUE /\ UNCHANGED counter
  BY <1>2 DEF CounterPanics
<1>3. CASE /\ present /\ ~CounterPanics(enc')
           /\ counter' = RecomputedCounter(enc')
           /\ UNCHANGED panicked
  <2>1. Ids(enc') # {}
    BY <1>3 DEF CounterPanics
  <2> QED
    BY <1>3, <2>1, RecomputedFresh
<1> QED
  BY <1>1, <1>2, <1>3 DEF RecomputeCounter

\* Compaction keeps the invariant, and numbers strings in their order.
LEMMA CompactKeeps ==
  ASSUME IInv, Compact
  PROVE  /\ IInv'
         /\ Ids(enc') = 0..(Cardinality(Strings(enc')) - 1)
         /\ \A s, t \in Strings(enc') : s < t => enc'.map[s] < enc'.map[t]
<1> DEFINE S == Strings(enc)
<1>1. Good(enc) /\ column \subseteq Ids(enc) /\ {enc.rev[u] : u \in column} = meaning
  BY GoodEnc DEF IInv, ColumnDecodes
<1>2. /\ Good(enc')
      /\ Strings(enc') = S
      /\ Ids(enc') = 0..(Cardinality(S) - 1)
      /\ \A s \in S : enc'.map[s] = Position(S, s)
  BY <1>1, CompactGood DEF Compact
<1>3. column' = {Position(S, enc.rev[u]) : u \in column}
  BY <1>1, Ranks DEF Compact
<1>4. \A u \in column : enc.rev[u] \in S
  BY <1>1 DEF Good
<1>5. \A u \in column : /\ Position(S, enc.rev[u]) \in Ids(enc')
                        /\ enc'.rev[Position(S, enc.rev[u])] = enc.rev[u]
  BY <1>2, <1>4 DEF Good
<1>6. column' \subseteq Ids(enc')
  BY <1>3, <1>5
<1>7. {enc'.rev[u] : u \in column'} = meaning'
  <2>1. {enc'.rev[u] : u \in column'} = {enc.rev[u] : u \in column}
    BY <1>3, <1>5
  <2> QED
    BY <1>1, <2>1 DEF Compact
<1>8. Cardinality(S) \in Nat /\ S \in SUBSET Str /\ Ids(enc') \in SUBSET Nat
  <2>1. S \in SUBSET Str
    BY <1>1 DEF Good
  <2>2. Cardinality(S) \in Nat
    BY <2>1, StrAssumption, FS_Subset, FS_CardinalityType
  <2> QED
    BY <1>2, <2>1, <2>2 DEF Good
<1>9. ~present => Ids(enc') = {}
  <2>1. SUFFICES ASSUME ~present PROVE Ids(enc') = {}
    OBVIOUS
  <2>2. S = {}
    BY <1>1, <2>1 DEF IInv, Good
  <2> QED
    BY <1>2, <2>2, FS_EmptySet
<1>10. counter' \in Nat /\ panicked' \in BOOLEAN /\ \A u \in Ids(enc') : u < counter'
  <2>1. \A u \in Ids(enc') : u <= Cardinality(S)
    BY <1>2, <1>8
  <2>2. counter \in Nat /\ panicked \in BOOLEAN /\ RecomputeCounter
    BY GoodEnc DEF IInv, Compact
  <2> HIDE DEF S
  <2> QED
    BY <1>8, <1>9, <2>1, <2>2, RecomputeFresh
<1>11. TypeOK' /\ MapsInverse'
  <2>1. present' = present /\ meaning' = meaning
    BY DEF Compact
  <2>2. column' \subseteq Nat
    BY <1>6, <1>8
  <2> QED
    BY <1>2, <1>10, <2>1, <2>2, GoodEnc, GoodEncNext DEF IInv
<1>12. IInv'
  BY <1>6, <1>7, <1>9, <1>10, <1>11 DEF IInv, CounterFresh, ColumnDecodes, Compact
<1>13. \A s, t \in S : s < t => Position(S, s) < Position(S, t)
  BY <1>8, PositionOrder
<1> QED
  BY <1>2, <1>12, <1>13

\* The encoder of a detached graph satisfies the invariant.
LEMMA DetachKeeps ==
  ASSUME IInv, Detach
  PROVE  IInv'
<1>1. Good(enc) /\ column \subseteq Ids(enc) /\ {enc.rev[u] : u \in column} = meaning
  BY GoodEnc DEF IInv, ColumnDecodes
<1>2. /\ enc' = ImageEnc(enc, column) /\ present' = (Ids(enc') # {})
      /\ counter' = IF present' THEN RecomputedCounter(enc') ELSE 0
      /\ column' = column /\ meaning' = meaning /\ panicked' = panicked
  BY DEF Detach
<1>3. /\ Good(enc')
      /\ Ids(enc') = column
      /\ \A u \in column : enc'.rev[u] = enc.rev[u]
  BY <1>1, <1>2, ImageGood
<1>4. counter \in Nat /\ \A u \in Ids(enc') : u <= counter
  <2>1. counter \in Nat /\ column \subseteq Nat /\ \A u \in column : u < counter
    BY <1>1, GoodEnc DEF IInv, CounterFresh
  <2> QED
    BY <1>3, <2>1
<1>5. counter' \in Nat /\ \A u \in Ids(enc') : u < counter'
  <2>1. Ids(enc') \in SUBSET Nat
    BY <1>3 DEF Good
  <2>2. CASE Ids(enc') = {}
    BY <1>2, <2>2
  <2>3. CASE Ids(enc') # {}
    BY <1>2, <1>4, <2>1, <2>3, RecomputedFresh
  <2> QED
    BY <2>2, <2>3
<1>6. {enc'.rev[u] : u \in column'} = meaning'
  BY <1>1, <1>2, <1>3
<1>7. TypeOK' /\ MapsInverse'
  <2>1. present' \in BOOLEAN
    BY <1>2
  <2> QED
    BY <1>2, <1>3, <1>5, <2>1, GoodEnc, GoodEncNext DEF IInv
<1> QED
  BY <1>2, <1>3, <1>5, <1>6, <1>7 DEF IInv, CounterFresh, ColumnDecodes

\* A store at its start satisfies the invariant.
LEMMA InitGood == Init => IInv
<1> SUFFICES ASSUME Init PROVE IInv
  OBVIOUS
<1>1. Strings(enc) = {} /\ Ids(enc) = {} /\ enc.map = <<>> /\ enc.rev = <<>>
  BY DEF Init, EmptyEnc, Strings, Ids
<1>2. <<>> \in [{} -> Nat] /\ <<>> \in [{} -> Str]
  <2>1. DOMAIN <<>> = {}
    OBVIOUS
  <2>2. <<>> = [x \in {} |-> 0]
    BY <2>1
  <2> QED
    BY <2>2
<1> QED
  BY <1>1, <1>2 DEF Init, IInv, TypeOK, MapsInverse, CounterFresh, ColumnDecodes

\* Every step keeps the invariant.
LEMMA NextKeeps == IInv /\ [Next]_vars => IInv'
<1> SUFFICES ASSUME IInv, [Next]_vars PROVE IInv'
  OBVIOUS
<1>1. ASSUME NEW S \in SUBSET Str, Add(S) PROVE IInv'
  BY <1>1, AddKeeps
<1>2. ASSUME NEW U \in SUBSET column, Delete(U) PROVE IInv'
  BY <1>2, DeleteKeeps
<1>3. CASE GarbageCollect
  BY <1>3, GarbageCollectKeeps
<1>4. CASE Compact
  BY <1>4, CompactKeeps
<1>5. CASE Detach
  BY <1>5, DetachKeeps
<1>6. CASE UNCHANGED vars
  BY <1>6 DEF vars, IInv, TypeOK, MapsInverse, CounterFresh, ColumnDecodes, Strings, Ids
<1>7. CASE CallAfterPanic
  BY <1>6, <1>7 DEF CallAfterPanic
<1> QED
  BY <1>1, <1>2, <1>3, <1>4, <1>5, <1>6, <1>7 DEF Next

-----------------------------------------------------------------------------
(* Theorems.                                                               *)

\* The invariant holds throughout the life of an encoder.
THEOREM Invariant == Spec => []IInv
  BY InitGood, NextKeeps, PTL DEF Spec

\* The two maps of an encoder stay inverse to each other.
THEOREM InverseCorrect == Spec => []MapsInverse
<1>1. IInv => MapsInverse
  BY DEF IInv
<1> QED
  BY <1>1, Invariant, PTL

\* The counter stays above every identifier.
THEOREM CounterCorrect == Spec => []CounterFresh
<1>1. IInv => CounterFresh
  BY DEF IInv
<1> QED
  BY <1>1, Invariant, PTL

\* The column always decodes to the strings that were put there.
THEOREM DecodingCorrect == Spec => []ColumnDecodes
<1>1. IInv => ColumnDecodes
  BY DEF IInv
<1> QED
  BY <1>1, Invariant, PTL

\* Garbage collection leaves no string that is not in use.
THEOREM CollectionCorrect == Spec => CollectionComplete
<1>1. IInv /\ [Next]_vars => [GarbageCollect => Ids(enc') = column']_vars
  BY GarbageCollectKeeps
<1> QED
  BY <1>1, Invariant, PTL DEF Spec, CollectionComplete

\* Compaction numbers the strings from zero in their order.
THEOREM CompactionCorrect == Spec => CompactIsSorted
<1>1. IInv /\ [Next]_vars =>
        [Compact => /\ Ids(enc') = 0..(Cardinality(Strings(enc')) - 1)
                    /\ \A s, t \in Strings(enc') : s < t => enc'.map[s] < enc'.map[t]]_vars
  BY CompactKeeps
<1> QED
  BY <1>1, Invariant, PTL DEF Spec, CompactIsSorted
=============================================================================
