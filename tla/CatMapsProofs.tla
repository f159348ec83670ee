---------------------------- MODULE CatMapsProofs ----------------------------
(***************************************************************************)
(* The operators of CatMaps, one lemma each: what they keep of a good      *)
(* encoder, and which strings and identifiers it has afterwards.  The      *)
(* proofs about one encoder and about the triplestore rest on these.       *)
(***************************************************************************)
EXTENDS CatMaps, FiniteSetTheorems, TLAPS

\* A nonempty set of numbers up to a bound has a greatest one: among what is
\* left up to the bound, the smallest set is that of the greatest number.
LEMMA GreatestExists ==
  ASSUME NEW T \in SUBSET Nat, T # {}, NEW n \in Nat, \A y \in T : y <= n
  PROVE  \E x \in T : \A y \in T : y <= x
<1> DEFINE Above == {x..n : x \in T}
           Fin   == FiniteSubsetsOf(Nat)
           R     == StrictSubsetOrdering(Nat)
<1>1. \A x \in T : x..n \in Fin
  <2> TAKE x \in T
  <2>1. IsFiniteSet(x..n)
    BY FS_Interval
  <2>2. x..n \in SUBSET Nat
    OBVIOUS
  <2> QED
    BY <2>1, <2>2 DEF FiniteSubsetsOf
<1>2. Above \subseteq Fin /\ Above # {}
  BY <1>1
<1>3. IsWellFoundedOn(R, Fin)
  BY FS_StrictSubsetOrderingWellFounded
<1>4. \E b \in Above : \A c \in Above : <<c, b>> \notin R
  <2> HIDE DEF Above, Fin, R
  <2> QED
    BY <1>2, <1>3, WFMin, Zenon
<1>5. PICK x \in T : \A y \in T : <<y..n, x..n>> \notin R
  BY <1>4
<1>6. ASSUME NEW y \in T, ~(y <= x)
      PROVE  FALSE
  <2>1. y..n \subseteq x..n /\ x \in x..n /\ x \notin y..n
    BY <1>6
  <2>2. y..n \in SUBSET Nat /\ x..n \in SUBSET Nat
    OBVIOUS
  <2>3. <<y..n, x..n>> \in R
    BY <2>1, <2>2, Zenon DEF StrictSubsetOrdering
  <2> QED
    BY <2>3, <1>5
<1> QED
  BY <1>6

\* A one-to-one map of a finite set into the numbers below its size reaches
\* each of them (what compaction numbers strings by).
LEMMA CountedOff ==
  ASSUME NEW S, IsFiniteSet(S),
         NEW f \in [S -> 0..(Cardinality(S) - 1)],
         \A s, t \in S : f[s] = f[t] => s = t
  PROVE  Range(f) = 0..(Cardinality(S) - 1)
<1> DEFINE R == Range(f)
           I == 0..(Cardinality(S) - 1)
<1>1. Cardinality(S) \in Nat
  BY FS_CardinalityType
<1>2. IsFiniteSet(I) /\ Cardinality(I) = Cardinality(S)
  BY <1>1, FS_Interval
<1>3. R \in SUBSET I
  BY DEF Range
<1>4. f \in Bijection(S, R)
  <2>1. f \in [S -> R]
    BY DEF Range
  <2>2. IsInjective(f)
    BY DEF IsInjective
  <2>3. \A t \in R : \E s \in S : f[s] = t
    BY DEF Range
  <2> HIDE DEF R
  <2> QED
    BY <2>1, <2>2, <2>3 DEF Bijection, Injection, Surjection
<1>5. Cardinality(R) = Cardinality(S)
  <2> HIDE DEF R
  <2>1. ExistsBijection(S, R)
    BY <1>4 DEF ExistsBijection
  <2> QED
    BY <2>1, FS_Bijection
<1> QED
  <2> HIDE DEF R, I
  <2>1. R = I
    BY <1>2, <1>3, <1>5, FS_Subset
  <2> QED
    BY <2>1 DEF R, I

\* An encoder is good if its two maps are inverse to each other.
Good(e) ==
  /\ Strings(e) \subseteq Str
  /\ e.map \in [Strings(e) -> Nat]
  /\ Ids(e) \subseteq Nat
  /\ e.rev \in [Ids(e) -> Str]
  /\ \A s \in Strings(e) : e.map[s] \in Ids(e) /\ e.rev[e.map[s]] = s
  /\ \A u \in Ids(e) : e.rev[u] \in Strings(e) /\ e.map[e.rev[u]] = u

-----------------------------------------------------------------------------
(* Positions in the order of strings.                                      *)

\* The position of a string is a number below the number of strings, and the
\* order of positions is that of strings (iteration over the BTreeMap).
LEMMA PositionOrder ==
  ASSUME NEW S \in SUBSET Str
  PROVE  /\ \A s \in S : Position(S, s) \in 0..(Cardinality(S) - 1)
         /\ \A s, t \in S : s < t => Position(S, s) < Position(S, t)
<1> DEFINE Before(s) == {t \in S : t < s}
<1>1. IsFiniteSet(S) /\ S \subseteq Nat
  BY StrAssumption, FS_Subset
<1>2. \A s \in S : IsFiniteSet(Before(s)) /\ Before(s) \subseteq S
  BY <1>1, FS_Subset
<1>3. ASSUME NEW T \in SUBSET S, IsFiniteSet(T), NEW A \in SUBSET T, NEW s \in T, s \notin A
      PROVE  Cardinality(A) \in Nat /\ Cardinality(T) \in Nat /\ Cardinality(A) < Cardinality(T)
  <2>1. /\ IsFiniteSet(A)
        /\ Cardinality(A) <= Cardinality(T)
        /\ Cardinality(T) = Cardinality(A) => T = A
    BY <1>3, FS_Subset
  <2>2. Cardinality(A) \in Nat /\ Cardinality(T) \in Nat
    BY <1>3, <2>1, FS_CardinalityType
  <2> QED
    BY <1>3, <2>1, <2>2
<1>4. ASSUME NEW s \in S
      PROVE  Position(S, s) \in 0..(Cardinality(S) - 1)
  <2>1. s \notin Before(s) /\ Before(s) \in SUBSET S
    BY <1>1
  <2>2. /\ Cardinality(Before(s)) \in Nat /\ Cardinality(S) \in Nat
        /\ Cardinality(Before(s)) < Cardinality(S)
    <3> HIDE DEF Before
    <3> QED
      BY <1>1, <1>3, <2>1
  <2> QED
    BY <2>2 DEF Position
<1>5. ASSUME NEW s \in S, NEW t \in S, s < t
      PROVE  Position(S, s) < Position(S, t)
  <2>1. \A r \in S : r < s => r < t
    BY <1>1, <1>5
  <2>2. ~(s < s)
    BY <1>1
  <2>3. s \notin Before(s) /\ s \in Before(t) /\ Before(s) \subseteq Before(t) /\ Before(t) \subseteq S
    BY <1>5, <2>1, <2>2, Zenon
  <2>4. Cardinality(Before(s)) < Cardinality(Before(t))
    <3> HIDE DEF Before
    <3> QED
      BY <1>2, <1>3, <2>3
  <2> QED
    BY <2>4 DEF Position
<1> QED
  BY <1>4, <1>5

\* Numbering strings by position gives different numbers to different strings.
LEMMA NumbersDiffer ==
  ASSUME NEW S \in SUBSET Str, NEW c \in Nat
  PROVE  /\ NumberFrom(c, S) \in [S -> c..(c + Cardinality(S) - 1)]
         /\ \A s, t \in S : NumberFrom(c, S)[s] = NumberFrom(c, S)[t] => s = t
<1>1. Cardinality(S) \in Nat
  BY StrAssumption, FS_Subset, FS_CardinalityType
<1>2. \A s \in S : s \in Nat /\ Position(S, s) \in 0..(Cardinality(S) - 1)
  BY PositionOrder, StrAssumption
<1>3. \A s \in S : NumberFrom(c, S)[s] = c + Position(S, s)
  BY DEF NumberFrom
<1>4. \A s \in S : c + Position(S, s) \in c..(c + Cardinality(S) - 1)
  BY <1>1, <1>2
<1>5. ASSUME NEW s \in S, NEW t \in S, s # t
      PROVE  c + Position(S, s) # c + Position(S, t)
  <2>1. s < t \/ t < s
    BY <1>2, <1>5
  <2>2. Position(S, s) < Position(S, t) \/ Position(S, t) < Position(S, s)
    BY <2>1, PositionOrder
  <2> QED
    BY <1>1, <1>2, <2>2
<1> QED
  BY <1>3, <1>4, <1>5 DEF NumberFrom

-----------------------------------------------------------------------------
(* The operators of an encoder.                                            *)

\* Inserting new strings under new identifiers keeps an encoder good, and
\* keeps what it had (encode_new_in_memory_string).
LEMMA InsertGood ==
  ASSUME NEW e, Good(e), NEW S \in SUBSET Str, S \cap Strings(e) = {},
         NEW ids \in [S -> Nat \ Ids(e)], \A s, t \in S : ids[s] = ids[t] => s = t
  PROVE  /\ Good(InsertAll(e, ids))
         /\ Strings(InsertAll(e, ids)) = Strings(e) \cup S
         /\ Ids(InsertAll(e, ids)) = Ids(e) \cup Range(ids)
         /\ \A u \in Ids(e) : InsertAll(e, ids).rev[u] = e.rev[u]
<1> DEFINE made == InsertAll(e, ids)
<1>1. DOMAIN ids = S /\ Range(ids) = {ids[s] : s \in S}
  BY DEF Range
<1>2. Strings(made) = S \cup Strings(e) /\ Ids(made) = Range(ids) \cup Ids(e)
  BY <1>1 DEF InsertAll, Strings, Ids
<1>3. \A s \in S : made.map[s] = ids[s]
  BY <1>1 DEF InsertAll, Strings, Ids
<1>4. \A s \in Strings(e) : made.map[s] = e.map[s]
  BY <1>1 DEF InsertAll, Strings, Ids
<1>5. \A u \in Ids(e) : u \notin Range(ids) /\ made.rev[u] = e.rev[u]
  BY <1>1 DEF InsertAll, Strings, Ids
<1>6. \A s \in S : made.rev[ids[s]] = s
  <2> TAKE s \in S
  <2>1. ids[s] \in Range(ids)
    BY <1>1
  <2>2. made.rev[ids[s]] = CHOOSE t \in S : ids[t] = ids[s]
    BY <1>1, <2>1 DEF InsertAll
  <2>3. \A t \in S : ids[t] = ids[s] => t = s
    OBVIOUS
  <2> QED
    BY <2>2, <2>3
<1>7. made.map \in [Strings(made) -> Nat]
  <2>1. made.map = [s \in Strings(made) |-> made.map[s]]
    BY <1>1 DEF InsertAll, Strings
  <2>2. \A s \in Strings(made) : made.map[s] \in Nat
    BY <1>2, <1>3, <1>4 DEF Good
  <2> HIDE DEF made
  <2> QED
    BY <2>1, <2>2
<1>8. made.rev \in [Ids(made) -> Str]
  <2>1. made.rev = [u \in Ids(made) |-> made.rev[u]]
    BY <1>1 DEF InsertAll, Ids
  <2>2. \A u \in Ids(made) : made.rev[u] \in Str
    BY <1>1, <1>2, <1>5, <1>6 DEF Good
  <2> HIDE DEF made
  <2> QED
    BY <2>1, <2>2
<1> HIDE DEF made
<1>9. \A s \in Strings(made) : made.map[s] \in Ids(made) /\ made.rev[made.map[s]] = s
  BY <1>1, <1>2, <1>3, <1>4, <1>5, <1>6 DEF Good
<1>10. \A u \in Ids(made) : made.rev[u] \in Strings(made) /\ made.map[made.rev[u]] = u
  BY <1>1, <1>2, <1>3, <1>4, <1>5, <1>6 DEF Good
<1>11. Strings(made) \subseteq Str /\ Ids(made) \subseteq Nat
  BY <1>1, <1>2 DEF Good
<1>12. Good(made)
  BY <1>7, <1>8, <1>9, <1>10, <1>11 DEF Good
<1> QED
  BY <1>2, <1>3, <1>4, <1>5, <1>12 DEF made

\* Merging strings into an encoder whose counter is fresh keeps it good, keeps
\* what it had, and leaves the counter fresh (merge).
LEMMA MergeGood ==
  ASSUME NEW e, Good(e), NEW S \in SUBSET Str, NEW c \in Nat, \A u \in Ids(e) : u < c
  PROVE  /\ Good(MergeEnc(e, S, c))
         /\ Strings(MergeEnc(e, S, c)) = Strings(e) \cup S
         /\ Ids(e) \subseteq Ids(MergeEnc(e, S, c))
         /\ \A u \in Ids(e) : MergeEnc(e, S, c).rev[u] = e.rev[u]
         /\ MergeCounter(e, S, c) \in Nat
         /\ \A u \in Ids(MergeEnc(e, S, c)) : u < MergeCounter(e, S, c)
<1> DEFINE new == S \ Strings(e)
           ids == NumberFrom(c, new)
<1>1. Cardinality(new) \in Nat
  BY StrAssumption, FS_Subset, FS_CardinalityType
<1>2. /\ ids \in [new -> c..(c + Cardinality(new) - 1)]
      /\ \A s, t \in new : ids[s] = ids[t] => s = t
  BY NumbersDiffer
<1>3. \A n \in c..(c + Cardinality(new) - 1) : n \in Nat \ Ids(e) /\ n < c + Cardinality(new)
  BY <1>1
<1>4. ids \in [new -> Nat \ Ids(e)]
  <2> HIDE DEF new, ids
  <2> QED
    BY <1>2, <1>3
<1>5. /\ Good(InsertAll(e, ids))
      /\ Strings(InsertAll(e, ids)) = Strings(e) \cup new
      /\ Ids(InsertAll(e, ids)) = Ids(e) \cup Range(ids)
      /\ \A u \in Ids(e) : InsertAll(e, ids).rev[u] = e.rev[u]
  <2>1. new \in SUBSET Str /\ new \cap Strings(e) = {}
    OBVIOUS
  <2> HIDE DEF new, ids
  <2> QED
    BY ONLY Good(e), <1>2, <1>4, <2>1, InsertGood
<1>6. \A u \in Range(ids) : u < c + Cardinality(new)
  <2> HIDE DEF new, ids
  <2> QED
    BY <1>2, <1>3 DEF Range
<1>7. \A u \in Ids(e) : u < c + Cardinality(new)
  <2>1. Ids(e) \subseteq Nat
    BY DEF Good
  <2> QED
    BY <1>1, <2>1
<1>8. MergeEnc(e, S, c) = InsertAll(e, ids) /\ MergeCounter(e, S, c) = c + Cardinality(new)
  BY DEF MergeEnc, MergeCounter
<1>9. Strings(e) \cup new = Strings(e) \cup S
  OBVIOUS
<1> HIDE DEF new, ids
<1> QED
  BY <1>1, <1>5, <1>6, <1>7, <1>8, <1>9

\* Removing identifiers with their strings keeps an encoder good, and what is
\* left as it was (garbage_collect_cats).
LEMMA CollectGood ==
  ASSUME NEW e, Good(e), NEW U \in SUBSET Ids(e)
  PROVE  /\ Good(CollectEnc(e, U))
         /\ Ids(CollectEnc(e, U)) = Ids(e) \ U
         /\ \A u \in Ids(e) \ U : CollectEnc(e, U).rev[u] = e.rev[u]
<1> DEFINE made == CollectEnc(e, U)
           gone == {e.rev[u] : u \in U}
<1>1. Strings(made) = Strings(e) \ gone /\ Ids(made) = Ids(e) \ U
  BY DEF CollectEnc, Strings, Ids, Restrict
<1>2. \A s \in Strings(made) : made.map[s] = e.map[s]
  BY DEF CollectEnc, Strings, Ids, Restrict
<1>3. \A u \in Ids(made) : made.rev[u] = e.rev[u]
  BY DEF CollectEnc, Strings, Ids, Restrict
<1>4. made.map = [s \in Strings(made) |-> e.map[s]] /\ made.rev = [u \in Ids(made) |-> e.rev[u]]
  BY DEF CollectEnc, Strings, Ids, Restrict
<1>5. \A s \in Strings(made) : e.map[s] \in Ids(made)
  BY <1>1 DEF Good
<1>6. \A u \in Ids(made) : e.rev[u] \in Strings(made)
  <2> SUFFICES ASSUME NEW u \in Ids(made), NEW v \in U, e.rev[u] = e.rev[v]
               PROVE  FALSE
    BY <1>1 DEF Good
  <2> QED
    BY <1>1 DEF Good
<1> HIDE DEF made
<1> QED
  BY <1>1, <1>2, <1>3, <1>4, <1>5, <1>6 DEF Good, made

\* Numbering the strings anew gives a good encoder of the same strings, whose
\* identifiers are the first numbers, in the order of the strings (compact).
LEMMA CompactGood ==
  ASSUME NEW e, Good(e)
  PROVE  /\ Good(CompactEnc(e))
         /\ Strings(CompactEnc(e)) = Strings(e)
         /\ Ids(CompactEnc(e)) = 0..(Cardinality(Strings(e)) - 1)
         /\ \A s \in Strings(e) : CompactEnc(e).map[s] = Position(Strings(e), s)
<1> DEFINE made == CompactEnc(e)
           ids  == NumberFrom(0, Strings(e))
           Size == Cardinality(Strings(e))
<1>1. Strings(e) \in SUBSET Str /\ IsFiniteSet(Strings(e)) /\ Size \in Nat
  BY StrAssumption, FS_Subset, FS_CardinalityType DEF Good
<1>2. /\ ids \in [Strings(e) -> 0..(Size - 1)]
      /\ \A s, t \in Strings(e) : ids[s] = ids[t] => s = t
  BY <1>1, NumbersDiffer
<1>3. Range(ids) = 0..(Size - 1)
  <2> HIDE DEF ids
  <2> QED
    BY <1>1, <1>2, CountedOff
<1>4. /\ made.map = ids
      /\ made.rev = [u \in Range(ids) |-> CHOOSE s \in Strings(e) : ids[s] = u]
      /\ Strings(made) = Strings(e)
      /\ Ids(made) = Range(ids)
  BY <1>2 DEF CompactEnc, Strings, Ids
<1>5. \A s \in Strings(e) : ids[s] = Position(Strings(e), s)
  BY <1>1, PositionOrder DEF NumberFrom
<1> HIDE DEF made, ids
<1>6. \A u \in Range(ids) : made.rev[u] \in Strings(e) /\ ids[made.rev[u]] = u
  BY <1>2, <1>4 DEF Range
<1>7. \A s \in Strings(e) : ids[s] \in Range(ids) /\ made.rev[ids[s]] = s
  <2> TAKE s \in Strings(e)
  <2>1. ids[s] \in Range(ids)
    BY <1>2 DEF Range
  <2> QED
    BY <1>2, <1>6, <2>1
<1>8. made.rev \in [Ids(made) -> Str] /\ made.map \in [Strings(made) -> Nat]
  BY <1>1, <1>2, <1>4, <1>6
<1>9. \A s \in Strings(made) : made.map[s] \in Ids(made) /\ made.rev[made.map[s]] = s
  BY <1>4, <1>7
<1>10. \A u \in Ids(made) : made.rev[u] \in Strings(made) /\ made.map[made.rev[u]] = u
  BY <1>4, <1>6
<1>11. Strings(made) \subseteq Str /\ Ids(made) \subseteq Nat
  BY <1>1, <1>3, <1>4
<1>12. Good(made)
  BY <1>8, <1>9, <1>10, <1>11 DEF Good
<1> QED
  BY <1>3, <1>4, <1>5, <1>12 DEF made

\* The image of some identifiers is a good encoder of just these (image).
LEMMA ImageGood ==
  ASSUME NEW e, Good(e), NEW U \in SUBSET Ids(e)
  PROVE  /\ Good(ImageEnc(e, U))
         /\ Ids(ImageEnc(e, U)) = U
         /\ \A u \in U : ImageEnc(e, U).rev[u] = e.rev[u]
<1> DEFINE made == ImageEnc(e, U)
           rev  == [u \in U \cap Ids(e) |-> e.rev[u]]
<1>1. U \cap Ids(e) = U
  OBVIOUS
<1>2. /\ made.rev = rev
      /\ made.map = [s \in Range(rev) |-> CHOOSE u \in DOMAIN rev : rev[u] = s]
  BY DEF ImageEnc, Restrict
<1>3. Range(rev) = {e.rev[u] : u \in U} /\ DOMAIN rev = U
  BY <1>1 DEF Range
<1>4. Ids(made) = U /\ Strings(made) = {e.rev[u] : u \in U}
  BY <1>2, <1>3 DEF Strings, Ids
<1>5. \A u \in U : made.rev[u] = e.rev[u]
  BY <1>1, <1>2
<1>6. \A u \in U : made.map[e.rev[u]] = u
  <2> TAKE u \in U
  <2>1. made.map[e.rev[u]] = CHOOSE v \in DOMAIN rev : rev[v] = e.rev[u]
    BY <1>2, <1>3
  <2>2. u \in DOMAIN rev /\ \A v \in DOMAIN rev : rev[v] = e.rev[u] <=> v = u
    BY <1>1 DEF Good
  <2> QED
    BY <2>1, <2>2
<1>7. made.map \in [Strings(made) -> Nat]
  <2>1. made.map = [s \in Strings(made) |-> made.map[s]]
    BY <1>2, <1>3, <1>4
  <2>2. \A s \in Strings(made) : made.map[s] \in Nat
    BY <1>4, <1>6 DEF Good
  <2> HIDE DEF made
  <2> QED
    BY <2>1, <2>2
<1>8. made.rev \in [Ids(made) -> Str]
  BY <1>1, <1>2, <1>4 DEF Good
<1> HIDE DEF made, rev
<1>9. Good(made)
  BY <1>4, <1>5, <1>6, <1>7, <1>8 DEF Good
<1> QED
  BY <1>4, <1>5, <1>9 DEF made

\* The recomputed counter is above every identifier (recompute_counters).
LEMMA RecomputedFresh ==
  ASSUME NEW e, Ids(e) \in SUBSET Nat, Ids(e) # {}, NEW n \in Nat, \A u \in Ids(e) : u <= n
  PROVE  /\ RecomputedCounter(e) \in Nat
         /\ \A u \in Ids(e) : u < RecomputedCounter(e)
<1>1. \E u \in Ids(e) : \A v \in Ids(e) : v <= u
  BY GreatestExists
<1>2. LargestId(e) \in Ids(e) /\ \A v \in Ids(e) : v <= LargestId(e)
  BY <1>1 DEF LargestId
<1> QED
  BY <1>2 DEF RecomputedCounter

\* An identifier that is known has the position of its string as its rank.
LEMMA Ranks ==
  ASSUME NEW e, Good(e), NEW U \in SUBSET Ids(e)
  PROVE  {RankMap(e, U)[u] : u \in DOMAIN RankMap(e, U)} = {Position(Strings(e), e.rev[u]) : u \in U}
<1>1. \A u \in U : e.rev[u] \in Strings(e) /\ e.map[e.rev[u]] = u
  BY DEF Good
<1>2. \A u \in U : \A s \in Strings(e) : e.map[s] = u <=> s = e.rev[u]
  BY <1>1 DEF Good
<1>3. DOMAIN RankMap(e, U) = U
  BY <1>1 DEF RankMap
<1>4. \A u \in U : RankMap(e, U)[u] = Position(Strings(e), CHOOSE s \in Strings(e) : e.map[s] = u)
  BY <1>3 DEF RankMap
<1>5. \A u \in U : (CHOOSE s \in Strings(e) : e.map[s] = u) = e.rev[u]
  BY <1>1, <1>2
<1> QED
  BY <1>3, <1>4, <1>5
=============================================================================
