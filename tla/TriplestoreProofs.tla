------------------------- MODULE TriplestoreProofs -------------------------
(***************************************************************************)
(* Proofs about the triplestore, for any strings, graphs and calls and any *)
(* limit of the garbage collector.  A store is sound if its encoders are,  *)
(* and linked if they know the identifiers and predicates of its asserted  *)
(* tables.  Every call keeps both, and what it does to the rows is, once   *)
(* they are decoded, what GraphStore says of the quads.  A store is rooted *)
(* if its encoders know both maps with all their names: one that was not   *)
(* made by detaching always is.                                            *)
(***************************************************************************)
EXTENDS Triplestore, CatMapsProofs

Encs == [map : UNION {[S -> Nat] : S \in SUBSET Str}, rev : UNION {[U -> Str] : U \in SUBSET Nat}]
Row == Graph \X Pred \X Cat \X Nat \X Nat
Maps == [graphs : SUBSET Graph, preds : SUBSET (Graph \X Pred), rows : SUBSET Row]
Stores == [asserted : Maps, transient : Maps, present : SUBSET Cat, enc : [Cat -> Encs],
           counter : [Cat -> Nat], deleted : Nat, isDetached : BOOLEAN]

\* An encoder that a counter is fresh for.
Fresh(e, n) == Good(e) /\ n \in Nat /\ \A u \in Ids(e) : u < n

Sound(st) ==
  /\ st \in Stores
  /\ \A c \in Cat : Fresh(st.enc[c], st.counter[c])
  /\ \A c \in Cat : c \notin st.present => Ids(st.enc[c]) = {}

\* What AssertedDecodes says, row by row.
Linked(st) ==
  /\ \A r \in st.asserted.rows : r[4] \in Ids(st.enc["iri"]) /\ r[5] \in Ids(st.enc[r[3]])
  /\ \A k \in st.asserted.preds : k[2] \in Strings(st.enc["iri"])
  /\ \A r \in st.asserted.rows : PredKey(r) \in st.asserted.preds

\* The asserted quads of a store.
QuadsOf(st) == Quads(st, st.asserted)

\* The inductive invariant.
IInv == /\ Sound(store) /\ Sound(other)
        /\ Linked(store) /\ Linked(other)

-----------------------------------------------------------------------------
(* Encoders of stores.                                                     *)

\* A good pair of maps is an encoder.
LEMMA EncsAre ==
  ASSUME NEW m, NEW r, Good([map |-> m, rev |-> r])
  PROVE  [map |-> m, rev |-> r] \in Encs
<1> DEFINE e == [map |-> m, rev |-> r]
<1>1. e.map = m /\ e.rev = r
  OBVIOUS
<1>2. m \in [Strings(e) -> Nat] /\ r \in [Ids(e) -> Str] /\ Strings(e) \in SUBSET Str /\ Ids(e) \in SUBSET Nat
  BY <1>1 DEF Good
<1> HIDE DEF e
<1>3. m \in UNION {[S -> Nat] : S \in SUBSET Str}
  BY <1>2
<1>4. r \in UNION {[U -> Str] : U \in SUBSET Nat}
  BY <1>2
<1> QED
  BY <1>3, <1>4 DEF Encs

\* So is what the operators of CatMaps make.
LEMMA EncsMade ==
  ASSUME NEW e
  PROVE  /\ \A ids : Good(InsertAll(e, ids)) => InsertAll(e, ids) \in Encs
         /\ \A S, c : Good(MergeEnc(e, S, c)) => MergeEnc(e, S, c) \in Encs
         /\ \A U : Good(CollectEnc(e, U)) => CollectEnc(e, U) \in Encs
         /\ Good(CompactEnc(e)) => CompactEnc(e) \in Encs
         /\ \A U : Good(ImageEnc(e, U)) => ImageEnc(e, U) \in Encs
<1>1. \A ids : Good(InsertAll(e, ids)) => InsertAll(e, ids) \in Encs
  BY EncsAre DEF InsertAll
<1>2. \A U : Good(CollectEnc(e, U)) => CollectEnc(e, U) \in Encs
  BY EncsAre DEF CollectEnc
<1>3. Good(CompactEnc(e)) => CompactEnc(e) \in Encs
  BY EncsAre DEF CompactEnc
<1>4. \A U : Good(ImageEnc(e, U)) => ImageEnc(e, U) \in Encs
  BY EncsAre DEF ImageEnc
<1>5. \A S, c : Good(MergeEnc(e, S, c)) => MergeEnc(e, S, c) \in Encs
  BY <1>1 DEF MergeEnc
<1> QED
  BY <1>1, <1>2, <1>3, <1>4, <1>5

\* The empty encoder.
LEMMA EmptyGood == Good(EmptyEnc) /\ EmptyEnc \in Encs /\ Ids(EmptyEnc) = {} /\ Strings(EmptyEnc) = {}
<1>1. EmptyEnc.map = <<>> /\ EmptyEnc.rev = <<>>
  BY DEF EmptyEnc
<1>2. <<>> \in [{} -> Nat] /\ <<>> \in [{} -> Str] /\ DOMAIN <<>> = {}
  <2>1. DOMAIN <<>> = {}
    OBVIOUS
  <2>2. <<>> = [x \in {} |-> 0]
    OBVIOUS
  <2> QED
    BY <2>1, <2>2
<1>3. Strings(EmptyEnc) = {} /\ Ids(EmptyEnc) = {}
  BY <1>1, <1>2 DEF Strings, Ids
<1>4. Good(EmptyEnc)
  BY <1>1, <1>2, <1>3 DEF Good
<1> QED
  BY <1>3, <1>4, EncsAre DEF EmptyEnc

\* What an identifier stands for, and a string.
LEMMA GoodIs ==
  ASSUME NEW e, Good(e)
  PROVE  /\ \A u \in Ids(e) : e.rev[u] \in Strings(e) /\ e.map[e.rev[u]] = u /\ u \in Nat
         /\ \A s \in Strings(e) : e.map[s] \in Ids(e) /\ e.rev[e.map[s]] = s /\ s \in Str
         /\ Strings(e) \in SUBSET Str /\ Ids(e) \in SUBSET Nat
BY DEF Good

\* One store that grows out of another, with the same tables.
Grows(st, t) ==
  /\ t.asserted = st.asserted /\ t.transient = st.transient
  /\ t.isDetached = st.isDetached
  /\ \A c \in Cat : /\ Strings(st.enc[c]) \subseteq Strings(t.enc[c])
                    /\ Ids(st.enc[c]) \subseteq Ids(t.enc[c])
                    /\ \A u \in Ids(st.enc[c]) : t.enc[c].rev[u] = st.enc[c].rev[u]

\* Growing twice is growing.
LEMMA GrowsTransitive ==
  ASSUME NEW st, NEW t, NEW u, Grows(st, t), Grows(t, u)
  PROVE  Grows(st, u)
<1>1. /\ u.asserted = st.asserted /\ u.transient = st.transient
      /\ u.isDetached = st.isDetached
  BY DEF Grows
<1>2. ASSUME NEW c \in Cat
      PROVE  /\ Strings(st.enc[c]) \subseteq Strings(u.enc[c])
             /\ Ids(st.enc[c]) \subseteq Ids(u.enc[c])
             /\ \A v \in Ids(st.enc[c]) : u.enc[c].rev[v] = st.enc[c].rev[v]
  BY DEF Grows
<1> QED
  BY <1>1, <1>2 DEF Grows

\* Replacing the encoder and the counter of one category.
With(st, c, e, n) == [st EXCEPT !.present = @ \cup {c}, !.enc[c] = e, !.counter[c] = n]

\* It keeps a store sound, if the new encoder extends the old one.
LEMMA WithIs ==
  ASSUME NEW st, Sound(st), NEW c \in Cat, NEW e \in Encs, NEW n, Fresh(e, n),
         Strings(st.enc[c]) \subseteq Strings(e), Ids(st.enc[c]) \subseteq Ids(e),
         \A u \in Ids(st.enc[c]) : e.rev[u] = st.enc[c].rev[u]
  PROVE  /\ Sound(With(st, c, e, n)) /\ Grows(st, With(st, c, e, n))
         /\ With(st, c, e, n).enc[c] = e
<1> DEFINE t == With(st, c, e, n)
<1>1. n \in Nat /\ st \in Stores
  BY DEF Fresh, Sound
<1>2. /\ t \in Stores /\ t.asserted = st.asserted /\ t.transient = st.transient
      /\ t.present = st.present \cup {c} /\ t.isDetached = st.isDetached
      /\ t.enc = [st.enc EXCEPT ![c] = e] /\ t.counter = [st.counter EXCEPT ![c] = n]
  BY <1>1 DEF With, Stores
<1>3. st.enc \in [Cat -> Encs] /\ st.counter \in [Cat -> Nat]
  BY <1>1 DEF Stores
<1>4. /\ \A d \in Cat : t.enc[d] = IF d = c THEN e ELSE st.enc[d]
      /\ \A d \in Cat : t.counter[d] = IF d = c THEN n ELSE st.counter[d]
  BY <1>2, <1>3
<1> HIDE DEF t
<1>5. Sound(t)
  BY <1>2, <1>4 DEF Sound
<1>6. Grows(st, t)
  BY <1>2, <1>4 DEF Grows
<1> QED
  BY <1>4, <1>5, <1>6 DEF t

\* Merging strings into the encoder of a category (Cats::merge).
LEMMA MergeIntoIs ==
  ASSUME NEW st, Sound(st), NEW c \in Cat, NEW S \in SUBSET Str
  PROVE  /\ Sound(MergeInto(st, c, S)) /\ Grows(st, MergeInto(st, c, S))
         /\ S \subseteq Strings(MergeInto(st, c, S).enc[c])
<1> DEFINE e == MergeEnc(st.enc[c], S, st.counter[c])
           n == MergeCounter(st.enc[c], S, st.counter[c])
<1>1. Good(st.enc[c]) /\ st.counter[c] \in Nat /\ \A u \in Ids(st.enc[c]) : u < st.counter[c]
  BY DEF Sound, Fresh
<1>2. /\ Good(e) /\ n \in Nat /\ \A u \in Ids(e) : u < n
      /\ Strings(e) = Strings(st.enc[c]) \cup S
      /\ Ids(st.enc[c]) \subseteq Ids(e)
      /\ \A u \in Ids(st.enc[c]) : e.rev[u] = st.enc[c].rev[u]
  BY <1>1, MergeGood
<1>3. e \in Encs
  BY <1>2, EncsMade
<1>4. MergeInto(st, c, S) = With(st, c, e, n)
  BY DEF MergeInto, With
<1> HIDE DEF e, n
<1>5. Fresh(e, n)
  BY <1>2 DEF Fresh
<1>6. /\ Sound(With(st, c, e, n)) /\ Grows(st, With(st, c, e, n))
      /\ With(st, c, e, n).enc[c] = e
  BY <1>2, <1>3, <1>5, WithIs
<1> QED
  BY <1>2, <1>4, <1>6

\* The same for a column, which is merged if it has unknown strings.
LEMMA MergeColumnIs ==
  ASSUME NEW st, Sound(st), NEW c \in Cat, NEW S \in SUBSET Str
  PROVE  /\ Sound(MergeColumn(st, c, S)) /\ Grows(st, MergeColumn(st, c, S))
         /\ S \subseteq Strings(MergeColumn(st, c, S).enc[c])
<1>1. CASE S \subseteq Strings(st.enc[c])
  <2>1. MergeColumn(st, c, S) = st
    BY <1>1 DEF MergeColumn
  <2> QED
    BY <1>1, <2>1 DEF Grows
<1>2. CASE ~(S \subseteq Strings(st.enc[c]))
  <2>1. MergeColumn(st, c, S) = MergeInto(st, c, S)
    BY <1>2 DEF MergeColumn
  <2> QED
    BY <2>1, MergeIntoIs
<1> QED
  BY <1>1, <1>2

-----------------------------------------------------------------------------
(* Rows and quads.                                                         *)

\* The parts of a quad.
LEMMA QuadIs ==
  ASSUME NEW q \in Quad
  PROVE  /\ q = <<q[1], q[2], q[3], q[4], q[5]>>
         /\ q[1] \in Graph /\ q[2] \in Pred /\ q[3] \in Cat /\ q[4] \in Str /\ q[5] \in Str
         /\ q[2] \in Str
<1>1. \/ q \in Graph \X Pred \X {"iri"} \X Iri \X Iri
      \/ q \in Graph \X Pred \X {"lit"} \X Iri \X Lit
  BY QuadAssumption
<1>2. Iri \subseteq Str /\ Lit \subseteq Str /\ Pred \subseteq Iri
  BY NamesAssumption
<1>3. "iri" \in Cat /\ "lit" \in Cat
  BY DEF Cat
<1> QED
  BY <1>1, <1>2, <1>3

\* The parts of a row.
LEMMA RowIs ==
  ASSUME NEW r \in Row
  PROVE  /\ r = <<r[1], r[2], r[3], r[4], r[5]>>
         /\ r[1] \in Graph /\ r[2] \in Pred /\ r[3] \in Cat /\ r[4] \in Nat /\ r[5] \in Nat
BY DEF Row

\* The parts of a sound store.
LEMMA StoreIs ==
  ASSUME NEW st, Sound(st)
  PROVE  /\ st.asserted \in Maps /\ st.transient \in Maps
         /\ st.asserted.rows \in SUBSET Row /\ st.asserted.preds \in SUBSET (Graph \X Pred)
         /\ st.asserted.graphs \in SUBSET Graph
         /\ \A c \in Cat : /\ Good(st.enc[c]) /\ st.counter[c] \in Nat
                           /\ \A u \in Ids(st.enc[c]) : u < st.counter[c]
                           /\ st.enc[c] \in Encs
         /\ "iri" \in Cat
BY DEF Sound, Fresh, Stores, Maps, Cat

\* What a row that is known stands for.
LEMMA DecodeIs ==
  ASSUME NEW st, NEW r \in Row, r[4] \in Ids(st.enc["iri"]), r[5] \in Ids(st.enc[r[3]])
  PROVE  Decode(st, r) = <<r[1], r[2], r[3], st.enc["iri"].rev[r[4]], st.enc[r[3]].rev[r[5]]>>
BY DEF Decode, Term

\* The row of a quad stands for it.
LEMMA EncodeIs ==
  ASSUME NEW st, Sound(st), NEW q \in Quad, KnownQuad(st, q)
  PROVE  /\ Encode(st, q) \in Row
         /\ Encode(st, q)[1] = q[1] /\ Encode(st, q)[2] = q[2] /\ Encode(st, q)[3] = q[3]
         /\ Encode(st, q)[4] \in Ids(st.enc["iri"]) /\ Encode(st, q)[5] \in Ids(st.enc[q[3]])
         /\ Decode(st, Encode(st, q)) = q
<1> DEFINE r == Encode(st, q)
           e == st.enc["iri"]
           f == st.enc[q[3]]
<1>1. /\ q = <<q[1], q[2], q[3], q[4], q[5]>>
      /\ q[1] \in Graph /\ q[2] \in Pred /\ q[3] \in Cat
  BY QuadIs
<1>2. Good(e) /\ Good(f)
  BY <1>1, StoreIs
<1>3. /\ e.map[q[4]] \in Ids(e) /\ e.rev[e.map[q[4]]] = q[4] /\ e.map[q[4]] \in Nat
      /\ f.map[q[5]] \in Ids(f) /\ f.rev[f.map[q[5]]] = q[5] /\ f.map[q[5]] \in Nat
  BY <1>2, GoodIs DEF KnownQuad
<1>4. r = <<q[1], q[2], q[3], e.map[q[4]], f.map[q[5]]>>
  BY DEF Encode
<1>5. r \in Row /\ r[1] = q[1] /\ r[2] = q[2] /\ r[3] = q[3] /\ r[4] = e.map[q[4]] /\ r[5] = f.map[q[5]]
  BY <1>1, <1>3, <1>4 DEF Row
<1> HIDE DEF r
<1>6. Decode(st, r) = <<r[1], r[2], r[3], e.rev[r[4]], f.rev[r[5]]>>
  BY <1>3, <1>5, DecodeIs
<1> QED
  BY <1>1, <1>3, <1>5, <1>6 DEF r

\* Growing changes no quad.
LEMMA GrowsKeeps ==
  ASSUME NEW st, NEW t, Sound(st), Sound(t), Linked(st), Grows(st, t)
  PROVE  Linked(t) /\ QuadsOf(t) = QuadsOf(st)
<1>1. ASSUME NEW r \in st.asserted.rows
      PROVE  /\ r[4] \in Ids(t.enc["iri"]) /\ r[5] \in Ids(t.enc[r[3]])
             /\ Decode(t, r) = Decode(st, r)
  <2>1. r \in Row /\ r[3] \in Cat /\ "iri" \in Cat
    BY StoreIs, RowIs
  <2>2. r[4] \in Ids(st.enc["iri"]) /\ r[5] \in Ids(st.enc[r[3]])
    BY DEF Linked
  <2>3. /\ r[4] \in Ids(t.enc["iri"]) /\ r[5] \in Ids(t.enc[r[3]])
        /\ t.enc["iri"].rev[r[4]] = st.enc["iri"].rev[r[4]]
        /\ t.enc[r[3]].rev[r[5]] = st.enc[r[3]].rev[r[5]]
    BY <2>1, <2>2 DEF Grows
  <2> QED
    BY <2>1, <2>2, <2>3, DecodeIs
<1>2. t.asserted = st.asserted /\ Strings(st.enc["iri"]) \subseteq Strings(t.enc["iri"])
  BY StoreIs DEF Grows
<1>3. Linked(t)
  BY <1>1, <1>2 DEF Linked
<1> QED
  BY <1>1, <1>2, <1>3 DEF QuadsOf, Quads

-----------------------------------------------------------------------------
(* Adding.                                                                 *)

\* globalize makes the terms of a batch known.
LEMMA GlobalizeIs ==
  ASSUME NEW st, Sound(st), NEW Q \in SUBSET Quad, Q # {},
         \A q, r \in Q : <<q[1], q[2], q[3]>> = <<r[1], r[2], r[3]>>
  PROVE  /\ Sound(GlobalizeBatch(st, Q)) /\ Grows(st, GlobalizeBatch(st, Q))
         /\ \A q \in Q : KnownQuad(GlobalizeBatch(st, Q), q)
<1> DEFINE S == {q[4] : q \in Q}
           O == {q[5] : q \in Q}
           c == (CHOOSE q \in Q : TRUE)[3]
           mid == MergeColumn(st, "iri", S)
           t == MergeColumn(mid, c, O)
<1>1. S \in SUBSET Str /\ O \in SUBSET Str
  BY QuadIs
<1>2. c \in Cat /\ \A q \in Q : q[3] = c
  <2>1. (CHOOSE q \in Q : TRUE) \in Q
    OBVIOUS
  <2> DEFINE p == CHOOSE q \in Q : TRUE
  <2> HIDE DEF p
  <2>2. p \in Q
    BY <2>1 DEF p
  <2>3. \A q \in Q : q[3] = p[3]
    BY <2>2
  <2>4. p[3] \in Cat
    BY <2>2, QuadIs
  <2> QED
    BY <2>3, <2>4 DEF p
<1>3. "iri" \in Cat
  BY DEF Cat
<1>4. GlobalizeBatch(st, Q) = t
  BY DEF GlobalizeBatch
<1> HIDE DEF S, O, c
<1>5. Sound(mid) /\ Grows(st, mid) /\ S \subseteq Strings(mid.enc["iri"])
  BY <1>1, <1>3, MergeColumnIs
<1> HIDE DEF mid
<1>6. Sound(t) /\ Grows(mid, t) /\ O \subseteq Strings(t.enc[c])
  BY <1>1, <1>2, <1>5, MergeColumnIs
<1> HIDE DEF t
<1>7. Grows(st, t)
  BY <1>5, <1>6, GrowsTransitive
<1>8. S \subseteq Strings(t.enc["iri"])
  BY <1>3, <1>5, <1>6 DEF Grows
<1>9. \A q \in Q : KnownQuad(t, q)
  BY <1>2, <1>6, <1>8 DEF KnownQuad, S, O
<1> QED
  BY <1>4, <1>6, <1>7, <1>9

\* What is known stays known.
LEMMA KnownGrows ==
  ASSUME NEW st, NEW t, Grows(st, t), NEW q \in Quad, KnownQuad(st, q)
  PROVE  KnownQuad(t, q)
<1>1. q[3] \in Cat /\ "iri" \in Cat
  BY QuadIs DEF Cat
<1> QED
  BY <1>1 DEF KnownQuad, Grows

\* Numbering the new names in some order (encode_predicates_and_named_graphs).
LEMMA NamesAre ==
  ASSUME NEW st, Sound(st), NEW Q, \A q \in Q : q[1] \in Graph /\ q[2] \in Pred,
         NEW ids \in NameNumberings(st, Q)
  PROVE  /\ Sound(EncodeNames(st, ids)) /\ Grows(st, EncodeNames(st, ids))
         /\ \A q \in Q : q[2] \in Strings(EncodeNames(st, ids).enc["iri"])
         /\ \A q \in Q : q[1] \in Named => q[1] \in Strings(EncodeNames(st, ids).enc["iri"])
<1> DEFINE e == st.enc["iri"]
           n == NewNames(st, Q)
           c == st.counter["iri"]
           made == InsertAll(e, ids)
<1>1. "iri" \in Cat /\ Good(e) /\ c \in Nat /\ \A u \in Ids(e) : u < c
  BY StoreIs
<1>2. /\ n \in SUBSET Str /\ n \cap Strings(e) = {} /\ {q[2] : q \in Q} \subseteq n \cup Strings(e)
      /\ {q[1] : q \in Q} \cap Named \subseteq n \cup Strings(e)
  BY NamesAssumption DEF NewNames, GraphOf
<1>3. IsFiniteSet(n)
  BY <1>2, StrAssumption, FS_Subset
<1>4. Cardinality(n) \in Nat
  <2> HIDE DEF n
  <2> QED
    BY <1>3, FS_CardinalityType
<1>5. ids \in [n -> c..(c + Cardinality(n) - 1)] /\ Cardinality(Range(ids)) = Cardinality(n)
  BY DEF NameNumberings
<1> HIDE DEF n, e, c
<1>6. \A s, t \in n : ids[s] = ids[t] => s = t
  <2>1. ids \in Surjection(n, Range(ids))
    BY <1>5 DEF Surjection, Range
  <2>2. ids \in Injection(n, Range(ids))
    BY <1>3, <1>5, <2>1, FS_Surjection
  <2> QED
    BY <2>2 DEF Injection, IsInjective
<1>7. \A k \in c..(c + Cardinality(n) - 1) : k \in Nat \ Ids(e) /\ k < c + Cardinality(n)
  BY <1>1, <1>4
<1>8. ids \in [n -> Nat \ Ids(e)] /\ DOMAIN ids = n
  BY <1>5, <1>7
<1>9. /\ Good(made)
      /\ Strings(made) = Strings(e) \cup n
      /\ Ids(made) = Ids(e) \cup Range(ids)
      /\ \A u \in Ids(e) : made.rev[u] = e.rev[u]
  BY <1>1, <1>2, <1>6, <1>8, InsertGood
<1>10. c + Cardinality(n) \in Nat /\ \A u \in Ids(made) : u < c + Cardinality(n)
  <2>1. \A u \in Range(ids) : u < c + Cardinality(n)
    BY <1>5, <1>7 DEF Range
  <2>2. \A u \in Ids(e) : u \in Nat
    BY <1>1, GoodIs
  <2> QED
    BY <1>1, <1>4, <1>9, <2>1, <2>2
<1>11. made \in Encs
  BY <1>9, EncsMade
<1>12. EncodeNames(st, ids) = With(st, "iri", made, c + Cardinality(n))
  BY <1>8 DEF EncodeNames, With, e, c
<1> HIDE DEF made
<1>13. Fresh(made, c + Cardinality(n))
  BY <1>9, <1>10 DEF Fresh
<1>14. /\ Sound(With(st, "iri", made, c + Cardinality(n))) /\ Grows(st, With(st, "iri", made, c + Cardinality(n)))
       /\ With(st, "iri", made, c + Cardinality(n)).enc["iri"] = made
  BY <1>1, <1>9, <1>11, <1>13, WithIs DEF e
<1>15. \A q \in Q : q[2] \in Strings(made) /\ (q[1] \in Named => q[1] \in Strings(made))
  BY <1>2, <1>9
<1> QED
  BY <1>12, <1>14, <1>15

-----------------------------------------------------------------------------
(* Tables.                                                                 *)

\* Replacing the map of asserted triples, or that of transient ones.
LEMMA NewAsserted ==
  ASSUME NEW st, Sound(st), NEW m \in Maps
  PROVE  /\ Sound([st EXCEPT !.asserted = m])
         /\ [st EXCEPT !.asserted = m].asserted = m
         /\ [st EXCEPT !.asserted = m].enc = st.enc
         /\ [st EXCEPT !.asserted = m].transient = st.transient
<1> DEFINE t == [st EXCEPT !.asserted = m]
<1>1. st \in Stores
  BY DEF Sound
<1>2. /\ t \in Stores /\ t.asserted = m /\ t.transient = st.transient
      /\ t.present = st.present /\ t.enc = st.enc /\ t.counter = st.counter
  BY <1>1 DEF Stores
<1> HIDE DEF t
<1>3. Sound(t)
  BY <1>2 DEF Sound
<1> QED
  BY <1>2, <1>3 DEF t

\* The same for the transient map.
LEMMA NewTransient ==
  ASSUME NEW st, Sound(st), NEW m \in Maps
  PROVE  /\ Sound([st EXCEPT !.transient = m])
         /\ [st EXCEPT !.transient = m].asserted = st.asserted
         /\ [st EXCEPT !.transient = m].enc = st.enc
<1> DEFINE t == [st EXCEPT !.transient = m]
<1>1. st \in Stores
  BY DEF Sound
<1>2. /\ t \in Stores /\ t.asserted = st.asserted
      /\ t.present = st.present /\ t.enc = st.enc /\ t.counter = st.counter
  BY <1>1 DEF Stores
<1> HIDE DEF t
<1>3. Sound(t)
  BY <1>2 DEF Sound
<1> QED
  BY <1>2, <1>3 DEF t

\* With the same asserted map and encoders, a store has the same quads.
LEMMA SameQuads ==
  ASSUME NEW st, NEW t, Linked(st), t.asserted = st.asserted, t.enc = st.enc
  PROVE  Linked(t) /\ QuadsOf(t) = QuadsOf(st)
<1>1. Linked(t)
  BY DEF Linked
<1>2. \A r : Decode(t, r) = Decode(st, r)
  BY DEF Decode
<1>3. QuadsOf(t) = QuadsOf(st)
  BY <1>2 DEF QuadsOf, Quads
<1> QED
  BY <1>1, <1>3

\* A row that the encoders of a store know, with its predicate.
KnownRow(st, r) ==
  /\ r \in Row
  /\ r[4] \in Ids(st.enc["iri"]) /\ r[5] \in Ids(st.enc[r[3]])
  /\ r[2] \in Strings(st.enc["iri"])

\* Adding batches of known rows (add_global_cat_triples): no table is lost when
\* no batch is empty, so the rows are those of before and the new ones.
LEMMA AddGlobalIs ==
  ASSUME NEW st, Sound(st), Linked(st),
         NEW Rs, \A i \in DOMAIN Rs : Rs[i] # {} /\ \A r \in Rs[i] : KnownRow(st, r)
  PROVE  /\ Sound(AddGlobal(st, Rs, FALSE)) /\ Linked(AddGlobal(st, Rs, FALSE))
         /\ QuadsOf(AddGlobal(st, Rs, FALSE)) =
              QuadsOf(st) \cup UNION {{Decode(st, r) : r \in Rs[i]} : i \in DOMAIN Rs}
<1> DEFINE m == st.asserted
           added == UNION {Rs[i] : i \in DOMAIN Rs}
           new == [graphs |-> m.graphs \cup UNION {{GraphOf(r) : r \in Rs[i]} : i \in DOMAIN Rs},
                   preds |-> m.preds \cup {PredKey(r) : r \in added},
                   rows |-> m.rows \cup added]
           t == [st EXCEPT !.asserted = new]
<1>1. AddGlobal(st, Rs, FALSE) = t
  <2> DEFINE First(i) == \A j \in 1..(i - 1) : \A r \in Rs[j], x \in Rs[i] : Key(r) # Key(x)
             dropped == UNION {{Key(r) : r \in Rs[i]} :
                                 i \in {j \in DOMAIN Rs : First(j) /\ Rs[j] = {}}}
             added2 == UNION {Rs[i] : i \in DOMAIN Rs}
             new2 == [graphs |-> m.graphs \cup UNION {{GraphOf(r) : r \in Rs[i]} : i \in DOMAIN Rs},
                      preds |-> m.preds \cup {PredKey(r) : r \in added2},
                      rows |-> {r \in m.rows : Key(r) \notin dropped} \cup added2]
  <2>1. AddGlobal(st, Rs, FALSE) = [st EXCEPT !.asserted = new2]
    BY DEF AddGlobal, Remaining
  <2>2. dropped = {}
    OBVIOUS
  <2>3. {r \in m.rows : Key(r) \notin dropped} = m.rows
    BY <2>2
  <2> QED
    BY <2>1, <2>3
<1>2. \A r \in added : KnownRow(st, r)
  OBVIOUS
<1>3. new \in Maps
  <2>1. m.graphs \in SUBSET Graph /\ m.preds \in SUBSET (Graph \X Pred) /\ m.rows \in SUBSET Row
    BY StoreIs
  <2>2. \A r \in added : r \in Row
    BY <1>2 DEF KnownRow
  <2>3. \A r \in added : GraphOf(r) \in Graph /\ PredKey(r) \in Graph \X Pred
    BY <2>2, RowIs DEF GraphOf, PredKey
  <2>4. UNION {{GraphOf(r) : r \in Rs[i]} : i \in DOMAIN Rs} \subseteq Graph
    BY <2>3
  <2> HIDE DEF added
  <2>5. {PredKey(r) : r \in added} \subseteq Graph \X Pred
    BY <2>3
  <2> QED
    BY <2>1, <2>2, <2>4, <2>5 DEF Maps
<1>4. new.rows = m.rows \cup added /\ new.preds = m.preds \cup {PredKey(r) : r \in added}
  OBVIOUS
<1>5. UNION {{Decode(st, r) : r \in Rs[i]} : i \in DOMAIN Rs} = {Decode(st, r) : r \in added}
  OBVIOUS
<1> HIDE DEF new, added
<1>6. Sound(t) /\ t.asserted = new /\ t.enc = st.enc
  BY <1>3, NewAsserted
<1> HIDE DEF t
<1>7. Linked(t)
  <2>1. \A r \in new.rows : r[4] \in Ids(st.enc["iri"]) /\ r[5] \in Ids(st.enc[r[3]])
    BY <1>2, <1>4 DEF Linked, KnownRow
  <2>2. \A k \in new.preds : k[2] \in Strings(st.enc["iri"])
    BY <1>2, <1>4 DEF Linked, KnownRow, PredKey
  <2>3. \A r \in new.rows : PredKey(r) \in new.preds
    BY <1>4 DEF Linked
  <2> QED
    BY <1>6, <2>1, <2>2, <2>3 DEF Linked
<1>8. QuadsOf(t) = QuadsOf(st) \cup {Decode(st, r) : r \in added}
  <2>1. \A r : Decode(t, r) = Decode(st, r)
    BY <1>6 DEF Decode
  <2> QED
    BY <1>4, <1>6, <2>1 DEF QuadsOf, Quads
<1> QED
  BY <1>1, <1>5, <1>6, <1>7, <1>8

\* Adding transient rows leaves the asserted ones alone.
LEMMA AddGlobalTransient ==
  ASSUME NEW st, Sound(st), Linked(st),
         NEW Rs, \A i \in DOMAIN Rs : \A r \in Rs[i] : r \in Row
  PROVE  /\ Sound(AddGlobal(st, Rs, TRUE)) /\ Linked(AddGlobal(st, Rs, TRUE))
         /\ QuadsOf(AddGlobal(st, Rs, TRUE)) = QuadsOf(st)
<1> DEFINE m == st.transient
           Left(i) == Rs[i] \ st.asserted.rows
           First(i) == \A j \in 1..(i - 1) : \A r \in Rs[j], x \in Rs[i] : Key(r) # Key(x)
           dropped == UNION {{Key(r) : r \in Rs[i]} :
                               i \in {j \in DOMAIN Rs : First(j) /\ Left(j) = {}}}
           added == UNION {Left(i) : i \in DOMAIN Rs}
           new == [graphs |-> m.graphs \cup UNION {{GraphOf(r) : r \in Rs[i]} : i \in DOMAIN Rs},
                   preds |-> m.preds \cup {PredKey(r) : r \in added},
                   rows |-> {r \in m.rows : Key(r) \notin dropped} \cup added]
           t == [st EXCEPT !.transient = new]
<1>1. AddGlobal(st, Rs, TRUE) = t
  BY DEF AddGlobal, Remaining
<1>2. new \in Maps
  <2>1. m.graphs \in SUBSET Graph /\ m.preds \in SUBSET (Graph \X Pred) /\ m.rows \in SUBSET Row
    BY StoreIs DEF Maps
  <2>2. \A i \in DOMAIN Rs : \A r \in Rs[i] : GraphOf(r) \in Graph /\ PredKey(r) \in Graph \X Pred
    BY RowIs DEF GraphOf, PredKey
  <2>3. \A r \in added : r \in Row /\ PredKey(r) \in Graph \X Pred
    BY <2>2
  <2>4. UNION {{GraphOf(r) : r \in Rs[i]} : i \in DOMAIN Rs} \subseteq Graph
    BY <2>2
  <2> HIDE DEF added, dropped
  <2>5. {PredKey(r) : r \in added} \subseteq Graph \X Pred
    BY <2>3
  <2>6. {r \in m.rows : Key(r) \notin dropped} \cup added \in SUBSET Row
    BY <2>1, <2>3
  <2> QED
    BY <2>1, <2>4, <2>5, <2>6 DEF Maps
<1> HIDE DEF new
<1>3. Sound(t) /\ t.asserted = st.asserted /\ t.enc = st.enc
  BY <1>2, NewTransient
<1> HIDE DEF t
<1> QED
  BY <1>1, <1>3, SameQuads

\* The batches of a call are not empty, and of one key each.
LEMMA BatchesAre ==
  ASSUME NEW Qs \in Batches
  PROVE  /\ Len(Qs) \in {1, 2} /\ DOMAIN Qs = 1..Len(Qs)
         /\ \A i \in DOMAIN Qs :
              /\ Qs[i] \in SUBSET Quad /\ Qs[i] # {}
              /\ \A q, r \in Qs[i] : <<q[1], q[2], q[3]>> = <<r[1], r[2], r[3]>>
<1>1. Qs \in Seq(SUBSET Quad) /\ Len(Qs) \in {1, 2}
  BY InputAssumption
<1>2. DOMAIN Qs = 1..Len(Qs) /\ \A i \in DOMAIN Qs : Qs[i] \in SUBSET Quad
  BY <1>1
<1> QED
  BY <1>1, <1>2, InputAssumption

\* The strings of all batches are merged before anything is added.
LEMMA MergedIs ==
  ASSUME NEW st, Sound(st), NEW Qs \in Batches
  PROVE  LET merged == IF Len(Qs) = 1 THEN GlobalizeBatch(st, Qs[1])
                       ELSE GlobalizeBatch(GlobalizeBatch(st, Qs[1]), Qs[2])
         IN  /\ Sound(merged) /\ Grows(st, merged)
             /\ \A i \in DOMAIN Qs : \A q \in Qs[i] : KnownQuad(merged, q)
<1> DEFINE one == GlobalizeBatch(st, Qs[1])
           two == GlobalizeBatch(one, Qs[2])
<1>1. 1 \in DOMAIN Qs /\ (Len(Qs) = 1 => DOMAIN Qs = {1})
      /\ (Len(Qs) # 1 => DOMAIN Qs = {1, 2} /\ 2 \in DOMAIN Qs)
  BY BatchesAre
<1>2. Sound(one) /\ Grows(st, one) /\ \A q \in Qs[1] : KnownQuad(one, q)
  BY <1>1, BatchesAre, GlobalizeIs
<1> HIDE DEF one
<1>3. ASSUME Len(Qs) # 1
      PROVE  /\ Sound(two) /\ Grows(one, two)
             /\ \A q \in Qs[2] : KnownQuad(two, q)
  BY <1>1, <1>2, <1>3, BatchesAre, GlobalizeIs
<1>4. ASSUME Len(Qs) # 1
      PROVE  /\ Grows(st, two)
             /\ \A q \in Qs[1] : KnownQuad(two, q)
  <2>1. Grows(st, two)
    BY <1>2, <1>3, <1>4, GrowsTransitive
  <2>2. \A q \in Qs[1] : q \in Quad
    BY <1>1, BatchesAre
  <2> QED
    BY <1>2, <1>3, <1>4, <2>1, <2>2, KnownGrows
<1> HIDE DEF two
<1>5. CASE Len(Qs) = 1
  BY <1>1, <1>2, <1>5 DEF one
<1>6. CASE Len(Qs) # 1
  BY <1>1, <1>3, <1>4, <1>6 DEF one, two
<1> QED
  BY <1>5, <1>6

\* The rows of the batches of a call.
BatchRows(st, Qs) == [i \in DOMAIN Qs |-> {Encode(st, q) : q \in Qs[i]}]

\* A store that has grown to know the terms and names of the batches.
Prepared(st, Qs, named) ==
  /\ Sound(named) /\ Grows(st, named)
  /\ \A i \in DOMAIN Qs : \A q \in Qs[i] :
       /\ KnownRow(named, Encode(named, q))
       /\ Decode(named, Encode(named, q)) = q
       /\ Encode(named, q)[1] \in Named => Encode(named, q)[1] \in Strings(named.enc["iri"])

\* Before a call adds rows, its encoders grow.
LEMMA AddTriplesVecAdds ==
  ASSUME NEW st, Sound(st), NEW Qs \in Batches,
         NEW transient \in BOOLEAN, NEW s \in AddTriplesVec(st, Qs, transient)
  PROVE  \E named : Prepared(st, Qs, named) /\ s = AddGlobal(named, BatchRows(named, Qs), transient)
<1> DEFINE merged == IF Len(Qs) = 1 THEN GlobalizeBatch(st, Qs[1])
                     ELSE GlobalizeBatch(GlobalizeBatch(st, Qs[1]), Qs[2])
           all == UNION {Qs[i] : i \in DOMAIN Qs}
<1>1. Qs # <<>>
  BY BatchesAre
<1>2. PICK ids \in NameNumberings(merged, all) :
        s = AddGlobal(EncodeNames(merged, ids), BatchRows(EncodeNames(merged, ids), Qs), transient)
  BY <1>1 DEF AddTriplesVec, BatchRows
<1>3. /\ Sound(merged) /\ Grows(st, merged)
      /\ \A i \in DOMAIN Qs : \A q \in Qs[i] : KnownQuad(merged, q)
  BY MergedIs
<1>4. \A i \in DOMAIN Qs : Qs[i] \in SUBSET Quad /\ Qs[i] # {}
  BY BatchesAre
<1>5. \A q \in all : q \in Quad /\ q[1] \in Graph /\ q[2] \in Pred
  BY <1>4, QuadIs
<1> HIDE DEF merged
<1> DEFINE named == EncodeNames(merged, ids)
<1>6. /\ Sound(named) /\ Grows(merged, named)
      /\ \A q \in all : q[2] \in Strings(named.enc["iri"])
      /\ \A q \in all : q[1] \in Named => q[1] \in Strings(named.enc["iri"])
  <2> HIDE DEF all
  <2> QED
    BY <1>2, <1>3, <1>5, NamesAre
<1>7. Grows(st, named)
  BY <1>3, <1>6, GrowsTransitive
<1> HIDE DEF named
<1>8. s = AddGlobal(named, BatchRows(named, Qs), transient)
  BY <1>2 DEF named
<1>9. ASSUME NEW i \in DOMAIN Qs, NEW q \in Qs[i]
      PROVE  /\ KnownRow(named, Encode(named, q))
             /\ Decode(named, Encode(named, q)) = q
             /\ Encode(named, q)[1] \in Named => Encode(named, q)[1] \in Strings(named.enc["iri"])
  <2>1. q \in Quad /\ KnownQuad(named, q) /\ q[2] \in Strings(named.enc["iri"])
        /\ (q[1] \in Named => q[1] \in Strings(named.enc["iri"]))
    BY <1>3, <1>4, <1>6, KnownGrows
  <2> QED
    BY <1>6, <2>1, EncodeIs DEF KnownRow
<1> QED
  BY <1>6, <1>7, <1>8, <1>9 DEF Prepared

\* A call that adds quads adds just these to the asserted ones, and none if the
\* batches are transient (add_triples_vec).
LEMMA AddTriplesVecIs ==
  ASSUME NEW st, Sound(st), Linked(st), NEW Qs \in {<<>>} \cup Batches,
         NEW transient \in BOOLEAN, NEW s \in AddTriplesVec(st, Qs, transient)
  PROVE  /\ Sound(s) /\ Linked(s)
         /\ transient => QuadsOf(s) = QuadsOf(st)
         /\ ~transient => QuadsOf(s) = QuadsOf(st) \cup AllOf(Qs)
<1>1. CASE Qs = <<>>
  <2>1. s = st
    BY <1>1 DEF AddTriplesVec
  <2>2. AllOf(Qs) = {}
    BY <1>1 DEF AllOf
  <2> QED
    BY <2>1, <2>2
<1>2. CASE Qs \in Batches
  <2> PICK named : Prepared(st, Qs, named) /\ s = AddGlobal(named, BatchRows(named, Qs), transient)
    BY <1>2, AddTriplesVecAdds
  <2>1. /\ Sound(named) /\ Grows(st, named)
        /\ \A i \in DOMAIN Qs : \A q \in Qs[i] :
             KnownRow(named, Encode(named, q)) /\ Decode(named, Encode(named, q)) = q
    BY DEF Prepared
  <2>2. \A i \in DOMAIN Qs : Qs[i] \in SUBSET Quad /\ Qs[i] # {}
    BY <1>2, BatchesAre
  <2>3. Linked(named) /\ QuadsOf(named) = QuadsOf(st)
    BY <2>1, GrowsKeeps
  <2> DEFINE Rs == BatchRows(named, Qs)
  <2>4. DOMAIN Rs = DOMAIN Qs /\ \A i \in DOMAIN Qs : Rs[i] = {Encode(named, q) : q \in Qs[i]}
    BY DEF BatchRows
  <2>5. s = AddGlobal(named, Rs, transient)
    OBVIOUS
  <2> HIDE DEF Rs
  <2>6. \A i \in DOMAIN Rs : Rs[i] # {} /\ \A r \in Rs[i] : KnownRow(named, r)
    BY <2>1, <2>2, <2>4
  <2>7. CASE transient
    <3>1. \A i \in DOMAIN Rs : \A r \in Rs[i] : r \in Row
      BY <2>6 DEF KnownRow
    <3>2. s = AddGlobal(named, Rs, TRUE)
      BY <2>5, <2>7
    <3> QED
      BY <2>1, <2>3, <2>7, <3>1, <3>2, AddGlobalTransient
  <2>8. CASE ~transient
    <3>1. s = AddGlobal(named, Rs, FALSE)
      BY <2>5, <2>8
    <3>2. /\ Sound(s) /\ Linked(s)
          /\ QuadsOf(s) = QuadsOf(named) \cup UNION {{Decode(named, r) : r \in Rs[i]} : i \in DOMAIN Rs}
      <4>1. Sound(named) /\ Linked(named)
        BY <2>1, <2>3
      <4> QED
        BY <2>6, <3>1, <4>1, AddGlobalIs
    <3>3. UNION {{Decode(named, r) : r \in Rs[i]} : i \in DOMAIN Rs} = AllOf(Qs)
      <4>1. \A i \in DOMAIN Qs : {Decode(named, r) : r \in Rs[i]} = Qs[i]
        BY <2>1, <2>4
      <4> QED
        BY <2>4, <4>1 DEF AllOf
    <3> QED
      BY <2>3, <2>8, <3>2, <3>3
  <2> QED
    BY <2>7, <2>8
<1> QED
  BY <1>1, <1>2

-----------------------------------------------------------------------------
(* Deleting.                                                               *)

\* A row whose identifiers are known is the row of the quad it stands for.
LEMMA DecodeKnown ==
  ASSUME NEW st, Sound(st), NEW r \in Row, r[4] \in Ids(st.enc["iri"]), r[5] \in Ids(st.enc[r[3]])
  PROVE  KnownQuad(st, Decode(st, r)) /\ Encode(st, Decode(st, r)) = r
<1> DEFINE e == st.enc["iri"]
           f == st.enc[r[3]]
           q == Decode(st, r)
<1>1. r = <<r[1], r[2], r[3], r[4], r[5]>> /\ r[3] \in Cat
  BY RowIs
<1>2. Good(e) /\ Good(f)
  BY <1>1, StoreIs
<1>3. /\ e.rev[r[4]] \in Strings(e) /\ e.map[e.rev[r[4]]] = r[4]
      /\ f.rev[r[5]] \in Strings(f) /\ f.map[f.rev[r[5]]] = r[5]
  BY <1>2, GoodIs
<1>4. q = <<r[1], r[2], r[3], e.rev[r[4]], f.rev[r[5]]>>
  BY DecodeIs
<1>5. q[1] = r[1] /\ q[2] = r[2] /\ q[3] = r[3] /\ q[4] = e.rev[r[4]] /\ q[5] = f.rev[r[5]]
  BY <1>4
<1> HIDE DEF q
<1>6. KnownQuad(st, q)
  BY <1>3, <1>5 DEF KnownQuad
<1>7. Encode(st, q) = <<r[1], r[2], r[3], r[4], r[5]>>
  BY <1>3, <1>5 DEF Encode
<1> QED
  BY <1>1, <1>6, <1>7 DEF q

\* Deleting from a map makes a map.
LEMMA DeleteFromMapIs ==
  ASSUME NEW m \in Maps, NEW st, NEW D, NEW hidden
  PROVE  DeleteFromMap(m, st, D, hidden) \in Maps
<1> DEFINE del == {Encode(st, q) : q \in {d \in D : KnownQuad(st, d)}}
           touched == {Key(q) : q \in D}
           left == {r \in m.rows : /\ r \notin del
                                   /\ Key(r) \in touched => r \notin hidden}
           bare == {k \in {PredKey(q) : q \in D} : \A r \in left : PredKey(r) # k}
<1>1. DeleteFromMap(m, st, D, hidden) = [m EXCEPT !.rows = left, !.preds = @ \ bare]
  BY DEF DeleteFromMap
<1>2. left \subseteq m.rows
  OBVIOUS
<1> HIDE DEF left, bare
<1> QED
  BY <1>1, <1>2 DEF Maps

\* Changing the count of deletions changes nothing else.
LEMMA DeletedIs ==
  ASSUME NEW st, Sound(st), Linked(st), NEW n \in Nat
  PROVE  /\ Sound([st EXCEPT !.deleted = n]) /\ Linked([st EXCEPT !.deleted = n])
         /\ QuadsOf([st EXCEPT !.deleted = n]) = QuadsOf(st)
<1> DEFINE t == [st EXCEPT !.deleted = n]
<1>1. st \in Stores
  BY DEF Sound
<1>2. /\ t \in Stores /\ t.asserted = st.asserted
      /\ t.present = st.present /\ t.enc = st.enc /\ t.counter = st.counter
  BY <1>1 DEF Stores
<1> HIDE DEF t
<1>3. Sound(t)
  BY <1>2 DEF Sound
<1>4. Linked(t) /\ QuadsOf(t) = QuadsOf(st)
  BY <1>2, SameQuads
<1> QED
  BY <1>3, <1>4 DEF t

\* Deleting quads deletes just these from the asserted ones, and no row of a
\* quad that stays (delete_triples_vec).
LEMMA DeleteTriplesIs ==
  ASSUME NEW st, Sound(st), Linked(st), NEW D \in SUBSET Quad
  PROVE  /\ Sound(DeleteTriples(st, D)) /\ Linked(DeleteTriples(st, D))
         /\ DeleteTriples(st, D).deleted \in Nat
         /\ QuadsOf(DeleteTriples(st, D)) = QuadsOf(st) \ D
<1> DEFINE del == {Encode(st, q) : q \in {d \in D : KnownQuad(st, d)}}
           left == {r \in st.asserted.rows : r \notin del}
           bare == {k \in {PredKey(q) : q \in D} : \A r \in left : PredKey(r) # k}
           kept == [st.asserted EXCEPT !.rows = left, !.preds = @ \ bare]
           hid == DeleteFromMap(st.transient, st, D, kept.rows)
           t == DeleteTriples(st, D)
<1>1. kept = DeleteFromMap(st.asserted, st, D, {})
  BY DEF DeleteFromMap
<1>2. kept \in Maps /\ hid \in Maps
  BY <1>1, DeleteFromMapIs, StoreIs
<1>3. kept.rows = left /\ kept.preds = st.asserted.preds \ bare
  <2>1. st.asserted \in Maps
    BY StoreIs
  <2> HIDE DEF left, bare
  <2> QED
    BY <2>1 DEF Maps
<1>4. Cardinality(D) \in Nat
  <2>1. IsFiniteSet(D)
    BY QuadAssumption, FS_Subset
  <2> QED
    BY <2>1, FS_CardinalityType
<1>5. t = [st EXCEPT !.asserted = kept, !.transient = hid, !.deleted = @ + Cardinality(D)]
  BY <1>1 DEF DeleteTriples
<1> HIDE DEF kept, hid, t
<1>6. st \in Stores
  BY DEF Sound
<1>7. /\ t \in Stores /\ t.asserted = kept
      /\ t.present = st.present /\ t.enc = st.enc /\ t.counter = st.counter
  <2> HIDE DEF left, bare, del
  <2> DEFINE n == Cardinality(D)
  <2> HIDE DEF n
  <2>1. n \in Nat /\ t = [st EXCEPT !.asserted = kept, !.transient = hid, !.deleted = @ + n]
    BY <1>4, <1>5 DEF n
  <2>2. st.deleted + n \in Nat
    BY <1>6, <2>1 DEF Stores
  <2> QED
    BY <1>2, <1>6, <2>1, <2>2 DEF Stores
<1>8. Sound(t)
  BY <1>7 DEF Sound
<1>9. Linked(t)
  <2>1. \A r \in left : PredKey(r) \notin bare
    OBVIOUS
  <2>2. left \subseteq st.asserted.rows
    OBVIOUS
  <2> HIDE DEF left, bare
  <2>3. \A r \in left : PredKey(r) \in kept.preds
    BY <1>3, <2>1, <2>2 DEF Linked
  <2> QED
    BY <1>3, <1>7, <2>2, <2>3 DEF Linked
<1>10. QuadsOf(t) = QuadsOf(st) \ D
  <2>1. \A r : Decode(t, r) = Decode(st, r)
    BY <1>7 DEF Decode
  <2>2. QuadsOf(t) = {Decode(st, r) : r \in left}
    BY <1>3, <1>7, <2>1 DEF QuadsOf, Quads
  <2>3. ASSUME NEW r \in st.asserted.rows
        PROVE  r \in del <=> Decode(st, r) \in D
    <3>1. r \in Row /\ r[4] \in Ids(st.enc["iri"]) /\ r[5] \in Ids(st.enc[r[3]])
      BY StoreIs DEF Linked
    <3>2. KnownQuad(st, Decode(st, r)) /\ Encode(st, Decode(st, r)) = r
      BY <3>1, DecodeKnown
    <3>3. ASSUME r \in del
          PROVE  Decode(st, r) \in D
      <4>1. PICK q \in D : KnownQuad(st, q) /\ r = Encode(st, q)
        BY <3>3
      <4>2. q \in Quad
        OBVIOUS
      <4> QED
        BY <4>1, <4>2, EncodeIs
    <3> QED
      BY <3>2, <3>3
  <2>4. QuadsOf(st) = {Decode(st, r) : r \in st.asserted.rows}
    BY DEF QuadsOf, Quads
  <2>5. left = {r \in st.asserted.rows : Decode(st, r) \notin D}
    BY <2>3
  <2> HIDE DEF left, del
  <2> QED
    BY <2>2, <2>4, <2>5
<1>11. t.deleted \in Nat
  BY <1>7 DEF Stores
<1> QED
  BY <1>8, <1>9, <1>10, <1>11 DEF t

-----------------------------------------------------------------------------
(* Garbage collection.                                                     *)

\* A store with the same tables keeps its quads if the encoders keep the
\* identifiers in its rows and the names of its predicates.
LEMMA KeepsQuads ==
  ASSUME NEW st, NEW t, Sound(st), Linked(st), t.asserted = st.asserted,
         \A r \in st.asserted.rows :
           /\ r[4] \in Ids(t.enc["iri"]) /\ t.enc["iri"].rev[r[4]] = st.enc["iri"].rev[r[4]]
           /\ r[5] \in Ids(t.enc[r[3]]) /\ t.enc[r[3]].rev[r[5]] = st.enc[r[3]].rev[r[5]],
         \A k \in st.asserted.preds : k[2] \in Strings(t.enc["iri"])
  PROVE  Linked(t) /\ QuadsOf(t) = QuadsOf(st)
<1>1. \A r \in st.asserted.rows : r \in Row
  BY StoreIs
<1>2. ASSUME NEW r \in st.asserted.rows
      PROVE  Decode(t, r) = Decode(st, r)
  <2>1. r[4] \in Ids(st.enc["iri"]) /\ r[5] \in Ids(st.enc[r[3]])
    BY DEF Linked
  <2> QED
    BY <1>1, <2>1, DecodeIs
<1>3. Linked(t)
  BY DEF Linked
<1> QED
  BY <1>2, <1>3 DEF QuadsOf, Quads

\* An encoder after collection.
Collected(st, c) == CollectEnc(st.enc[c], Ids(st.enc[c]) \ UsedIds(st, c))

\* Collection keeps the identifiers that are in use, for what they stood for.
LEMMA CollectedEnc ==
  ASSUME NEW st, Sound(st), NEW c \in Cat
  PROVE  /\ Good(Collected(st, c)) /\ Collected(st, c) \in Encs
         /\ Ids(Collected(st, c)) \subseteq Ids(st.enc[c])
         /\ \A u \in Ids(st.enc[c]) \cap UsedIds(st, c) :
              u \in Ids(Collected(st, c)) /\ Collected(st, c).rev[u] = st.enc[c].rev[u]
<1> DEFINE U == Ids(st.enc[c]) \ UsedIds(st, c)
<1>1. U \in SUBSET Ids(st.enc[c])
  OBVIOUS
<1>2. Good(st.enc[c])
  BY StoreIs
<1>3. \A u \in Ids(st.enc[c]) \cap UsedIds(st, c) : u \in Ids(st.enc[c]) \ U
  OBVIOUS
<1> HIDE DEF U
<1>4. /\ Good(CollectEnc(st.enc[c], U))
      /\ Ids(CollectEnc(st.enc[c], U)) = Ids(st.enc[c]) \ U
      /\ \A u \in Ids(st.enc[c]) \ U : CollectEnc(st.enc[c], U).rev[u] = st.enc[c].rev[u]
  BY <1>1, <1>2, CollectGood
<1>5. CollectEnc(st.enc[c], U) \in Encs
  BY <1>4, EncsMade
<1> QED
  BY <1>3, <1>4, <1>5 DEF U, Collected

\* Collection keeps what is in use, and therefore the quads (garbage_collect).
LEMMA GarbageCollectedIs ==
  ASSUME NEW st, Sound(st), Linked(st)
  PROVE  /\ Sound(GarbageCollected(st)) /\ Linked(GarbageCollected(st))
         /\ QuadsOf(GarbageCollected(st)) = QuadsOf(st)
<1> DEFINE new == [c \in Cat |-> Collected(st, c)]
           t == GarbageCollected(st)
<1>1. ASSUME NEW c \in Cat
      PROVE  /\ Good(new[c]) /\ new[c] \in Encs
             /\ Ids(new[c]) \subseteq Ids(st.enc[c])
             /\ \A u \in Ids(st.enc[c]) \cap UsedIds(st, c) :
                  u \in Ids(new[c]) /\ new[c].rev[u] = st.enc[c].rev[u]
  BY CollectedEnc
<1>2. t = [st EXCEPT !.enc = new, !.deleted = 0]
  BY DEF GarbageCollected, Collected
<1>3. new \in [Cat -> Encs]
  BY <1>1
<1> HIDE DEF new, t
<1>4. st \in Stores
  BY DEF Sound
<1>5. /\ t \in Stores /\ t.asserted = st.asserted
      /\ t.present = st.present /\ t.enc = new /\ t.counter = st.counter
  BY <1>2, <1>3, <1>4 DEF Stores
<1>6. Sound(t)
  <2>1. ASSUME NEW c \in Cat
        PROVE  Fresh(t.enc[c], t.counter[c]) /\ (c \notin t.present => Ids(t.enc[c]) = {})
    BY <1>1, <1>5 DEF Sound, Fresh
  <2> QED
    BY <1>5, <2>1 DEF Sound
<1>7. ASSUME NEW r \in st.asserted.rows
      PROVE  /\ r[4] \in Ids(t.enc["iri"]) /\ t.enc["iri"].rev[r[4]] = st.enc["iri"].rev[r[4]]
             /\ r[5] \in Ids(t.enc[r[3]]) /\ t.enc[r[3]].rev[r[5]] = st.enc[r[3]].rev[r[5]]
  <2>1. r[3] \in Cat /\ "iri" \in Cat
    BY StoreIs, RowIs
  <2>2. r[4] \in Ids(st.enc["iri"]) /\ r[5] \in Ids(st.enc[r[3]])
    BY DEF Linked
  <2>3. r[4] \in UsedIds(st, "iri") /\ r[5] \in UsedIds(st, r[3])
    BY DEF UsedIds, IdsIn
  <2> QED
    BY <1>1, <1>5, <2>1, <2>2, <2>3
<1>8. ASSUME NEW k \in st.asserted.preds
      PROVE  k[2] \in Strings(t.enc["iri"])
  <2> DEFINE e == st.enc["iri"]
             u == e.map[k[2]]
  <2>1. k[2] \in Strings(e)
    BY DEF Linked
  <2>2. "iri" \in Cat /\ Good(e)
    BY StoreIs
  <2>3. u \in Ids(e) /\ e.rev[u] = k[2]
    BY <2>1, <2>2, GoodIs
  <2>4. u \in UsedIds(st, "iri")
    BY DEF UsedIds, NamesOf
  <2> HIDE DEF u
  <2>5. u \in Ids(new["iri"]) /\ new["iri"].rev[u] = k[2] /\ Good(new["iri"])
    BY <1>1, <2>2, <2>3, <2>4
  <2> QED
    BY <1>5, <2>5, GoodIs
<1>9. Linked(t) /\ QuadsOf(t) = QuadsOf(st)
  BY <1>5, <1>7, <1>8, KeepsQuads
<1> QED
  BY <1>6, <1>9 DEF t

-----------------------------------------------------------------------------
(* Compaction.                                                             *)

\* The strings of an encoder are no more than its counter.
LEMMA NoMoreThanCounter ==
  ASSUME NEW e, NEW n, Fresh(e, n)
  PROVE  Cardinality(Strings(e)) \in Nat /\ Cardinality(Strings(e)) <= n
<1> DEFINE S == Strings(e)
           T == 0..(n - 1)
<1>1. Good(e) /\ n \in Nat /\ \A u \in Ids(e) : u < n
  BY DEF Fresh
<1>2. S \in SUBSET Str /\ \A s \in S : e.map[s] \in Ids(e) /\ e.rev[e.map[s]] = s
  BY <1>1, GoodIs
<1>3. e.map \in [S -> Nat]
  BY <1>1 DEF Good
<1>4. e.map \in [S -> T]
  BY <1>1, <1>2, <1>3, GoodIs
<1>5. \A s, t \in S : e.map[s] = e.map[t] => s = t
  BY <1>2
<1>6. IsFiniteSet(S)
  BY <1>2, StrAssumption, FS_Subset
<1> HIDE DEF S
<1>7. e.map \in Injection(S, T)
  BY <1>4, <1>5 DEF Injection, IsInjective
<1> HIDE DEF T
<1>8. IsFiniteSet(T) /\ Cardinality(T) = n
  BY <1>1, FS_Interval DEF T
<1>9. Cardinality(S) <= Cardinality(T)
  BY <1>7, <1>8, FS_Injection
<1>10. Cardinality(S) \in Nat
  BY <1>6, FS_CardinalityType
<1> QED
  BY <1>8, <1>9, <1>10 DEF S

\* What compaction makes of an encoder.
LEMMA CompactedEnc ==
  ASSUME NEW e, NEW n, Fresh(e, n)
  PROVE  /\ Fresh(CompactEnc(e), n) /\ CompactEnc(e) \in Encs
         /\ Strings(CompactEnc(e)) = Strings(e)
         /\ Ids(e) = {} => Fresh(CompactEnc(e), 0) /\ Ids(CompactEnc(e)) = {}
         /\ Ids(e) # {} => Fresh(CompactEnc(e), RecomputedCounter(CompactEnc(e)))
<1> DEFINE f == CompactEnc(e)
           k == Cardinality(Strings(e))
<1>1. Good(e) /\ n \in Nat
  BY DEF Fresh
<1>2. Good(f) /\ Strings(f) = Strings(e) /\ Ids(f) = 0..(k - 1)
  BY <1>1, CompactGood
<1>3. k \in Nat /\ k <= n
  BY NoMoreThanCounter
<1>4. f \in Encs
  BY <1>2, EncsMade
<1> HIDE DEF f, k
<1>5. Fresh(f, n)
  BY <1>1, <1>2, <1>3 DEF Fresh
<1>6. ASSUME Ids(e) = {}
      PROVE  Ids(f) = {}
  <2>1. Strings(e) = {}
    BY <1>1, <1>6, GoodIs
  <2>2. \A u \in Ids(f) : f.rev[u] \in Strings(e)
    BY <1>2, GoodIs
  <2> QED
    BY <2>1, <2>2
<1>7. Ids(e) = {} => Fresh(f, 0)
  BY <1>2, <1>6 DEF Fresh
<1>8. ASSUME Ids(e) # {}
      PROVE  Fresh(f, RecomputedCounter(f))
  <2>1. Ids(f) # {}
    <3>1. PICK s \in Strings(e) : TRUE
      BY <1>1, <1>8, GoodIs
    <3> QED
      BY <1>2, <3>1, GoodIs
  <2>2. Ids(f) \in SUBSET Nat /\ \A u \in Ids(f) : u <= k
    BY <1>2, <1>3
  <2>3. RecomputedCounter(f) \in Nat /\ \A u \in Ids(f) : u < RecomputedCounter(f)
    BY <1>3, <2>1, <2>2, RecomputedFresh
  <2> QED
    BY <1>2, <2>3 DEF Fresh
<1> QED
  BY <1>2, <1>4, <1>5, <1>6, <1>7, <1>8 DEF f

\* The rank of an identifier that is known stands for the same string.
LEMMA RankIs ==
  ASSUME NEW e, Good(e), NEW u \in Ids(e)
  PROVE  /\ RankMap(e, {u})[u] \in Ids(CompactEnc(e))
         /\ CompactEnc(e).rev[RankMap(e, {u})[u]] = e.rev[u]
<1> DEFINE R == RankMap(e, {u})
           s == e.rev[u]
<1>1. s \in Strings(e) /\ e.map[s] = u
  BY GoodIs
<1>2. DOMAIN R = {u}
  BY <1>1 DEF RankMap
<1>3. {R[v] : v \in DOMAIN R} = {Position(Strings(e), e.rev[v]) : v \in {u}}
  BY Ranks
<1> HIDE DEF R, s
<1>4. R[u] = Position(Strings(e), s)
  BY <1>2, <1>3 DEF s
<1>5. /\ Good(CompactEnc(e)) /\ Strings(CompactEnc(e)) = Strings(e)
      /\ CompactEnc(e).map[s] = R[u]
  BY <1>1, <1>4, CompactGood
<1> QED
  BY <1>1, <1>5, GoodIs DEF R, s

\* What compaction makes of a row, when the encoders know its identifiers.
LEMMA RenumberedIs ==
  ASSUME NEW st, Sound(st), NEW new, new = [c \in Cat |-> CompactEnc(st.enc[c])],
         NEW r \in Row, r[4] \in Ids(st.enc["iri"]), r[5] \in Ids(st.enc[r[3]])
  PROVE  LET x == Renumbered(st, r)
         IN  /\ x \in Row /\ x[1] = r[1] /\ x[2] = r[2] /\ x[3] = r[3]
             /\ x[4] \in Ids(new["iri"]) /\ new["iri"].rev[x[4]] = st.enc["iri"].rev[r[4]]
             /\ x[5] \in Ids(new[r[3]]) /\ new[r[3]].rev[x[5]] = st.enc[r[3]].rev[r[5]]
<1> DEFINE x == Renumbered(st, r)
           a == RankMap(st.enc["iri"], {r[4]})[r[4]]
           b == RankMap(st.enc[r[3]], {r[5]})[r[5]]
<1>1. r[1] \in Graph /\ r[2] \in Pred /\ r[3] \in Cat /\ "iri" \in Cat
  BY RowIs, StoreIs
<1>2. Good(st.enc["iri"]) /\ Good(st.enc[r[3]])
  BY <1>1, StoreIs
<1>3. new["iri"] = CompactEnc(st.enc["iri"]) /\ new[r[3]] = CompactEnc(st.enc[r[3]])
  BY <1>1
<1>4. /\ a \in Ids(new["iri"]) /\ new["iri"].rev[a] = st.enc["iri"].rev[r[4]]
      /\ b \in Ids(new[r[3]]) /\ new[r[3]].rev[b] = st.enc[r[3]].rev[r[5]]
  BY <1>2, <1>3, RankIs
<1>5. a \in Nat /\ b \in Nat
  <2>1. Good(new["iri"]) /\ Good(new[r[3]])
    BY <1>2, <1>3, CompactGood
  <2> QED
    BY <1>4, <2>1, GoodIs
<1>6. x = <<r[1], r[2], r[3], a, b>>
  BY DEF Renumbered
<1> HIDE DEF x, a, b
<1>7. x[1] = r[1] /\ x[2] = r[2] /\ x[3] = r[3] /\ x[4] = a /\ x[5] = b
  BY <1>6
<1>8. x \in Row
  BY <1>1, <1>5, <1>6 DEF Row
<1> QED
  BY <1>4, <1>7, <1>8 DEF x

\* Compacting a map makes a map, if the identifiers of its rows are known.
LEMMA CompactMapIs ==
  ASSUME NEW st, Sound(st), NEW m \in Maps,
         \A r \in m.rows : r[4] \in Ids(st.enc["iri"]) /\ r[5] \in Ids(st.enc[r[3]])
  PROVE  CompactMap(m, st) \in Maps
<1> DEFINE rows == {Renumbered(st, r) : r \in m.rows}
           new == [c \in Cat |-> CompactEnc(st.enc[c])]
<1>1. \A r \in m.rows : r \in Row
  BY DEF Maps
<1>2. \A r \in m.rows : Renumbered(st, r) \in Row
  <2> HIDE DEF new
  <2>1. new = [c \in Cat |-> CompactEnc(st.enc[c])]
    BY DEF new
  <2> QED
    BY <1>1, <2>1, RenumberedIs
<1>3. rows \in SUBSET Row
  BY <1>2
<1>4. \A r \in rows : GraphOf(r) \in Graph /\ PredKey(r) \in Graph \X Pred
  BY <1>3, RowIs DEF GraphOf, PredKey
<1>5. CompactMap(m, st) = [graphs |-> {GraphOf(r) : r \in rows}, preds |-> {PredKey(r) : r \in rows}, rows |-> rows]
  BY DEF CompactMap
<1> HIDE DEF rows
<1>6. {GraphOf(r) : r \in rows} \in SUBSET Graph /\ {PredKey(r) : r \in rows} \in SUBSET (Graph \X Pred)
  BY <1>4
<1> QED
  BY <1>3, <1>5, <1>6 DEF Maps

\* Compaction renumbers tables and encoders alike, so the quads stay, and the
\* counters are fresh for the new identifiers (compact, recompute_counters).
LEMMA CompactedIs ==
  ASSUME NEW st, Sound(st), Linked(st), ~CompactPanics(st)
  PROVE  /\ Sound(Compacted(st)) /\ Linked(Compacted(st))
         /\ QuadsOf(Compacted(st)) = QuadsOf(st)
<1> DEFINE new == [c \in Cat |-> CompactEnc(st.enc[c])]
           as == CompactMap(st.asserted, st)
           tr == CompactMap(st.transient, st)
           n == Counters(st.present, new)
           t == Compacted(st)
<1>1. ASSUME NEW c \in Cat
      PROVE  Fresh(new[c], n[c]) /\ new[c] \in Encs /\ Strings(new[c]) = Strings(st.enc[c])
             /\ (c \notin st.present => Ids(new[c]) = {})
  <2>1. new[c] = CompactEnc(st.enc[c])
    OBVIOUS
  <2>2. Fresh(st.enc[c], st.counter[c]) /\ (c \notin st.present => Ids(st.enc[c]) = {})
    BY DEF Sound
  <2>3. n[c] = IF c \in st.present THEN RecomputedCounter(new[c]) ELSE 0
    BY DEF Counters
  <2>4. c \in st.present => Ids(st.enc[c]) # {}
    BY DEF CompactPanics, CounterPanics
  <2> HIDE DEF n, new
  <2> QED
    BY <2>1, <2>2, <2>3, <2>4, CompactedEnc
<1>2. ASSUME NEW r \in st.asserted.rows \cup st.transient.rows
      PROVE  r \in Row /\ r[4] \in Ids(st.enc["iri"]) /\ r[5] \in Ids(st.enc[r[3]])
  <2>1. r \in Row
    BY StoreIs DEF Maps
  <2>2. r[3] \in Cat /\ "iri" \in Cat
    BY <2>1, RowIs, StoreIs
  <2> DEFINE R == st.asserted.rows \cup st.transient.rows
  <2>3. \A c \in Cat : IdsIn(R, c) \subseteq Ids(st.enc[c])
    BY DEF CompactPanics
  <2>4. r[4] \in IdsIn(R, "iri") /\ r[5] \in IdsIn(R, r[3])
    BY DEF IdsIn
  <2> HIDE DEF R
  <2> QED
    BY <2>1, <2>2, <2>3, <2>4
<1>3. as \in Maps /\ tr \in Maps
  BY <1>2, StoreIs, CompactMapIs
<1>4. /\ as.rows = {Renumbered(st, r) : r \in st.asserted.rows}
      /\ as.preds = {PredKey(r) : r \in as.rows}
  BY DEF CompactMap
<1>5. \A c \in Cat : n[c] \in Nat
  BY <1>1 DEF Fresh
<1>6. n \in [Cat -> Nat]
  <2>1. n = [c \in Cat |-> n[c]]
    BY DEF Counters
  <2> HIDE DEF n
  <2> QED
    BY <1>5, <2>1
<1>7. new \in [Cat -> Encs]
  BY <1>1
<1>8. t = [st EXCEPT !.asserted = as, !.transient = tr, !.enc = new, !.counter = n]
  BY DEF Compacted
<1>9. new = [c \in Cat |-> CompactEnc(st.enc[c])]
  OBVIOUS
<1> HIDE DEF new, as, tr, n, t
<1>10. st \in Stores
  BY DEF Sound
<1>11. /\ t \in Stores /\ t.asserted = as
       /\ t.present = st.present /\ t.enc = new /\ t.counter = n
  BY <1>3, <1>6, <1>7, <1>8, <1>10 DEF Stores
<1>12. Sound(t)
  BY <1>1, <1>11 DEF Sound
<1>13. ASSUME NEW r \in st.asserted.rows
       PROVE  LET x == Renumbered(st, r)
              IN  /\ x \in Row /\ x[1] = r[1] /\ x[2] = r[2] /\ x[3] = r[3]
                  /\ x[4] \in Ids(new["iri"]) /\ new["iri"].rev[x[4]] = st.enc["iri"].rev[r[4]]
                  /\ x[5] \in Ids(new[r[3]]) /\ new[r[3]].rev[x[5]] = st.enc[r[3]].rev[r[5]]
  BY <1>2, <1>9, RenumberedIs
<1>14. Linked(t)
  <2>1. \A x \in as.rows : x[4] \in Ids(new["iri"]) /\ x[5] \in Ids(new[x[3]])
    BY <1>4, <1>13
  <2>2. \A x \in as.rows : x[2] \in Strings(new["iri"])
    <3>1. \A r \in st.asserted.rows : r[2] \in Strings(st.enc["iri"])
      BY DEF Linked, PredKey
    <3>2. Strings(new["iri"]) = Strings(st.enc["iri"])
      BY <1>1, StoreIs
    <3> QED
      BY <1>4, <1>13, <3>1, <3>2
  <2>3. \A k \in as.preds : k[2] \in Strings(new["iri"])
    BY <1>4, <2>2 DEF PredKey
  <2> QED
    BY <1>4, <1>11, <2>1, <2>3 DEF Linked
<1>15. QuadsOf(t) = QuadsOf(st)
  <2>1. ASSUME NEW r \in st.asserted.rows
        PROVE  Decode(t, Renumbered(st, r)) = Decode(st, r)
    <3>1. r[4] \in Ids(st.enc["iri"]) /\ r[5] \in Ids(st.enc[r[3]]) /\ r \in Row
      BY <1>2
    <3> DEFINE x == Renumbered(st, r)
    <3>2. /\ x \in Row /\ x[1] = r[1] /\ x[2] = r[2] /\ x[3] = r[3]
          /\ x[4] \in Ids(t.enc["iri"]) /\ t.enc["iri"].rev[x[4]] = st.enc["iri"].rev[r[4]]
          /\ x[5] \in Ids(t.enc[r[3]]) /\ t.enc[r[3]].rev[x[5]] = st.enc[r[3]].rev[r[5]]
      BY <1>11, <1>13
    <3> HIDE DEF x
    <3>3. Decode(t, x) = <<x[1], x[2], x[3], t.enc["iri"].rev[x[4]], t.enc[x[3]].rev[x[5]]>>
      BY <3>2, DecodeIs
    <3>4. Decode(t, x) = Decode(st, r)
      BY <3>1, <3>2, <3>3, DecodeIs
    <3> QED
      BY <3>4 DEF x
  <2>2. QuadsOf(t) = {Decode(t, x) : x \in as.rows}
    BY <1>11 DEF QuadsOf, Quads
  <2> QED
    BY <1>4, <2>1, <2>2 DEF QuadsOf, Quads
<1> QED
  BY <1>12, <1>14, <1>15 DEF t

\* A compaction that panics leaves no table, and encoders that are still sound.
LEMMA DrainedIs ==
  ASSUME NEW st, Sound(st)
  PROVE  /\ Sound(Drained(st)) /\ Linked(Drained(st))
         /\ QuadsOf(Drained(st)) = {}
<1> DEFINE new == [c \in Cat |-> CompactEnc(st.enc[c])]
           t == Drained(st)
<1>1. ASSUME NEW c \in Cat
      PROVE  Fresh(new[c], st.counter[c]) /\ new[c] \in Encs
             /\ (c \notin st.present => Ids(new[c]) = {})
  <2>1. new[c] = CompactEnc(st.enc[c])
    OBVIOUS
  <2>2. Fresh(st.enc[c], st.counter[c]) /\ (c \notin st.present => Ids(st.enc[c]) = {})
    BY DEF Sound
  <2> HIDE DEF new
  <2> QED
    BY <2>1, <2>2, CompactedEnc
<1>2. new \in [Cat -> Encs]
  BY <1>1
<1>3. t = [st EXCEPT !.asserted = NoMap, !.transient = NoMap, !.enc = new]
  BY DEF Drained
<1>4. NoMap \in Maps /\ NoMap.rows = {} /\ NoMap.preds = {}
  BY DEF NoMap, Maps
<1> HIDE DEF new, t
<1>5. st \in Stores
  BY DEF Sound
<1>6. /\ t \in Stores /\ t.asserted = NoMap
      /\ t.present = st.present /\ t.enc = new /\ t.counter = st.counter
  BY <1>2, <1>3, <1>4, <1>5 DEF Stores
<1>7. Sound(t)
  BY <1>1, <1>6 DEF Sound
<1>8. Linked(t)
  BY <1>4, <1>6 DEF Linked
<1>9. QuadsOf(t) = {}
  BY <1>4, <1>6 DEF QuadsOf, Quads
<1> QED
  BY <1>7, <1>8, <1>9 DEF t

-----------------------------------------------------------------------------
(* Truncating and detaching.                                               *)

\* A map without one of its graphs, and the part of a map for one graph.
LEMMA WithoutIs ==
  ASSUME NEW m \in Maps, NEW g
  PROVE  Without(m, g) \in Maps
BY DEF Without, Maps

\* The part of a map for one graph is a map.
LEMMA OnlyGraphIs ==
  ASSUME NEW m \in Maps, NEW g, NEW h \in Graph
  PROVE  OnlyGraph(m, g, h) \in Maps
<1>1. CASE g \notin m.graphs
  BY <1>1 DEF OnlyGraph, NoMap, Maps
<1>2. CASE g \in m.graphs
  <2> DEFINE P == {<<h, k[2]>> : k \in {x \in m.preds : x[1] = g}}
             R == {<<h, r[2], r[3], r[4], r[5]>> : r \in {x \in m.rows : GraphOf(x) = g}}
  <2>1. m.preds \in SUBSET (Graph \X Pred) /\ m.rows \in SUBSET Row
    BY DEF Maps
  <2>2. P \in SUBSET (Graph \X Pred)
    BY <2>1
  <2>3. R \in SUBSET Row
    <3>1. \A r \in m.rows : <<h, r[2], r[3], r[4], r[5]>> \in Row
      BY <2>1, RowIs DEF Row
    <3> QED
      BY <3>1
  <2>4. OnlyGraph(m, g, h) = [graphs |-> {h}, preds |-> P, rows |-> R]
    BY <1>2 DEF OnlyGraph
  <2> HIDE DEF P, R
  <2> QED
    BY <2>2, <2>3, <2>4 DEF Maps
<1> QED
  BY <1>1, <1>2

\* A store with two other maps.
Replaced(st, a, m) == [st EXCEPT !.asserted = a, !.transient = m]

\* A store whose asserted map lost a graph has lost its quads and no others.
LEMMA GraphLeaves ==
  ASSUME NEW st, Sound(st), Linked(st), NEW g, NEW a \in Maps, NEW m \in Maps,
         a.rows = {r \in st.asserted.rows : GraphOf(r) # g},
         a.preds = {k \in st.asserted.preds : k[1] # g}
  PROVE  /\ Sound(Replaced(st, a, m)) /\ Linked(Replaced(st, a, m))
         /\ QuadsOf(Replaced(st, a, m)) = {q \in QuadsOf(st) : q[1] # g}
<1> DEFINE t == Replaced(st, a, m)
<1>1. st \in Stores
  BY DEF Sound
<1>2. /\ t \in Stores /\ t.asserted = a
      /\ t.present = st.present /\ t.enc = st.enc /\ t.counter = st.counter
  BY <1>1 DEF Stores, Replaced
<1> HIDE DEF t
<1>3. Sound(t)
  BY <1>2 DEF Sound
<1>4. Linked(t)
  BY <1>2 DEF Linked, GraphOf, PredKey
<1>5. QuadsOf(t) = {q \in QuadsOf(st) : q[1] # g}
  <2>1. \A r : Decode(t, r) = Decode(st, r) /\ Decode(st, r)[1] = GraphOf(r)
    BY <1>2 DEF Decode, GraphOf
  <2> QED
    BY <1>2, <2>1 DEF QuadsOf, Quads
<1> QED
  BY <1>3, <1>4, <1>5 DEF t

\* truncate, and what detach_graph leaves behind.
LEMMA TruncatedIs ==
  ASSUME NEW st, Sound(st), Linked(st), NEW g
  PROVE  /\ Sound(Truncated(st, g)) /\ Linked(Truncated(st, g))
         /\ QuadsOf(Truncated(st, g)) = {q \in QuadsOf(st) : q[1] # g}
<1> DEFINE a == Without(st.asserted, g)
           m == Without(st.transient, g)
<1>1. a \in Maps /\ m \in Maps
  BY StoreIs, WithoutIs
<1>2. /\ a.rows = {r \in st.asserted.rows : GraphOf(r) # g}
      /\ a.preds = {k \in st.asserted.preds : k[1] # g}
  BY DEF Without
<1>3. Truncated(st, g) = Replaced(st, a, m)
  BY DEF Truncated, Replaced
<1> HIDE DEF a, m
<1> QED
  BY <1>1, <1>2, <1>3, GraphLeaves

\* What detach_graph leaves behind has lost the graph.
LEMMA LeftBehindIs ==
  ASSUME NEW st, Sound(st), Linked(st), NEW g
  PROVE  /\ Sound(LeftBehind(st, g)) /\ Linked(LeftBehind(st, g))
         /\ QuadsOf(LeftBehind(st, g)) = {q \in QuadsOf(st) : q[1] # g}
<1> DEFINE w == Without(st.asserted, g)
           graphs == IF g = Default THEN w.graphs \cup {Default} ELSE w.graphs
           a == [w EXCEPT !.graphs = graphs]
           m == Without(st.transient, g)
<1>1. w \in Maps /\ m \in Maps
  BY StoreIs, WithoutIs
<1>2. /\ w.rows = {r \in st.asserted.rows : GraphOf(r) # g}
      /\ w.preds = {k \in st.asserted.preds : k[1] # g}
  BY DEF Without
<1>3. LeftBehind(st, g) = Replaced(st, a, m)
  BY DEF LeftBehind, Replaced
<1> HIDE DEF w, m
<1>4. a \in Maps /\ a.rows = w.rows /\ a.preds = w.preds
  BY <1>1 DEF Maps, Graph
<1> HIDE DEF a
<1> QED
  BY <1>1, <1>2, <1>3, <1>4, GraphLeaves

\* The identifiers a detached graph takes along are known, and they are those
\* of its rows and predicates.
LEMMA ImageIdsAre ==
  ASSUME NEW st, Sound(st), Linked(st), NEW g \in st.asserted.graphs
  PROVE  /\ \A c \in Cat : ImageIds(st, g, c) \in SUBSET Ids(st.enc[c])
         /\ \A r \in st.asserted.rows : GraphOf(r) = g =>
              r[4] \in ImageIds(st, g, "iri") /\ r[5] \in ImageIds(st, g, r[3])
         /\ \A k \in st.asserted.preds : k[1] = g =>
              st.enc["iri"].map[k[2]] \in ImageIds(st, g, "iri")
<1> DEFINE own == {r \in st.asserted.rows : GraphOf(r) = g}
           R == {<<g, r[2], r[3], r[4], r[5]>> : r \in own}
           P == {<<g, k[2]>> : k \in {x \in st.asserted.preds : x[1] = g}}
           e == st.enc["iri"]
           N == {e.map[p] : p \in {k[2] : k \in P} \cap Strings(e)}
<1>1. OnlyGraph(st.asserted, g, g).rows = R /\ OnlyGraph(st.asserted, g, g).preds = P
  BY DEF OnlyGraph
<1>2. \A c : ImageIds(st, g, c) = IdsIn(R, c) \cup (IF c # "iri" THEN {} ELSE N)
  BY <1>1 DEF ImageIds
<1>3. \A x \in R : \E r \in own : x[3] = r[3] /\ x[4] = r[4] /\ x[5] = r[5]
  OBVIOUS
<1>4. \A r \in own : \E x \in R : x[3] = r[3] /\ x[4] = r[4] /\ x[5] = r[5]
  <2> TAKE r \in own
  <2> DEFINE x == <<g, r[2], r[3], r[4], r[5]>>
  <2>1. x \in R /\ x[3] = r[3] /\ x[4] = r[4] /\ x[5] = r[5]
    OBVIOUS
  <2> QED
    BY <2>1
<1>5. \A k \in st.asserted.preds : k[1] = g => k[2] \in {j[2] : j \in P}
  <2> TAKE k \in st.asserted.preds
  <2> HAVE k[1] = g
  <2>1. <<g, k[2]>> \in P /\ <<g, k[2]>>[2] = k[2]
    OBVIOUS
  <2> HIDE DEF P
  <2> QED
    BY <2>1
<1>6. \A r \in own : r[4] \in Ids(e) /\ r[5] \in Ids(st.enc[r[3]])
  BY DEF Linked
<1>7. N \in SUBSET Ids(e)
  BY StoreIs, GoodIs
<1>8. \A k \in st.asserted.preds : k[1] = g => e.map[k[2]] \in N
  BY <1>5 DEF Linked
<1>9. \A r \in st.asserted.rows : GraphOf(r) = g => r \in own
  OBVIOUS
<1> HIDE DEF own, R, P, N
<1>10. ASSUME NEW c \in Cat
       PROVE  IdsIn(R, c) \in SUBSET Ids(st.enc[c])
  <2>1. ASSUME NEW x \in R, x[3] = c
        PROVE  x[5] \in Ids(st.enc[c])
    BY <1>3, <1>6, <2>1
  <2>2. ASSUME NEW x \in R
        PROVE  x[4] \in Ids(e)
    BY <1>3, <1>6
  <2> QED
    BY <2>1, <2>2 DEF IdsIn
<1>11. ASSUME NEW r \in own
       PROVE  r[4] \in IdsIn(R, "iri") /\ r[5] \in IdsIn(R, r[3])
  BY <1>4 DEF IdsIn
<1>12. \A c \in Cat : ImageIds(st, g, c) \in SUBSET Ids(st.enc[c])
  BY <1>2, <1>7, <1>10
<1>13. \A r \in st.asserted.rows : GraphOf(r) = g =>
         r[4] \in ImageIds(st, g, "iri") /\ r[5] \in ImageIds(st, g, r[3])
  BY <1>2, <1>9, <1>11
<1>14. \A k \in st.asserted.preds : k[1] = g => e.map[k[2]] \in ImageIds(st, g, "iri")
  BY <1>2, <1>8
<1> QED
  BY <1>12, <1>13, <1>14

\* The detached store is sound and linked, and has the quads of the graph under
\* its new name (detach_graph).
LEMMA DetachedIs ==
  ASSUME NEW st, Sound(st), Linked(st), NEW g \in st.asserted.graphs, NEW h \in Graph
  PROVE  /\ Sound(DetachedStore(st, g, h)) /\ Linked(DetachedStore(st, g, h))
         /\ QuadsOf(DetachedStore(st, g, h)) =
              {<<h, q[2], q[3], q[4], q[5]>> : q \in {x \in QuadsOf(st) : x[1] = g}}
<1> DEFINE new == [c \in Cat |-> ImageEnc(st.enc[c], ImageIds(st, g, c))]
           there == {c \in Cat : Ids(new[c]) # {}}
           n == Counters(there, new)
           a == OnlyGraph(st.asserted, g, h)
           m == OnlyGraph(st.transient, g, h)
           t == DetachedStore(st, g, h)
           own == {r \in st.asserted.rows : GraphOf(r) = g}
           Moved(r) == <<h, r[2], r[3], r[4], r[5]>>
<1>1. ASSUME NEW c \in Cat
      PROVE  /\ Good(new[c]) /\ new[c] \in Encs /\ Fresh(new[c], n[c])
             /\ Ids(new[c]) = ImageIds(st, g, c)
             /\ \A u \in Ids(new[c]) : new[c].rev[u] = st.enc[c].rev[u]
  <2> DEFINE U == ImageIds(st, g, c)
  <2>1. new[c] = ImageEnc(st.enc[c], U)
    OBVIOUS
  <2>2. U \in SUBSET Ids(st.enc[c])
    BY ImageIdsAre
  <2>3. Good(st.enc[c]) /\ st.counter[c] \in Nat /\ \A u \in Ids(st.enc[c]) : u < st.counter[c]
    BY StoreIs
  <2>4. n[c] = IF c \in there THEN RecomputedCounter(new[c]) ELSE 0
    BY DEF Counters
  <2>5. c \in there <=> Ids(new[c]) # {}
    OBVIOUS
  <2> HIDE DEF U, new, there, n
  <2>6. Good(new[c]) /\ Ids(new[c]) = U /\ \A u \in U : new[c].rev[u] = st.enc[c].rev[u]
    BY <2>1, <2>2, <2>3, ImageGood
  <2>7. new[c] \in Encs
    BY <2>1, <2>6, EncsMade
  <2>8. Ids(new[c]) \in SUBSET Nat /\ \A u \in Ids(new[c]) : u <= st.counter[c]
    <3>1. Ids(st.enc[c]) \in SUBSET Nat
      BY <2>3, GoodIs
    <3> QED
      BY <2>2, <2>3, <2>6, <3>1
  <2>9. Fresh(new[c], n[c])
    <3>1. CASE c \in there
      <4>1. /\ RecomputedCounter(new[c]) \in Nat
            /\ \A u \in Ids(new[c]) : u < RecomputedCounter(new[c])
        BY <2>3, <2>5, <2>8, <3>1, RecomputedFresh
      <4> QED
        BY <2>4, <2>6, <3>1, <4>1 DEF Fresh
    <3>2. CASE c \notin there
      BY <2>4, <2>5, <2>6, <3>2 DEF Fresh
    <3> QED
      BY <3>1, <3>2
  <2> QED
    BY <2>6, <2>7, <2>9 DEF U
<1>2. a \in Maps /\ m \in Maps
  BY StoreIs, OnlyGraphIs
<1>3. /\ a.rows = {Moved(r) : r \in own}
      /\ a.preds = {<<h, k[2]>> : k \in {x \in st.asserted.preds : x[1] = g}}
  BY DEF OnlyGraph
<1>4. new \in [Cat -> Encs]
  BY <1>1
<1>5. n \in [Cat -> Nat]
  <2>1. n = [c \in Cat |-> n[c]]
    BY DEF Counters
  <2>2. \A c \in Cat : n[c] \in Nat
    BY <1>1 DEF Fresh
  <2> HIDE DEF n
  <2> QED
    BY <2>1, <2>2
<1>6. there \in SUBSET Cat /\ \A c \in Cat : c \notin there => Ids(new[c]) = {}
  OBVIOUS
<1>7. t = [asserted |-> a, transient |-> m, present |-> there, enc |-> new, counter |-> n,
           deleted |-> 0, isDetached |-> TRUE]
  BY DEF DetachedStore
<1> HIDE DEF new, there, n, a, m, t
<1>8. t \in Stores
  BY <1>2, <1>4, <1>5, <1>6, <1>7 DEF Stores
<1>9. t.asserted = a /\ t.present = there /\ t.enc = new /\ t.counter = n
  BY <1>7
<1>10. Sound(t)
  BY <1>1, <1>6, <1>8, <1>9 DEF Sound
<1>11. ASSUME NEW r \in own
       PROVE  /\ Moved(r)[1] = h /\ Moved(r)[2] = r[2] /\ Moved(r)[3] = r[3]
              /\ Moved(r)[4] = r[4] /\ Moved(r)[5] = r[5]
              /\ r \in Row /\ Moved(r) \in Row /\ r[3] \in Cat
              /\ r[4] \in Ids(st.enc["iri"]) /\ r[5] \in Ids(st.enc[r[3]])
              /\ r[4] \in Ids(new["iri"]) /\ r[5] \in Ids(new[r[3]])
  <2>1. r \in Row
    BY StoreIs
  <2>2. r[2] \in Pred /\ r[3] \in Cat /\ r[4] \in Nat /\ r[5] \in Nat /\ "iri" \in Cat
    BY <2>1, RowIs, StoreIs
  <2>3. Moved(r) \in Row
    BY <2>2 DEF Row
  <2>4. r[4] \in Ids(st.enc["iri"]) /\ r[5] \in Ids(st.enc[r[3]])
    BY DEF Linked
  <2>5. r[4] \in Ids(new["iri"]) /\ r[5] \in Ids(new[r[3]])
    BY <1>1, <2>2, ImageIdsAre
  <2> QED
    BY <2>1, <2>2, <2>3, <2>4, <2>5
<1>12. Linked(t)
  <2>1. \A x \in a.rows : x[4] \in Ids(new["iri"]) /\ x[5] \in Ids(new[x[3]])
    BY <1>3, <1>11
  <2>2. ASSUME NEW k \in st.asserted.preds, k[1] = g
        PROVE  k[2] \in Strings(new["iri"])
    <3>1. k[2] \in Strings(st.enc["iri"]) /\ Good(st.enc["iri"]) /\ "iri" \in Cat
      BY StoreIs DEF Linked
    <3> DEFINE u == st.enc["iri"].map[k[2]]
    <3>2. st.enc["iri"].rev[u] = k[2] /\ u \in Ids(new["iri"])
      BY <1>1, <2>2, <3>1, ImageIdsAre, GoodIs
    <3> HIDE DEF u
    <3>3. new["iri"].rev[u] = k[2] /\ Good(new["iri"])
      BY <1>1, <3>1, <3>2
    <3> QED
      BY <3>2, <3>3, GoodIs
  <2>3. \A k \in a.preds : k[2] \in Strings(new["iri"])
    BY <1>3, <2>2
  <2>4. ASSUME NEW r \in own
        PROVE  PredKey(Moved(r)) \in a.preds
    <3>1. PredKey(r) \in st.asserted.preds /\ PredKey(r)[1] = g /\ PredKey(r)[2] = r[2]
      BY DEF Linked, PredKey, GraphOf
    <3>2. PredKey(Moved(r)) = <<h, PredKey(r)[2]>>
      BY <1>11 DEF PredKey
    <3> HIDE DEF Moved, own
    <3> QED
      BY <1>3, <3>1, <3>2
  <2>5. \A x \in a.rows : PredKey(x) \in a.preds
    BY <1>3, <2>4
  <2> QED
    BY <1>9, <2>1, <2>3, <2>5 DEF Linked
<1>13. QuadsOf(t) = {<<h, q[2], q[3], q[4], q[5]>> : q \in {x \in QuadsOf(st) : x[1] = g}}
  <2>1. ASSUME NEW r \in own
        PROVE  LET q == Decode(st, r) IN Decode(t, Moved(r)) = <<h, q[2], q[3], q[4], q[5]>>
    <3> DEFINE x == Moved(r)
    <3>1. /\ x \in Row /\ x[1] = h /\ x[2] = r[2] /\ x[3] = r[3] /\ x[4] = r[4] /\ x[5] = r[5]
          /\ x[4] \in Ids(t.enc["iri"]) /\ x[5] \in Ids(t.enc[x[3]])
      BY <1>9, <1>11
    <3>2. /\ t.enc["iri"].rev[r[4]] = st.enc["iri"].rev[r[4]]
          /\ t.enc[r[3]].rev[r[5]] = st.enc[r[3]].rev[r[5]]
      BY <1>1, <1>9, <1>11, StoreIs
    <3> HIDE DEF x
    <3>3. Decode(t, x) = <<x[1], x[2], x[3], t.enc["iri"].rev[x[4]], t.enc[x[3]].rev[x[5]]>>
      BY <3>1, DecodeIs
    <3>4. Decode(st, r) = <<r[1], r[2], r[3], st.enc["iri"].rev[r[4]], st.enc[r[3]].rev[r[5]]>>
      BY <1>11, DecodeIs
    <3>5. Decode(t, x) = <<h, r[2], r[3], st.enc["iri"].rev[r[4]], st.enc[r[3]].rev[r[5]]>>
      BY <3>1, <3>2, <3>3
    <3> QED
      BY <3>4, <3>5 DEF x
  <2>2. QuadsOf(t) = {Decode(t, x) : x \in a.rows}
    BY <1>9 DEF QuadsOf, Quads
  <2>3. {x \in QuadsOf(st) : x[1] = g} = {Decode(st, r) : r \in own}
    <3>1. \A r : Decode(st, r)[1] = GraphOf(r)
      BY DEF Decode, GraphOf
    <3> QED
      BY <3>1 DEF QuadsOf, Quads
  <2> HIDE DEF Moved, own
  <2> QED
    BY <1>3, <2>1, <2>2, <2>3
<1> QED
  BY <1>10, <1>12, <1>13 DEF t

-----------------------------------------------------------------------------
(* Copying a graph.                                                        *)

\* A store that has merged all encoders of another one.
Merged(st, from) ==
  [st EXCEPT
     !.present = @ \cup from.present,
     !.enc = [c \in Cat |-> MergeEnc(@[c], Strings(from.enc[c]), st.counter[c])],
     !.counter = [c \in Cat |-> MergeCounter(st.enc[c], Strings(from.enc[c]), @[c])]]

\* It is sound, and has all strings of both.
LEMMA MergedStore ==
  ASSUME NEW st, Sound(st), NEW from, Sound(from)
  PROVE  /\ Sound(Merged(st, from)) /\ Grows(st, Merged(st, from))
         /\ \A c \in Cat : Strings(from.enc[c]) \subseteq Strings(Merged(st, from).enc[c])
<1> DEFINE new == [c \in Cat |-> MergeEnc(st.enc[c], Strings(from.enc[c]), st.counter[c])]
           n == [c \in Cat |-> MergeCounter(st.enc[c], Strings(from.enc[c]), st.counter[c])]
           p == st.present \cup from.present
           t == Merged(st, from)
<1>1. ASSUME NEW c \in Cat
      PROVE  /\ Fresh(new[c], n[c]) /\ new[c] \in Encs
             /\ Strings(new[c]) = Strings(st.enc[c]) \cup Strings(from.enc[c])
             /\ Ids(st.enc[c]) \subseteq Ids(new[c])
             /\ \A u \in Ids(st.enc[c]) : new[c].rev[u] = st.enc[c].rev[u]
  <2> DEFINE S == Strings(from.enc[c])
  <2>1. new[c] = MergeEnc(st.enc[c], S, st.counter[c]) /\ n[c] = MergeCounter(st.enc[c], S, st.counter[c])
    OBVIOUS
  <2>2. Good(st.enc[c]) /\ st.counter[c] \in Nat /\ \A u \in Ids(st.enc[c]) : u < st.counter[c]
    BY StoreIs
  <2>3. S \in SUBSET Str
    BY StoreIs, GoodIs
  <2> HIDE DEF S, new, n
  <2> DEFINE e == st.enc[c]
             k == st.counter[c]
  <2> HIDE DEF e, k
  <2>6. Good(e) /\ k \in Nat /\ \A u \in Ids(e) : u < k
    BY <2>2 DEF e, k
  <2>7. /\ Good(MergeEnc(e, S, k))
        /\ Strings(MergeEnc(e, S, k)) = Strings(e) \cup S
        /\ Ids(e) \subseteq Ids(MergeEnc(e, S, k))
        /\ \A u \in Ids(e) : MergeEnc(e, S, k).rev[u] = e.rev[u]
        /\ MergeCounter(e, S, k) \in Nat
        /\ \A u \in Ids(MergeEnc(e, S, k)) : u < MergeCounter(e, S, k)
    BY <2>3, <2>6, MergeGood
  <2>4. /\ Good(new[c]) /\ n[c] \in Nat /\ \A u \in Ids(new[c]) : u < n[c]
        /\ Strings(new[c]) = Strings(st.enc[c]) \cup S
        /\ Ids(st.enc[c]) \subseteq Ids(new[c])
        /\ \A u \in Ids(st.enc[c]) : new[c].rev[u] = st.enc[c].rev[u]
    BY <2>1, <2>7 DEF e, k
  <2>5. new[c] \in Encs
    BY <2>1, <2>4, EncsMade
  <2> QED
    BY <2>4, <2>5 DEF S, Fresh
<1>2. new \in [Cat -> Encs] /\ DOMAIN n = Cat
  BY <1>1
<1>3. n \in [Cat -> Nat]
  <2>1. \A c \in Cat : n[c] \in Nat
    BY <1>1 DEF Fresh
  <2> QED
    BY <2>1
<1>4. t = [st EXCEPT !.present = p, !.enc = new, !.counter = n]
  BY DEF Merged
<1>5. st \in Stores /\ from \in Stores
  BY DEF Sound
<1>6. p \in SUBSET Cat
  BY <1>5 DEF Stores
<1>7. ASSUME NEW c \in Cat, c \notin p
      PROVE  Ids(new[c]) = {}
  <2>1. Ids(st.enc[c]) = {} /\ Ids(from.enc[c]) = {}
    BY <1>7 DEF Sound
  <2>2. Strings(st.enc[c]) = {} /\ Strings(from.enc[c]) = {}
    BY <2>1, StoreIs, GoodIs
  <2>3. Strings(new[c]) = {} /\ Good(new[c])
    BY <1>1, <2>2 DEF Fresh
  <2> QED
    BY <2>3, GoodIs
<1> HIDE DEF new, n, p, t
<1>8. /\ t \in Stores /\ t.asserted = st.asserted /\ t.transient = st.transient
      /\ t.present = p /\ t.enc = new /\ t.counter = n /\ t.isDetached = st.isDetached
  BY <1>2, <1>3, <1>4, <1>5, <1>6 DEF Stores
<1>9. Sound(t)
  BY <1>1, <1>7, <1>8 DEF Sound
<1>10. Grows(st, t)
  BY <1>1, <1>8 DEF Grows
<1> QED
  BY <1>1, <1>8, <1>9, <1>10 DEF t

\* x stands in the merged store for what row r stands for in the other one, in
\* graph h.
StandsFor(merged, from, h, r, x) ==
  /\ r \in Row /\ r[4] \in Ids(from.enc["iri"]) /\ r[5] \in Ids(from.enc[r[3]])
  /\ x \in Row /\ x[1] = h /\ x[2] = r[2] /\ x[3] = r[3]
  /\ x[4] \in Ids(merged.enc["iri"]) /\ x[5] \in Ids(merged.enc[r[3]])
  /\ merged.enc["iri"].rev[x[4]] = from.enc["iri"].rev[r[4]]
  /\ merged.enc[r[3]].rev[x[5]] = from.enc[r[3]].rev[r[5]]

\* What a row becomes when it is copied.
LEMMA ReEncodedIs ==
  ASSUME NEW from, Sound(from), Linked(from), NEW merged, Sound(merged),
         \A c \in Cat : Strings(from.enc[c]) \subseteq Strings(merged.enc[c]),
         NEW h \in Graph, NEW r \in from.asserted.rows
  PROVE  StandsFor(merged, from, h, r, ReEncoded(merged, from, h, r))
<1> DEFINE e == merged.enc["iri"]
           f == merged.enc[r[3]]
           a == e.map[from.enc["iri"].rev[r[4]]]
           b == f.map[from.enc[r[3]].rev[r[5]]]
           x == ReEncoded(merged, from, h, r)
<1>1. r \in Row /\ r[4] \in Ids(from.enc["iri"]) /\ r[5] \in Ids(from.enc[r[3]])
  BY StoreIs DEF Linked
<1>2. r[2] \in Pred /\ r[3] \in Cat /\ "iri" \in Cat
  BY <1>1, RowIs, StoreIs
<1>3. Good(e) /\ Good(f) /\ Good(from.enc["iri"]) /\ Good(from.enc[r[3]])
  BY <1>2, StoreIs
<1>4. from.enc["iri"].rev[r[4]] \in Strings(e) /\ from.enc[r[3]].rev[r[5]] \in Strings(f)
  BY <1>1, <1>2, <1>3, GoodIs
<1>5. /\ a \in Ids(e) /\ e.rev[a] = from.enc["iri"].rev[r[4]] /\ a \in Nat
      /\ b \in Ids(f) /\ f.rev[b] = from.enc[r[3]].rev[r[5]] /\ b \in Nat
  BY <1>3, <1>4, GoodIs
<1>6. x = <<h, r[2], r[3], a, b>>
  BY <1>1 DEF ReEncoded, MergeReEnc
<1> HIDE DEF a, b, x
<1>7. x[1] = h /\ x[2] = r[2] /\ x[3] = r[3] /\ x[4] = a /\ x[5] = b
  BY <1>6
<1>8. x \in Row
  BY <1>2, <1>5, <1>6 DEF Row
<1> QED
  BY <1>1, <1>5, <1>7, <1>8 DEF x, StandsFor

\* Copying a graph adds its quads under the new name (add_graph).
LEMMA GraphAddedIs ==
  ASSUME NEW st, Sound(st), Linked(st), NEW from, Sound(from), Linked(from),
         NEW g, NEW h \in Graph, NEW s \in GraphAdded(st, from, g, h)
  PROVE  /\ Sound(s) /\ Linked(s)
         /\ QuadsOf(s) = QuadsOf(st)
              \cup {<<h, q[2], q[3], q[4], q[5]>> : q \in {x \in QuadsOf(from) : x[1] = g}}
<1> DEFINE source == {r \in from.asserted.rows : GraphOf(r) = g}
           merged == Merged(st, from)
           rows == {ReEncoded(merged, from, h, r) : r \in source}
<1>1. {x \in QuadsOf(from) : x[1] = g} = {Decode(from, r) : r \in source}
  <2>1. \A r : Decode(from, r)[1] = GraphOf(r)
    BY DEF Decode, GraphOf
  <2> QED
    BY <2>1 DEF QuadsOf, Quads
<1>2. CASE source = {}
  <2>1. s = st
    BY <1>2 DEF GraphAdded
  <2> HIDE DEF source
  <2> QED
    BY <1>1, <1>2, <2>1
<1>3. CASE source # {}
  <2>1. PICK ids \in NameNumberings(merged, rows) :
          s = AddGlobal(EncodeNames(merged, ids), <<rows>>, FALSE)
    BY <1>3 DEF GraphAdded, Merged
  <2>2. /\ Sound(merged) /\ Grows(st, merged)
        /\ \A c \in Cat : Strings(from.enc[c]) \subseteq Strings(merged.enc[c])
    BY MergedStore
  <2> HIDE DEF merged
  <2>3. ASSUME NEW r \in source
        PROVE  StandsFor(merged, from, h, r, ReEncoded(merged, from, h, r))
    <3>1. r \in from.asserted.rows
      OBVIOUS
    <3> QED
      BY <2>2, <3>1, ReEncodedIs
  <2>4. \A x \in rows : x \in Row
    BY <2>3 DEF StandsFor
  <2>5. \A x \in rows : x[1] \in Graph /\ x[2] \in Pred
    BY <2>4, RowIs
  <2> DEFINE named == EncodeNames(merged, ids)
  <2>6. /\ Sound(named) /\ Grows(merged, named)
        /\ \A x \in rows : x[2] \in Strings(named.enc["iri"])
    <3> HIDE DEF rows
    <3> QED
      BY <2>1, <2>2, <2>5, NamesAre
  <2>7. Grows(st, named)
    BY <2>2, <2>6, GrowsTransitive
  <2>8. Linked(named) /\ QuadsOf(named) = QuadsOf(st)
    BY <2>6, <2>7, GrowsKeeps
  <2>9. s = AddGlobal(named, <<rows>>, FALSE)
    BY <2>1
  <2> HIDE DEF named
  <2>10. ASSUME NEW r \in source
         PROVE  LET x == ReEncoded(merged, from, h, r)
                    q == Decode(from, r)
                IN  KnownRow(named, x) /\ Decode(named, x) = <<h, q[2], q[3], q[4], q[5]>>
    <3> DEFINE x == ReEncoded(merged, from, h, r)
               q == Decode(from, r)
    <3>1. x \in rows
      OBVIOUS
    <3>2. /\ r \in Row /\ r[4] \in Ids(from.enc["iri"]) /\ r[5] \in Ids(from.enc[r[3]])
          /\ x \in Row /\ x[1] = h /\ x[2] = r[2] /\ x[3] = r[3]
          /\ x[4] \in Ids(merged.enc["iri"]) /\ x[5] \in Ids(merged.enc[r[3]])
          /\ merged.enc["iri"].rev[x[4]] = from.enc["iri"].rev[r[4]]
          /\ merged.enc[r[3]].rev[x[5]] = from.enc[r[3]].rev[r[5]]
      BY <2>3 DEF StandsFor
    <3> HIDE DEF rows, x, q, source
    <3>3. r[3] \in Cat /\ "iri" \in Cat
      BY <3>2, RowIs, StoreIs
    <3>4. /\ x[4] \in Ids(named.enc["iri"]) /\ x[5] \in Ids(named.enc[r[3]])
          /\ named.enc["iri"].rev[x[4]] = from.enc["iri"].rev[r[4]]
          /\ named.enc[r[3]].rev[x[5]] = from.enc[r[3]].rev[r[5]]
      BY <2>6, <3>2, <3>3 DEF Grows
    <3>5. KnownRow(named, x)
      BY <2>6, <3>1, <3>2, <3>4 DEF KnownRow
    <3>6. Decode(named, x) = <<x[1], x[2], x[3], named.enc["iri"].rev[x[4]], named.enc[x[3]].rev[x[5]]>>
      BY <3>2, <3>4, DecodeIs
    <3>7. q = <<r[1], r[2], r[3], from.enc["iri"].rev[r[4]], from.enc[r[3]].rev[r[5]]>>
      BY <3>2, DecodeIs DEF q
    <3>8. Decode(named, x) = <<h, q[2], q[3], q[4], q[5]>>
      BY <3>2, <3>4, <3>6, <3>7
    <3> QED
      BY <3>5, <3>8 DEF x, q
  <2>11. rows # {}
    BY <1>3
  <2>12. {Decode(named, x) : x \in rows} =
           {<<h, q[2], q[3], q[4], q[5]>> : q \in {x \in QuadsOf(from) : x[1] = g}}
    <3>1. \A r \in source : LET q == Decode(from, r)
            IN  Decode(named, ReEncoded(merged, from, h, r)) = <<h, q[2], q[3], q[4], q[5]>>
      BY <2>10
    <3> HIDE DEF source
    <3> QED
      BY <1>1, <3>1
  <2>13. \A x \in rows : KnownRow(named, x)
    BY <2>10
  <2> HIDE DEF rows
  <2> DEFINE Rs == <<rows>>
  <2>14. DOMAIN Rs = {1} /\ Rs[1] = rows
    OBVIOUS
  <2> HIDE DEF Rs
  <2>15. \A i \in DOMAIN Rs : Rs[i] # {} /\ \A r \in Rs[i] : KnownRow(named, r)
    BY <2>11, <2>13, <2>14
  <2>16. s = AddGlobal(named, Rs, FALSE)
    BY <2>9 DEF Rs
  <2>17. /\ Sound(s) /\ Linked(s)
         /\ QuadsOf(s) = QuadsOf(named) \cup UNION {{Decode(named, r) : r \in Rs[i]} : i \in DOMAIN Rs}
    BY <2>6, <2>8, <2>15, <2>16, AddGlobalIs
  <2>18. UNION {{Decode(named, r) : r \in Rs[i]} : i \in DOMAIN Rs} = {Decode(named, x) : x \in rows}
    BY <2>14
  <2> QED
    BY <2>8, <2>12, <2>17, <2>18
<1> QED
  BY <1>2, <1>3

-----------------------------------------------------------------------------
(* Every call, and the steps of GraphStore they are.                       *)

\* What a call has shown when it leaves the second model alone.
LEMMA OtherStays ==
  ASSUME IInv, Sound(store'), Linked(store'), UNCHANGED other
  PROVE  IInv' /\ UNCHANGED QuadsOf(other)
BY DEF IInv

\* A new model has no quads.
LEMMA InitIs ==
  ASSUME Init
  PROVE  IInv /\ Abstract!GInit
<1> DEFINE empty == [c \in Cat |-> EmptyEnc]
           zero == [c \in Cat |-> 0]
<1>1. store = NewStore /\ other = NewStore /\ call = Plain("new")
  BY DEF Init
<1>2. EmptyMap \in Maps /\ EmptyMap.rows = {} /\ EmptyMap.preds = {}
  BY DEF EmptyMap, Maps, Graph
<1>3. empty \in [Cat -> Encs] /\ zero \in [Cat -> Nat]
  BY EmptyGood
<1>4. NewStore = [asserted |-> EmptyMap, transient |-> EmptyMap, present |-> {}, enc |-> empty,
                  counter |-> zero, deleted |-> 0, isDetached |-> FALSE]
  BY DEF NewStore
<1>5. \A c \in Cat : empty[c] = EmptyEnc /\ zero[c] = 0
  OBVIOUS
<1> HIDE DEF empty, zero
<1>6. /\ NewStore \in Stores /\ NewStore.asserted = EmptyMap
      /\ NewStore.enc = empty /\ NewStore.counter = zero
  BY <1>2, <1>3, <1>4 DEF Stores
<1>7. Sound(NewStore)
  BY <1>5, <1>6, EmptyGood DEF Sound, Fresh
<1>8. Linked(NewStore) /\ QuadsOf(NewStore) = {}
  BY <1>2, <1>6 DEF Linked, QuadsOf, Quads
<1>9. IInv
  BY <1>1, <1>7, <1>8 DEF IInv
<1>10. Abstract!GInit
  BY <1>1, <1>8 DEF Abstract!GInit, Abstract!Plain, Abstract!Call, Plain, Call, QuadsOf
<1> QED
  BY <1>9, <1>10

\* add_triples_vec.
LEMMA AddTriplesStep ==
  ASSUME IInv, NEW Qs \in Batches, NEW t \in BOOLEAN, AddTriples(Qs, t)
  PROVE  IInv' /\ Abstract!GNext
<1>1. /\ store' \in AddTriplesVec(store, Qs, t) /\ UNCHANGED other
      /\ call' = IF t THEN Plain("transient") ELSE Call("change", {}, AllOf(Qs), Default, Default)
  BY DEF AddTriples
<1>2. /\ Sound(store') /\ Linked(store')
      /\ t => QuadsOf(store') = QuadsOf(store)
      /\ ~t => QuadsOf(store') = QuadsOf(store) \cup AllOf(Qs)
  BY <1>1, AddTriplesVecIs DEF IInv
<1>3. IInv' /\ UNCHANGED QuadsOf(other)
  BY <1>1, <1>2, OtherStays
<1>4. AllOf(Qs) \in SUBSET Quad
  BY BatchesAre DEF AllOf
<1>5. CASE t
  <2>1. Abstract!Internal
    BY <1>1, <1>2, <1>3, <1>5 DEF Abstract!Internal, Abstract!Plain, Abstract!Call, Plain, Call, QuadsOf
  <2> QED
    BY <1>3, <2>1 DEF Abstract!GNext
<1>6. CASE ~t
  <2>1. Abstract!Change({}, AllOf(Qs))
    BY <1>1, <1>2, <1>3, <1>6 DEF Abstract!Change, Abstract!Call, Call, QuadsOf
  <2> QED
    BY <1>3, <1>4, <2>1 DEF Abstract!GNext
<1> QED
  BY <1>5, <1>6

\* A collection, or none, on a store that an update has reached.
LEMMA MaybeCollected ==
  ASSUME NEW st, Sound(st), Linked(st), MaybeGarbageCollect(st)
  PROVE  Sound(store') /\ Linked(store') /\ QuadsOf(store') = QuadsOf(st)
<1>1. store' = st \/ store' = GarbageCollected(st)
  BY DEF MaybeGarbageCollect
<1> QED
  BY <1>1, GarbageCollectedIs

\* update_parsed.
LEMMA UpdateStep ==
  ASSUME IInv, NEW D \in Deletions, NEW Qs \in {<<>>} \cup Batches, Update(D, Qs)
  PROVE  IInv' /\ Abstract!GNext
<1>1. D \in SUBSET Quad
  BY InputAssumption
<1>2. PICK st \in AddTriplesVec(DeleteTriples(store, D), Qs, FALSE) : MaybeGarbageCollect(st)
  BY DEF Update
<1>3. UNCHANGED other /\ call' = Call("change", D, AllOf(Qs), Default, Default)
  BY DEF Update
<1> DEFINE del == DeleteTriples(store, D)
<1>4. Sound(del) /\ Linked(del) /\ QuadsOf(del) = QuadsOf(store) \ D
  BY <1>1, DeleteTriplesIs DEF IInv
<1> HIDE DEF del
<1>5. st \in AddTriplesVec(del, Qs, FALSE)
  BY <1>2 DEF del
<1>6. Sound(st) /\ Linked(st) /\ QuadsOf(st) = QuadsOf(del) \cup AllOf(Qs)
  BY <1>4, <1>5, AddTriplesVecIs
<1>7. Sound(store') /\ Linked(store') /\ QuadsOf(store') = (QuadsOf(store) \ D) \cup AllOf(Qs)
  BY <1>2, <1>4, <1>6, MaybeCollected
<1>8. IInv' /\ UNCHANGED QuadsOf(other)
  BY <1>3, <1>7, OtherStays
<1>9. AllOf(Qs) \in SUBSET Quad
  <2>1. CASE Qs = <<>>
    BY <2>1 DEF AllOf
  <2>2. CASE Qs \in Batches
    BY <2>2, BatchesAre DEF AllOf
  <2> QED
    BY <2>1, <2>2
<1>10. Abstract!Change(D, AllOf(Qs))
  BY <1>3, <1>7, <1>8 DEF Abstract!Change, Abstract!Call, Call, QuadsOf
<1> QED
  BY <1>1, <1>8, <1>9, <1>10 DEF Abstract!GNext

\* An update that ends with an error.
LEMMA UpdateFailsStep ==
  ASSUME IInv, NEW D \in Deletions, UpdateFails(D)
  PROVE  IInv' /\ Abstract!GNext
<1>1. D \in SUBSET Quad
  BY InputAssumption
<1>2. PICK bad \in MissingGraphs(D), done \in SUBSET ({GraphOf(q) : q \in D} \ MissingGraphs(D)) :
        store' = LET applied == DeleteTriples(store, {q \in D : GraphOf(q) \in done})
                 IN  [applied EXCEPT !.deleted = @ + Cardinality({q \in D : GraphOf(q) = bad})]
  BY DEF UpdateFails
<1>3. UNCHANGED other /\ call' = Call("fail", D, {}, Default, Default)
  BY DEF UpdateFails
<1> DEFINE E == {q \in D : GraphOf(q) \in done}
           F == {q \in D : GraphOf(q) = bad}
           del == DeleteTriples(store, E)
           n == del.deleted + Cardinality(F)
<1>4. /\ Sound(del) /\ Linked(del) /\ del.deleted \in Nat
      /\ QuadsOf(del) = QuadsOf(store) \ E
  <2>1. E \in SUBSET Quad
    BY <1>1
  <2> HIDE DEF E
  <2> QED
    BY <2>1, DeleteTriplesIs DEF IInv
<1>5. Cardinality(F) \in Nat
  <2>1. F \in SUBSET Quad
    BY <1>1
  <2> HIDE DEF F
  <2>2. IsFiniteSet(F)
    BY <2>1, QuadAssumption, FS_Subset
  <2> QED
    BY <2>2, FS_CardinalityType
<1>6. store' = [del EXCEPT !.deleted = n]
  BY <1>2
<1> HIDE DEF del
<1>7. n \in Nat
  <2> HIDE DEF F
  <2> QED
    BY <1>4, <1>5
<1> HIDE DEF n
<1>8. Sound(store') /\ Linked(store') /\ QuadsOf(store') = QuadsOf(store) \ E
  BY <1>4, <1>6, <1>7, DeletedIs
<1>9. IInv' /\ UNCHANGED QuadsOf(other)
  BY <1>3, <1>8, OtherStays
<1>10. done \in SUBSET Graph
  BY <1>1, QuadIs DEF GraphOf
<1>11. QuadsOf(store') = {q \in QuadsOf(store) : ~(q \in D /\ q[1] \in done)}
  BY <1>8 DEF GraphOf
<1>12. Abstract!Fail(D)
  BY <1>3, <1>9, <1>10, <1>11 DEF Abstract!Fail, Abstract!Call, Call, QuadsOf
<1> QED
  BY <1>1, <1>9, <1>12 DEF Abstract!GNext

\* garbage_collect called on its own.
LEMMA GarbageCollectStep ==
  ASSUME IInv, GarbageCollect
  PROVE  IInv' /\ Abstract!GNext
<1>1. /\ store' = store \/ store' = GarbageCollected(store)
      /\ UNCHANGED other /\ call' = Plain("collect")
  BY DEF GarbageCollect
<1>2. Sound(store') /\ Linked(store') /\ QuadsOf(store') = QuadsOf(store)
  BY <1>1, GarbageCollectedIs DEF IInv
<1>3. IInv' /\ UNCHANGED QuadsOf(other)
  BY <1>1, <1>2, OtherStays
<1>4. Abstract!Internal
  BY <1>1, <1>2, <1>3 DEF Abstract!Internal, Abstract!Plain, Abstract!Call, Plain, Call, QuadsOf
<1> QED
  BY <1>3, <1>4 DEF Abstract!GNext

\* compact, with or without a panic.
LEMMA CompactStep ==
  ASSUME IInv, Compact
  PROVE  IInv' /\ Abstract!GNext
<1>1. UNCHANGED other
  BY DEF Compact
<1>2. CASE ~CompactPanics(store)
  <2>1. store' = Compacted(store) /\ call' = Plain("compact")
    BY <1>2 DEF Compact
  <2>2. Sound(store') /\ Linked(store') /\ QuadsOf(store') = QuadsOf(store)
    BY <1>2, <2>1, CompactedIs DEF IInv
  <2>3. IInv' /\ UNCHANGED QuadsOf(other)
    BY <1>1, <2>2, OtherStays
  <2>4. Abstract!Internal
    BY <2>1, <2>2, <2>3 DEF Abstract!Internal, Abstract!Plain, Abstract!Call, Plain, Call, QuadsOf
  <2> QED
    BY <2>3, <2>4 DEF Abstract!GNext
<1>3. CASE CompactPanics(store)
  <2>1. store' = Drained(store) /\ call' = Plain("crash")
    BY <1>3 DEF Compact
  <2>2. Sound(store') /\ Linked(store') /\ QuadsOf(store') = {}
    BY <2>1, DrainedIs DEF IInv
  <2>3. IInv' /\ UNCHANGED QuadsOf(other)
    BY <1>1, <2>2, OtherStays
  <2>4. Abstract!Crash
    BY <2>1, <2>2, <2>3 DEF Abstract!Crash, Abstract!Plain, Abstract!Call, Plain, Call, QuadsOf
  <2> QED
    BY <2>3, <2>4 DEF Abstract!GNext
<1> QED
  BY <1>2, <1>3

\* truncate.
LEMMA TruncateStep ==
  ASSUME IInv, NEW g \in Graph, Truncate(g)
  PROVE  IInv' /\ Abstract!GNext
<1>1. store' = Truncated(store, g) /\ UNCHANGED other /\ call' = Call("clear", {}, {}, g, g)
  BY DEF Truncate
<1>2. Sound(store') /\ Linked(store') /\ QuadsOf(store') = {q \in QuadsOf(store) : q[1] # g}
  BY <1>1, TruncatedIs DEF IInv
<1>3. IInv' /\ UNCHANGED QuadsOf(other)
  BY <1>1, <1>2, OtherStays
<1>4. Abstract!Clear(g)
  BY <1>1, <1>2, <1>3 DEF Abstract!Clear, Abstract!In, Abstract!Call, Call, QuadsOf
<1> QED
  BY <1>3, <1>4 DEF Abstract!GNext

\* detach_graph.
LEMMA DetachGraphStep ==
  ASSUME IInv, NEW g \in Graph, NEW b \in BOOLEAN, DetachGraph(g, b)
  PROVE  IInv' /\ Abstract!GNext
<1> DEFINE h == IF b THEN g ELSE Default
<1>1. /\ g \in store.asserted.graphs
      /\ other' = DetachedStore(store, g, h) /\ store' = LeftBehind(store, g)
      /\ call' = Call("split", {}, {}, g, h)
  BY DEF DetachGraph
<1>2. h \in Graph
  BY DEF Graph
<1> HIDE DEF h
<1>3. Sound(store') /\ Linked(store') /\ QuadsOf(store') = {q \in QuadsOf(store) : q[1] # g}
  BY <1>1, LeftBehindIs DEF IInv
<1>4. /\ Sound(other') /\ Linked(other')
      /\ QuadsOf(other') = {<<h, q[2], q[3], q[4], q[5]>> : q \in {x \in QuadsOf(store) : x[1] = g}}
  BY <1>1, <1>2, DetachedIs DEF IInv
<1>5. IInv'
  BY <1>3, <1>4 DEF IInv
<1>6. Abstract!Split(g, h)
  BY <1>1, <1>3, <1>4 DEF Abstract!Split, Abstract!In, Abstract!Rename, Abstract!Call, Call, QuadsOf
<1> QED
  BY <1>2, <1>5, <1>6 DEF Abstract!GNext

\* add_graph.
LEMMA AddGraphStep ==
  ASSUME IInv, NEW g \in Graph, NEW h \in Graph, AddGraph(g, h)
  PROVE  IInv' /\ Abstract!GNext
<1>1. store' \in GraphAdded(store, other, g, h) /\ UNCHANGED other /\ call' = Call("copy", {}, {}, g, h)
  BY DEF AddGraph
<1>2. /\ Sound(store') /\ Linked(store')
      /\ QuadsOf(store') = QuadsOf(store)
           \cup {<<h, q[2], q[3], q[4], q[5]>> : q \in {x \in QuadsOf(other) : x[1] = g}}
  BY <1>1, GraphAddedIs DEF IInv
<1>3. IInv' /\ UNCHANGED QuadsOf(other)
  BY <1>1, <1>2, OtherStays
<1>4. Abstract!Copy(g, h)
  BY <1>1, <1>2, <1>3 DEF Abstract!Copy, Abstract!In, Abstract!Rename, Abstract!Call, Call, QuadsOf
<1> QED
  BY <1>3, <1>4 DEF Abstract!GNext

\* Going on with the second model.
LEMMA SwapStep ==
  ASSUME IInv, Swap
  PROVE  IInv' /\ Abstract!GNext
<1>1. store' = other /\ other' = store /\ call' = Plain("swap")
  BY DEF Swap
<1>2. IInv'
  BY <1>1 DEF IInv
<1>3. Abstract!Exchange
  BY <1>1 DEF Abstract!Exchange, Abstract!Plain, Abstract!Call, Plain, Call
<1> QED
  BY <1>2, <1>3 DEF Abstract!GNext

\* A step that changes nothing.
LEMMA Stutter ==
  ASSUME IInv, UNCHANGED vars
  PROVE  IInv' /\ UNCHANGED Abstract!gvars
BY DEF vars, IInv, Abstract!gvars

\* Every step keeps the invariant, and is a step of GraphStore or none.
LEMMA NextIs ==
  ASSUME IInv, [Next]_vars
  PROVE  IInv' /\ [Abstract!GNext]_(Abstract!gvars)
<1>1. CASE \E Qs \in Batches, t \in BOOLEAN : AddTriples(Qs, t)
  BY <1>1, AddTriplesStep
<1>2. CASE \E D \in Deletions, Qs \in {<<>>} \cup {x \in Batches : Len(x) = 1} : Update(D, Qs)
  BY <1>2, UpdateStep
<1>3. CASE \E D \in Deletions : UpdateFails(D)
  BY <1>3, UpdateFailsStep
<1>4. CASE GarbageCollect
  BY <1>4, GarbageCollectStep
<1>5. CASE Compact
  BY <1>5, CompactStep
<1>6. CASE \E g \in Graph : Truncate(g)
  BY <1>6, TruncateStep
<1>7. CASE \E g \in Graph, b \in BOOLEAN : DetachGraph(g, b)
  BY <1>7, DetachGraphStep
<1>8. CASE \E g, h \in Graph : AddGraph(g, h)
  BY <1>8, AddGraphStep
<1>9. CASE Swap
  BY <1>9, SwapStep
<1>10. CASE CallOnPoisoned
  BY <1>10, Stutter DEF CallOnPoisoned
<1>11. CASE UNCHANGED vars
  BY <1>11, Stutter
<1> QED
  BY <1>1, <1>2, <1>3, <1>4, <1>5, <1>6, <1>7, <1>8, <1>9, <1>10, <1>11 DEF Next

\* The invariant holds in every state that calls can reach.
THEOREM InvariantCorrect == Spec => []IInv
<1>1. Init => IInv
  BY InitIs
<1>2. IInv /\ [Next]_vars => IInv'
  BY NextIs
<1> QED
  BY <1>1, <1>2, PTL DEF Spec

\* What IInv says of identifiers: none is given out twice, and no string has two.
LEMMA SoundNames ==
  ASSUME NEW st, Sound(st), NEW c \in Cat
  PROVE  /\ \A s \in Strings(st.enc[c]) : st.enc[c].rev[st.enc[c].map[s]] = s
         /\ \A u \in Ids(st.enc[c]) : st.enc[c].map[st.enc[c].rev[u]] = u /\ u < st.counter[c]
BY StoreIs, GoodIs

\* Two rows never stand for the same quad, whatever the calls before: adding,
\* collecting, compacting, detaching and copying never give an identifier out
\* twice (the counters of Cats).
THEOREM NoAliasesCorrect == Spec => []NoAliases
<1>1. IInv => NoAliases
  BY SoundNames DEF IInv, NoAliases
<1> QED
  BY <1>1, InvariantCorrect, PTL

\* Every asserted triple can be decoded, after any sequence of calls, in the
\* model in use and in the second one.
THEOREM DecodingCorrect == Spec => []AssertedDecodes
<1>1. ASSUME NEW st, Sound(st), Linked(st)
      PROVE  /\ IdsKnown(st, st.asserted)
             /\ {k[2] : k \in st.asserted.preds} \subseteq Strings(st.enc["iri"])
  <2>1. ASSUME NEW c \in Cat
        PROVE  IdsIn(st.asserted.rows, c) \subseteq Ids(st.enc[c])
    BY <1>1 DEF IdsIn, Linked
  <2>2. {k[2] : k \in st.asserted.preds} \subseteq Strings(st.enc["iri"])
    BY <1>1 DEF Linked
  <2> QED
    BY <2>1, <2>2 DEF IdsKnown
<1>2. IInv => AssertedDecodes
  BY <1>1 DEF IInv, AssertedDecodes
<1> QED
  BY <1>2, InvariantCorrect, PTL

\* The triplestore is a set of quads to its callers: every sequence of calls on
\* tables, encoders and counters is one that GraphStore allows.
THEOREM Refinement == Spec => ImplementsGraphStore
<1>1. Init => Abstract!GInit
  BY InitIs
<1>2. IInv /\ [Next]_vars => [Abstract!GNext]_(Abstract!gvars)
  BY NextIs
<1> QED
  BY <1>1, <1>2, InvariantCorrect, PTL DEF Spec, ImplementsGraphStore, Abstract!GSpec

-----------------------------------------------------------------------------
(* Models that were not made by detaching.                                 *)

\* The encoders of a store know all of a map: its rows and its names.
MapRooted(st, m) ==
  /\ \A r \in m.rows : KnownRow(st, r) /\ PredKey(r) \in m.preds /\ GraphOf(r) \in m.graphs
  /\ \A k \in m.preds : k[2] \in Strings(st.enc["iri"])
  /\ \A g \in m.graphs \cap Named : g \in Strings(st.enc["iri"])

Rooted(st) == MapRooted(st, st.asserted) /\ MapRooted(st, st.transient)

\* The transient quads of a store.
HiddenOf(st) == Quads(st, st.transient)

\* What Rooted has to do with the properties.
LEMMA RootedIs ==
  ASSUME NEW st, Sound(st), Rooted(st)
  PROVE  IdsKnown(st, st.transient) /\ ~GcPanics(st)
<1>1. ASSUME NEW c \in Cat
      PROVE  IdsIn(st.transient.rows, c) \subseteq Ids(st.enc[c])
  BY DEF IdsIn, Rooted, MapRooted, KnownRow
<1>2. NamesOf(st.asserted) \cup NamesOf(st.transient) \subseteq Strings(st.enc["iri"])
  BY DEF NamesOf, Rooted, MapRooted
<1> QED
  BY <1>1, <1>2 DEF IdsKnown, GcPanics

\* Growing encoders keep a map known, and its quads.
LEMMA GrowsMap ==
  ASSUME NEW st, NEW t, Grows(st, t), NEW m, MapRooted(st, m)
  PROVE  MapRooted(t, m) /\ Quads(t, m) = Quads(st, m)
<1>1. "iri" \in Cat
  BY DEF Cat
<1>2. ASSUME NEW r \in m.rows
      PROVE  KnownRow(t, r) /\ Decode(t, r) = Decode(st, r)
  <2>1. KnownRow(st, r) /\ r \in Row /\ r[3] \in Cat
    BY RowIs DEF MapRooted, KnownRow
  <2>2. KnownRow(t, r)
    BY <1>1, <2>1 DEF KnownRow, Grows
  <2>3. /\ t.enc["iri"].rev[r[4]] = st.enc["iri"].rev[r[4]]
        /\ t.enc[r[3]].rev[r[5]] = st.enc[r[3]].rev[r[5]]
    BY <1>1, <2>1 DEF KnownRow, Grows
  <2> QED
    BY <2>1, <2>2, <2>3, DecodeIs DEF KnownRow
<1>3. Strings(st.enc["iri"]) \subseteq Strings(t.enc["iri"])
  BY <1>1 DEF Grows
<1>4. MapRooted(t, m)
  BY <1>2, <1>3 DEF MapRooted
<1>5. Quads(t, m) = Quads(st, m)
  BY <1>2 DEF Quads
<1> QED
  BY <1>4, <1>5

\* So do both maps of a store.
LEMMA GrowsRooted ==
  ASSUME NEW st, NEW t, Grows(st, t), Rooted(st)
  PROVE  Rooted(t) /\ HiddenOf(t) = HiddenOf(st) /\ t.isDetached = st.isDetached
<1>1. t.asserted = st.asserted /\ t.transient = st.transient /\ t.isDetached = st.isDetached
  BY DEF Grows
<1>2. MapRooted(st, st.asserted) /\ MapRooted(st, st.transient)
  BY DEF Rooted
<1>3. MapRooted(t, st.asserted) /\ MapRooted(t, st.transient) /\ Quads(t, st.transient) = Quads(st, st.transient)
  BY <1>2, GrowsMap
<1> QED
  BY <1>1, <1>3 DEF Rooted, HiddenOf

\* With the same encoders, the same is known.
LEMMA SameRooted ==
  ASSUME NEW st, NEW t, t.enc = st.enc, NEW m, MapRooted(st, m)
  PROVE  MapRooted(t, m) /\ Quads(t, m) = Quads(st, m)
<1>1. \A r : Decode(t, r) = Decode(st, r)
  BY DEF Decode
<1> QED
  BY <1>1 DEF MapRooted, KnownRow, Quads

\* A smaller map is known too.
LEMMA SmallerRooted ==
  ASSUME NEW st, NEW m, MapRooted(st, m), NEW n,
         n.rows \subseteq m.rows, n.preds \subseteq m.preds, n.graphs \cap Named \subseteq m.graphs,
         \A r \in n.rows : PredKey(r) \in n.preds /\ GraphOf(r) \in n.graphs
  PROVE  MapRooted(st, n)
BY DEF MapRooted

\* Adding known rows to a map keeps it known.
LEMMA LargerRooted ==
  ASSUME NEW st, NEW m, MapRooted(st, m), NEW n,
         NEW R, \A r \in R : KnownRow(st, r) /\ (r[1] \in Named => r[1] \in Strings(st.enc["iri"])),
         n.rows \subseteq m.rows \cup R,
         n.preds \subseteq m.preds \cup {PredKey(r) : r \in R},
         n.graphs \subseteq m.graphs \cup {GraphOf(r) : r \in R},
         \A r \in n.rows : PredKey(r) \in n.preds /\ GraphOf(r) \in n.graphs
  PROVE  MapRooted(st, n)
<1>1. \A r \in n.rows : KnownRow(st, r)
  BY DEF MapRooted
<1>2. \A k \in n.preds : k[2] \in Strings(st.enc["iri"])
  BY DEF MapRooted, KnownRow, PredKey
<1>3. \A g \in n.graphs \cap Named : g \in Strings(st.enc["iri"])
  BY DEF MapRooted, GraphOf
<1> QED
  BY <1>1, <1>2, <1>3 DEF MapRooted

\* What add_global_cat_triples does to the maps.
LEMMA AddGlobalMaps ==
  ASSUME NEW st, Sound(st), NEW Rs, NEW transient \in BOOLEAN
  PROVE  LET t == AddGlobal(st, Rs, transient)
             m == IF transient THEN st.transient ELSE st.asserted
             n == IF transient THEN t.transient ELSE t.asserted
             R == UNION {Rs[i] : i \in DOMAIN Rs}
         IN  /\ t.enc = st.enc /\ t.isDetached = st.isDetached
             /\ transient => t.asserted = st.asserted
             /\ ~transient => t.transient = st.transient
             /\ n.rows \subseteq m.rows \cup R
             /\ n.preds \subseteq m.preds \cup {PredKey(r) : r \in R}
             /\ n.graphs \subseteq m.graphs \cup {GraphOf(r) : r \in R}
             /\ (\A r \in m.rows : PredKey(r) \in m.preds /\ GraphOf(r) \in m.graphs) =>
                  \A r \in n.rows : PredKey(r) \in n.preds /\ GraphOf(r) \in n.graphs
<1> DEFINE m == IF transient THEN st.transient ELSE st.asserted
           Left(i) == Remaining(st, Rs[i], transient)
           First(i) == \A j \in 1..(i - 1) : \A r \in Rs[j], x \in Rs[i] : Key(r) # Key(x)
           dropped == UNION {{Key(r) : r \in Rs[i]} : i \in {j \in DOMAIN Rs : First(j) /\ Left(j) = {}}}
           added == UNION {Left(i) : i \in DOMAIN Rs}
           R == UNION {Rs[i] : i \in DOMAIN Rs}
           graphs == m.graphs \cup UNION {{GraphOf(r) : r \in Rs[i]} : i \in DOMAIN Rs}
           preds == m.preds \cup {PredKey(r) : r \in added}
           rows == {r \in m.rows : Key(r) \notin dropped} \cup added
           new == [graphs |-> graphs, preds |-> preds, rows |-> rows]
           t == AddGlobal(st, Rs, transient)
<1>1. t = IF transient THEN [st EXCEPT !.transient = new] ELSE [st EXCEPT !.asserted = new]
  BY DEF AddGlobal
<1>2. added \subseteq R
  BY DEF Remaining
<1>3. graphs \subseteq m.graphs \cup {GraphOf(r) : r \in R}
  OBVIOUS
<1>9. \A r \in added : GraphOf(r) \in graphs
  BY DEF Remaining
<1> HIDE DEF dropped, added, R, m
<1>4. rows \subseteq m.rows \cup R /\ preds \subseteq m.preds \cup {PredKey(r) : r \in R}
  BY <1>2
<1>10. (\A r \in m.rows : PredKey(r) \in m.preds /\ GraphOf(r) \in m.graphs) =>
         \A r \in rows : PredKey(r) \in preds /\ GraphOf(r) \in graphs
  BY <1>9
<1>5. new.graphs = graphs /\ new.preds = preds /\ new.rows = rows
  OBVIOUS
<1> HIDE DEF graphs, preds, rows, new, t
<1>6. st \in Stores
  BY DEF Sound
<1>7. CASE transient
  <2>1. /\ t.enc = st.enc /\ t.isDetached = st.isDetached
        /\ t.asserted = st.asserted /\ t.transient = new
    BY <1>1, <1>6, <1>7 DEF Stores
  <2> QED
    BY <1>3, <1>4, <1>5, <1>7, <1>10, <2>1 DEF t, m, R
<1>8. CASE ~transient
  <2>1. /\ t.enc = st.enc /\ t.isDetached = st.isDetached
        /\ t.transient = st.transient /\ t.asserted = new
    BY <1>1, <1>6, <1>8 DEF Stores
  <2> QED
    BY <1>3, <1>4, <1>5, <1>8, <1>10, <2>1 DEF t, m, R
<1> QED
  BY <1>7, <1>8

\* Adding known rows to a rooted store.
LEMMA AddGlobalRooted ==
  ASSUME NEW st, Sound(st), Rooted(st), NEW transient \in BOOLEAN,
         NEW Rs, \A i \in DOMAIN Rs : \A r \in Rs[i] :
                   KnownRow(st, r) /\ (r[1] \in Named => r[1] \in Strings(st.enc["iri"]))
  PROVE  /\ Rooted(AddGlobal(st, Rs, transient))
         /\ ~transient => HiddenOf(AddGlobal(st, Rs, transient)) = HiddenOf(st)
         /\ AddGlobal(st, Rs, transient).isDetached = st.isDetached
<1> DEFINE t == AddGlobal(st, Rs, transient)
           R == UNION {Rs[i] : i \in DOMAIN Rs}
           m == IF transient THEN st.transient ELSE st.asserted
           n == IF transient THEN t.transient ELSE t.asserted
<1>1. /\ t.enc = st.enc /\ t.isDetached = st.isDetached
      /\ transient => t.asserted = st.asserted
      /\ ~transient => t.transient = st.transient
      /\ n.rows \subseteq m.rows \cup R
      /\ n.preds \subseteq m.preds \cup {PredKey(r) : r \in R}
      /\ n.graphs \subseteq m.graphs \cup {GraphOf(r) : r \in R}
      /\ (\A r \in m.rows : PredKey(r) \in m.preds /\ GraphOf(r) \in m.graphs) =>
           \A r \in n.rows : PredKey(r) \in n.preds /\ GraphOf(r) \in n.graphs
  BY AddGlobalMaps
<1>2. \A r \in R : KnownRow(st, r) /\ (r[1] \in Named => r[1] \in Strings(st.enc["iri"]))
  OBVIOUS
<1>3. MapRooted(st, st.asserted) /\ MapRooted(st, st.transient)
  BY DEF Rooted
<1>4. MapRooted(st, m)
  BY <1>3
<1> HIDE DEF t, R, m, n
<1>5. MapRooted(st, n)
  <2>1. \A r \in n.rows : PredKey(r) \in n.preds /\ GraphOf(r) \in n.graphs
    BY <1>1, <1>4 DEF MapRooted
  <2> QED
    BY <1>1, <1>2, <1>4, <2>1, LargerRooted
<1>6. MapRooted(t, n) /\ MapRooted(t, st.asserted) /\ MapRooted(t, st.transient)
      /\ Quads(t, st.transient) = Quads(st, st.transient)
  BY <1>1, <1>3, <1>5, SameRooted
<1>7. Rooted(t)
  BY <1>1, <1>6 DEF Rooted, n
<1>8. ~transient => HiddenOf(t) = HiddenOf(st)
  BY <1>1, <1>6 DEF HiddenOf
<1> QED
  BY <1>1, <1>7, <1>8 DEF t

\* Adding keeps a store rooted, and its transient quads if it adds no others.
LEMMA AddTriplesVecRooted ==
  ASSUME NEW st, Sound(st), Rooted(st), NEW Qs \in {<<>>} \cup Batches,
         NEW transient \in BOOLEAN, NEW s \in AddTriplesVec(st, Qs, transient)
  PROVE  /\ Rooted(s) /\ s.isDetached = st.isDetached
         /\ ~transient => HiddenOf(s) = HiddenOf(st)
<1>1. CASE Qs = <<>>
  BY <1>1 DEF AddTriplesVec
<1>2. CASE Qs \in Batches
  <2> PICK named : Prepared(st, Qs, named) /\ s = AddGlobal(named, BatchRows(named, Qs), transient)
    BY <1>2, AddTriplesVecAdds
  <2>1. /\ Sound(named) /\ Grows(st, named)
        /\ \A i \in DOMAIN Qs : \A q \in Qs[i] :
             /\ KnownRow(named, Encode(named, q))
             /\ Encode(named, q)[1] \in Named => Encode(named, q)[1] \in Strings(named.enc["iri"])
    BY DEF Prepared
  <2> DEFINE Rs == BatchRows(named, Qs)
  <2>2. \A i \in DOMAIN Rs : \A r \in Rs[i] :
          KnownRow(named, r) /\ (r[1] \in Named => r[1] \in Strings(named.enc["iri"]))
    BY <2>1 DEF BatchRows
  <2>3. s = AddGlobal(named, Rs, transient)
    OBVIOUS
  <2> HIDE DEF Rs
  <2>4. Rooted(named) /\ HiddenOf(named) = HiddenOf(st) /\ named.isDetached = st.isDetached
    BY <2>1, GrowsRooted
  <2> QED
    BY <2>1, <2>2, <2>3, <2>4, AddGlobalRooted
<1> QED
  BY <1>1, <1>2

\* What deleting does to the stores, and to a map of a rooted one: the rows of
\* the deleted quads are gone from it.
LEMMA DeleteFromMapRooted ==
  ASSUME NEW st, Sound(st), NEW m \in Maps, MapRooted(st, m), NEW D, NEW hidden
  PROVE  /\ MapRooted(st, DeleteFromMap(m, st, D, hidden))
         /\ Quads(st, DeleteFromMap(m, st, D, hidden)) \cap D = {}
<1> DEFINE del == {Encode(st, q) : q \in {d \in D : KnownQuad(st, d)}}
           touched == {Key(q) : q \in D}
           left == {r \in m.rows : /\ r \notin del
                                   /\ Key(r) \in touched => r \notin hidden}
           bare == {k \in {PredKey(q) : q \in D} : \A r \in left : PredKey(r) # k}
           n == DeleteFromMap(m, st, D, hidden)
<1>1. n = [m EXCEPT !.rows = left, !.preds = @ \ bare]
  BY DEF DeleteFromMap
<1>2. left \subseteq m.rows /\ \A r \in left : r \notin del /\ PredKey(r) \notin bare
  OBVIOUS
<1> HIDE DEF left, bare, n
<1>3. n.rows = left /\ n.preds = m.preds \ bare /\ n.graphs = m.graphs
  BY <1>1 DEF Maps
<1>4. MapRooted(st, n)
  <2>1. \A r \in n.rows : PredKey(r) \in n.preds /\ GraphOf(r) \in n.graphs
    BY <1>2, <1>3 DEF MapRooted
  <2> QED
    BY <1>2, <1>3, <2>1, SmallerRooted
<1>5. ASSUME NEW r \in left, Decode(st, r) \in D
      PROVE  FALSE
  <2>1. r \in Row /\ r[4] \in Ids(st.enc["iri"]) /\ r[5] \in Ids(st.enc[r[3]])
    BY <1>2 DEF MapRooted, KnownRow
  <2>2. KnownQuad(st, Decode(st, r)) /\ Encode(st, Decode(st, r)) = r
    BY <2>1, DecodeKnown
  <2>3. r \in del
    BY <1>5, <2>2
  <2> QED
    BY <1>2, <2>3
<1>6. Quads(st, n) \cap D = {}
  BY <1>3, <1>5 DEF Quads
<1> QED
  BY <1>4, <1>6 DEF n

\* Deleting keeps a store rooted and leaves no deleted quad in its transient map.
LEMMA DeleteTriplesRooted ==
  ASSUME NEW st, Sound(st), Rooted(st), NEW D
  PROVE  /\ Rooted(DeleteTriples(st, D)) /\ DeleteTriples(st, D).isDetached = st.isDetached
         /\ HiddenOf(DeleteTriples(st, D)) \cap D = {}
<1> DEFINE a == DeleteFromMap(st.asserted, st, D, {})
           h == DeleteFromMap(st.transient, st, D, a.rows)
           n == Cardinality(D)
           t == DeleteTriples(st, D)
<1>1. t = [st EXCEPT !.asserted = a, !.transient = h, !.deleted = @ + n]
  BY DEF DeleteTriples
<1>2. MapRooted(st, st.asserted) /\ MapRooted(st, st.transient) /\ st.asserted \in Maps /\ st.transient \in Maps
  BY StoreIs DEF Rooted
<1>3. MapRooted(st, a) /\ MapRooted(st, h) /\ Quads(st, h) \cap D = {}
  BY <1>2, DeleteFromMapRooted
<1> HIDE DEF a, h, n, t
<1>4. t.asserted = a /\ t.transient = h /\ t.enc = st.enc /\ t.isDetached = st.isDetached
  <2>1. st \in Stores
    BY DEF Sound
  <2> QED
    BY <1>1, <2>1 DEF Stores
<1>5. MapRooted(t, a) /\ MapRooted(t, h) /\ Quads(t, h) = Quads(st, h)
  BY <1>3, <1>4, SameRooted
<1> QED
  BY <1>3, <1>4, <1>5 DEF t, Rooted, HiddenOf

\* Changing the count of deletions.
LEMMA DeletedRooted ==
  ASSUME NEW st, Sound(st), Rooted(st), NEW n
  PROVE  Rooted([st EXCEPT !.deleted = n]) /\ [st EXCEPT !.deleted = n].isDetached = st.isDetached
<1> DEFINE t == [st EXCEPT !.deleted = n]
<1>1. st \in Stores
  BY DEF Sound
<1>2. /\ t.asserted = st.asserted /\ t.transient = st.transient
      /\ t.enc = st.enc /\ t.isDetached = st.isDetached
  BY <1>1 DEF Stores
<1> HIDE DEF t
<1>3. Rooted(t)
  BY <1>2, SameRooted DEF Rooted
<1> QED
  BY <1>2, <1>3 DEF t

\* Collection keeps what both maps use.
LEMMA CollectedMap ==
  ASSUME NEW st, Sound(st), NEW m \in {st.asserted, st.transient}, MapRooted(st, m),
         NEW t, \A c \in Cat : t.enc[c] = Collected(st, c)
  PROVE  MapRooted(t, m) /\ Quads(t, m) = Quads(st, m)
<1> DEFINE e == st.enc["iri"]
<1>1. ASSUME NEW c \in Cat
      PROVE  /\ Good(t.enc[c])
             /\ \A u \in Ids(st.enc[c]) \cap UsedIds(st, c) :
                  u \in Ids(t.enc[c]) /\ t.enc[c].rev[u] = st.enc[c].rev[u]
  BY CollectedEnc
<1>2. "iri" \in Cat /\ Good(e)
  BY StoreIs
<1>3. ASSUME NEW n \in NamesOf(m), n \in Strings(e)
      PROVE  n \in Strings(t.enc["iri"])
  <2> DEFINE u == e.map[n]
  <2>1. u \in Ids(e) /\ e.rev[u] = n
    BY <1>2, <1>3, GoodIs
  <2>2. u \in UsedIds(st, "iri")
    BY DEF UsedIds
  <2> HIDE DEF u
  <2>3. u \in Ids(t.enc["iri"]) /\ t.enc["iri"].rev[u] = n /\ Good(t.enc["iri"])
    BY <1>1, <1>2, <2>1, <2>2
  <2> QED
    BY <2>3, GoodIs
<1>4. \A k \in m.preds : k[2] \in Strings(t.enc["iri"])
  BY <1>3 DEF MapRooted, NamesOf
<1>5. \A g \in m.graphs \cap Named : g \in Strings(t.enc["iri"])
  BY <1>3 DEF MapRooted, NamesOf
<1>6. ASSUME NEW r \in m.rows
      PROVE  /\ r \in Row /\ r[4] \in Ids(e) /\ r[5] \in Ids(st.enc[r[3]])
             /\ r[4] \in Ids(t.enc["iri"]) /\ t.enc["iri"].rev[r[4]] = e.rev[r[4]]
             /\ r[5] \in Ids(t.enc[r[3]]) /\ t.enc[r[3]].rev[r[5]] = st.enc[r[3]].rev[r[5]]
  <2>1. r \in Row /\ r[4] \in Ids(e) /\ r[5] \in Ids(st.enc[r[3]])
    BY DEF MapRooted, KnownRow
  <2>2. r[3] \in Cat
    BY <2>1, RowIs
  <2>3. r[4] \in UsedIds(st, "iri") /\ r[5] \in UsedIds(st, r[3])
    BY DEF UsedIds, IdsIn
  <2> QED
    BY <1>1, <1>2, <2>1, <2>2, <2>3
<1>7. \A r \in m.rows : r[2] \in Strings(t.enc["iri"]) /\ PredKey(r) \in m.preds /\ GraphOf(r) \in m.graphs
  BY <1>4 DEF MapRooted, PredKey
<1>8. MapRooted(t, m)
  BY <1>4, <1>5, <1>6, <1>7 DEF MapRooted, KnownRow
<1>9. ASSUME NEW r \in m.rows
      PROVE  Decode(t, r) = Decode(st, r)
  <2>1. Decode(st, r) = <<r[1], r[2], r[3], e.rev[r[4]], st.enc[r[3]].rev[r[5]]>>
    BY <1>6, DecodeIs
  <2>2. Decode(t, r) = <<r[1], r[2], r[3], t.enc["iri"].rev[r[4]], t.enc[r[3]].rev[r[5]]>>
    BY <1>6, DecodeIs
  <2> QED
    BY <1>6, <2>1, <2>2
<1>10. Quads(t, m) = Quads(st, m)
  BY <1>9 DEF Quads
<1> QED
  BY <1>8, <1>10

\* Collection keeps a store rooted, and its transient quads (garbage_collect).
LEMMA GarbageCollectedRooted ==
  ASSUME NEW st, Sound(st), Rooted(st)
  PROVE  /\ Rooted(GarbageCollected(st)) /\ HiddenOf(GarbageCollected(st)) = HiddenOf(st)
         /\ GarbageCollected(st).isDetached = st.isDetached
<1> DEFINE new == [c \in Cat |-> Collected(st, c)]
           t == GarbageCollected(st)
<1>1. t = [st EXCEPT !.enc = new, !.deleted = 0]
  BY DEF GarbageCollected, Collected
<1>2. \A c \in Cat : new[c] = Collected(st, c)
  OBVIOUS
<1> HIDE DEF new, t
<1>3. /\ t.asserted = st.asserted /\ t.transient = st.transient
      /\ t.enc = new /\ t.isDetached = st.isDetached
  <2>1. st \in Stores
    BY DEF Sound
  <2> QED
    BY <1>1, <2>1 DEF Stores
<1>4. \A c \in Cat : t.enc[c] = Collected(st, c)
  BY <1>2, <1>3
<1>5. MapRooted(t, st.asserted)
  BY <1>4, CollectedMap DEF Rooted
<1>6. MapRooted(t, st.transient) /\ Quads(t, st.transient) = Quads(st, st.transient)
  BY <1>4, CollectedMap DEF Rooted
<1> QED
  BY <1>3, <1>5, <1>6 DEF Rooted, HiddenOf, t

\* Compaction renumbers a map together with the encoders.
LEMMA CompactedMap ==
  ASSUME NEW st, Sound(st), NEW m, MapRooted(st, m),
         NEW t, t.enc = [c \in Cat |-> CompactEnc(st.enc[c])]
  PROVE  MapRooted(t, CompactMap(m, st))
<1> DEFINE n == CompactMap(m, st)
<1>1. /\ n.rows = {Renumbered(st, r) : r \in m.rows}
      /\ n.preds = {PredKey(r) : r \in n.rows}
      /\ n.graphs = {GraphOf(r) : r \in n.rows}
  BY DEF CompactMap
<1>2. "iri" \in Cat /\ Good(st.enc["iri"])
  BY StoreIs
<1>3. Strings(t.enc["iri"]) = Strings(st.enc["iri"])
  <2>1. t.enc["iri"] = CompactEnc(st.enc["iri"])
    BY <1>2
  <2> QED
    BY <1>2, <2>1, CompactGood
<1>4. ASSUME NEW r \in m.rows
      PROVE  LET x == Renumbered(st, r)
             IN  KnownRow(t, x) /\ x[1] = r[1] /\ GraphOf(x) \in m.graphs
  <2> DEFINE x == Renumbered(st, r)
             new == t.enc
  <2>1. /\ r \in Row /\ r[4] \in Ids(st.enc["iri"]) /\ r[5] \in Ids(st.enc[r[3]])
        /\ r[2] \in Strings(st.enc["iri"]) /\ r[1] \in m.graphs
    BY DEF MapRooted, KnownRow, GraphOf
  <2>2. /\ x \in Row /\ x[1] = r[1] /\ x[2] = r[2] /\ x[3] = r[3]
        /\ x[4] \in Ids(new["iri"]) /\ new["iri"].rev[x[4]] = st.enc["iri"].rev[r[4]]
        /\ x[5] \in Ids(new[r[3]]) /\ new[r[3]].rev[x[5]] = st.enc[r[3]].rev[r[5]]
    <3>1. new = [c \in Cat |-> CompactEnc(st.enc[c])]
      OBVIOUS
    <3> HIDE DEF new
    <3> QED
      BY <2>1, <3>1, RenumberedIs
  <2> HIDE DEF x
  <2>3. KnownRow(t, x)
    BY <1>3, <2>1, <2>2 DEF KnownRow
  <2> QED
    BY <2>1, <2>2, <2>3 DEF x, GraphOf
<1> HIDE DEF n
<1>5. \A x \in n.rows : KnownRow(t, x) /\ GraphOf(x) \in m.graphs
  BY <1>1, <1>4
<1>6. \A x \in n.rows : PredKey(x) \in n.preds /\ GraphOf(x) \in n.graphs
  BY <1>1
<1>7. \A k \in n.preds : k[2] \in Strings(t.enc["iri"])
  BY <1>1, <1>5 DEF PredKey, KnownRow
<1>8. \A g \in n.graphs \cap Named : g \in Strings(t.enc["iri"])
  BY <1>1, <1>3, <1>5 DEF MapRooted
<1> QED
  BY <1>5, <1>6, <1>7, <1>8 DEF MapRooted, n

\* Compaction keeps a store rooted (compact).
LEMMA CompactedRooted ==
  ASSUME NEW st, Sound(st), Rooted(st)
  PROVE  Rooted(Compacted(st)) /\ Compacted(st).isDetached = st.isDetached
<1> DEFINE new == [c \in Cat |-> CompactEnc(st.enc[c])]
           as == CompactMap(st.asserted, st)
           tr == CompactMap(st.transient, st)
           n == Counters(st.present, new)
           t == Compacted(st)
<1>1. t = [st EXCEPT !.asserted = as, !.transient = tr, !.enc = new, !.counter = n]
  BY DEF Compacted
<1> HIDE DEF new, as, tr, n, t
<1>2. t.asserted = as /\ t.transient = tr /\ t.enc = new /\ t.isDetached = st.isDetached
  <2>1. st \in Stores
    BY DEF Sound
  <2> QED
    BY <1>1, <2>1 DEF Stores
<1>3. t.enc = [c \in Cat |-> CompactEnc(st.enc[c])]
  BY <1>2 DEF new
<1>4. MapRooted(t, as) /\ MapRooted(t, tr)
  BY <1>3, CompactedMap DEF Rooted, as, tr
<1> QED
  BY <1>2, <1>4 DEF Rooted, t

\* A compaction that panics leaves nothing to be known.
LEMMA DrainedRooted ==
  ASSUME NEW st, Sound(st)
  PROVE  Rooted(Drained(st)) /\ Drained(st).isDetached = st.isDetached
<1> DEFINE new == [c \in Cat |-> CompactEnc(st.enc[c])]
           t == Drained(st)
<1>1. t = [st EXCEPT !.asserted = NoMap, !.transient = NoMap, !.enc = new]
  BY DEF Drained
<1> HIDE DEF new, t
<1>2. t.asserted = NoMap /\ t.transient = NoMap /\ t.isDetached = st.isDetached
  <2>1. st \in Stores
    BY DEF Sound
  <2> QED
    BY <1>1, <2>1 DEF Stores
<1>3. MapRooted(t, NoMap)
  BY DEF MapRooted, NoMap
<1> QED
  BY <1>2, <1>3 DEF Rooted, t

\* Taking a graph out of both maps.
LEMMA ReplacedRooted ==
  ASSUME NEW st, Sound(st), NEW a, NEW m, MapRooted(st, a), MapRooted(st, m)
  PROVE  Rooted(Replaced(st, a, m)) /\ Replaced(st, a, m).isDetached = st.isDetached
<1> DEFINE t == Replaced(st, a, m)
<1>1. st \in Stores
  BY DEF Sound
<1>2. t.asserted = a /\ t.transient = m /\ t.enc = st.enc /\ t.isDetached = st.isDetached
  BY <1>1 DEF Stores, Replaced
<1> HIDE DEF t
<1>3. MapRooted(t, a) /\ MapRooted(t, m)
  BY <1>2, SameRooted
<1> QED
  BY <1>2, <1>3 DEF Rooted, t

\* A map without one of its graphs is known.
LEMMA WithoutRooted ==
  ASSUME NEW st, NEW m, MapRooted(st, m), NEW g
  PROVE  MapRooted(st, Without(m, g))
<1> DEFINE n == Without(m, g)
<1>1. /\ n.rows = {r \in m.rows : GraphOf(r) # g} /\ n.preds = {k \in m.preds : k[1] # g}
      /\ n.graphs = m.graphs \ {g}
  BY DEF Without
<1> HIDE DEF n
<1>2. \A r \in n.rows : PredKey(r) \in n.preds /\ GraphOf(r) \in n.graphs
  BY <1>1 DEF MapRooted, PredKey, GraphOf
<1>3. MapRooted(st, n)
  BY <1>1, <1>2, SmallerRooted
<1> QED
  BY <1>3 DEF n

\* Truncating keeps a store rooted.
LEMMA TruncatedRooted ==
  ASSUME NEW st, Sound(st), Rooted(st), NEW g
  PROVE  Rooted(Truncated(st, g)) /\ Truncated(st, g).isDetached = st.isDetached
<1> DEFINE a == Without(st.asserted, g)
           m == Without(st.transient, g)
<1>1. Truncated(st, g) = Replaced(st, a, m)
  BY DEF Truncated, Replaced
<1>2. MapRooted(st, a) /\ MapRooted(st, m)
  BY WithoutRooted DEF Rooted
<1> HIDE DEF a, m
<1> QED
  BY <1>1, <1>2, ReplacedRooted

\* The default graph that is put back has no name to be known.
LEMMA LeftBehindRooted ==
  ASSUME NEW st, Sound(st), Rooted(st), NEW g
  PROVE  Rooted(LeftBehind(st, g)) /\ LeftBehind(st, g).isDetached = st.isDetached
<1> DEFINE w == Without(st.asserted, g)
           graphs == IF g = Default THEN w.graphs \cup {Default} ELSE w.graphs
           a == [w EXCEPT !.graphs = graphs]
           m == Without(st.transient, g)
<1>1. LeftBehind(st, g) = Replaced(st, a, m)
  BY DEF LeftBehind, Replaced
<1>2. MapRooted(st, w) /\ MapRooted(st, m)
  BY WithoutRooted DEF Rooted
<1>3. w \in Maps
  BY StoreIs, WithoutIs
<1> HIDE DEF w, m
<1>4. a.rows = w.rows /\ a.preds = w.preds /\ a.graphs = graphs
  BY <1>3 DEF Maps
<1>5. Default \notin Named
  BY NamesAssumption
<1> HIDE DEF a
<1>6. MapRooted(st, a)
  BY <1>2, <1>4, <1>5 DEF MapRooted
<1> QED
  BY <1>1, <1>2, <1>6, ReplacedRooted

\* What calls leave of the mark of a detached store.
LEMMA OriginStays ==
  ASSUME NEW st, Sound(st), NEW D, NEW g
  PROVE  /\ DeleteTriples(st, D).isDetached = st.isDetached
         /\ GarbageCollected(st).isDetached = st.isDetached
         /\ Compacted(st).isDetached = st.isDetached
         /\ Drained(st).isDetached = st.isDetached
         /\ Truncated(st, g).isDetached = st.isDetached
         /\ LeftBehind(st, g).isDetached = st.isDetached
<1>1. st \in Stores
  BY DEF Sound
<1>2. DeleteTriples(st, D).isDetached = st.isDetached
  BY <1>1 DEF DeleteTriples, Stores
<1>3. GarbageCollected(st).isDetached = st.isDetached
  BY <1>1 DEF GarbageCollected, Stores
<1>4. Compacted(st).isDetached = st.isDetached
  BY <1>1 DEF Compacted, Stores
<1>5. Drained(st).isDetached = st.isDetached
  BY <1>1 DEF Drained, Stores
<1>6. Truncated(st, g).isDetached = st.isDetached
  BY <1>1 DEF Truncated, Stores
<1>7. LeftBehind(st, g).isDetached = st.isDetached
  BY <1>1 DEF LeftBehind, Stores
<1> QED
  BY <1>2, <1>3, <1>4, <1>5, <1>6, <1>7

\* Adding leaves the mark alone.
LEMMA AddTriplesVecOrigin ==
  ASSUME NEW st, Sound(st), NEW Qs \in {<<>>} \cup Batches,
         NEW transient \in BOOLEAN, NEW s \in AddTriplesVec(st, Qs, transient)
  PROVE  s.isDetached = st.isDetached
<1>1. CASE Qs = <<>>
  BY <1>1 DEF AddTriplesVec
<1>2. CASE Qs \in Batches
  <2> PICK named : Prepared(st, Qs, named) /\ s = AddGlobal(named, BatchRows(named, Qs), transient)
    BY <1>2, AddTriplesVecAdds
  <2> DEFINE Rs == BatchRows(named, Qs)
  <2>1. Sound(named) /\ named.isDetached = st.isDetached
    BY DEF Prepared, Grows
  <2>2. s = AddGlobal(named, Rs, transient)
    OBVIOUS
  <2> HIDE DEF Rs
  <2>3. s.isDetached = named.isDetached
    BY <2>1, <2>2, AddGlobalMaps
  <2> QED
    BY <2>1, <2>3
<1> QED
  BY <1>1, <1>2

\* A graph copied from any sound store, detached or not.
LEMMA GraphAddedRooted ==
  ASSUME NEW st, Sound(st), NEW from, Sound(from), Linked(from),
         NEW g, NEW h \in Graph, NEW s \in GraphAdded(st, from, g, h)
  PROVE  s.isDetached = st.isDetached /\ (Rooted(st) => Rooted(s))
<1> DEFINE source == {r \in from.asserted.rows : GraphOf(r) = g}
           merged == Merged(st, from)
           rows == {ReEncoded(merged, from, h, r) : r \in source}
<1>1. CASE source = {}
  <2>1. s = st
    BY <1>1 DEF GraphAdded
  <2> QED
    BY <2>1
<1>2. CASE source # {}
  <2>1. PICK ids \in NameNumberings(merged, rows) :
          s = AddGlobal(EncodeNames(merged, ids), <<rows>>, FALSE)
    BY <1>2 DEF GraphAdded, Merged
  <2>2. /\ Sound(merged) /\ Grows(st, merged)
        /\ \A c \in Cat : Strings(from.enc[c]) \subseteq Strings(merged.enc[c])
    BY MergedStore
  <2> HIDE DEF merged
  <2>3. ASSUME NEW r \in source
        PROVE  StandsFor(merged, from, h, r, ReEncoded(merged, from, h, r))
    <3>1. r \in from.asserted.rows
      OBVIOUS
    <3> QED
      BY <2>2, <3>1, ReEncodedIs
  <2>4. \A x \in rows : x \in Row /\ x[4] \in Ids(merged.enc["iri"]) /\ x[5] \in Ids(merged.enc[x[3]])
    BY <2>3 DEF StandsFor
  <2> HIDE DEF rows
  <2>5. \A x \in rows : x[1] \in Graph /\ x[2] \in Pred /\ x[3] \in Cat
    BY <2>4, RowIs
  <2> DEFINE named == EncodeNames(merged, ids)
  <2>6. /\ Sound(named) /\ Grows(merged, named)
        /\ \A x \in rows : x[2] \in Strings(named.enc["iri"])
        /\ \A x \in rows : x[1] \in Named => x[1] \in Strings(named.enc["iri"])
    BY <2>1, <2>2, <2>5, NamesAre
  <2>7. s = AddGlobal(named, <<rows>>, FALSE)
    BY <2>1
  <2> HIDE DEF named
  <2>8. Grows(st, named)
    BY <2>2, <2>6, GrowsTransitive
  <2>9. named.isDetached = st.isDetached /\ (Rooted(st) => Rooted(named))
    BY <2>8, GrowsRooted DEF Grows
  <2>10. \A x \in rows : KnownRow(named, x)
    <3>1. "iri" \in Cat
      BY DEF Cat
    <3> QED
      BY <2>4, <2>5, <2>6, <3>1 DEF KnownRow, Grows
  <2> DEFINE Rs == <<rows>>
  <2>11. DOMAIN Rs = {1} /\ Rs[1] = rows
    OBVIOUS
  <2> HIDE DEF Rs
  <2>12. \A i \in DOMAIN Rs : \A r \in Rs[i] :
           KnownRow(named, r) /\ (r[1] \in Named => r[1] \in Strings(named.enc["iri"]))
    BY <2>6, <2>10, <2>11
  <2>13. s = AddGlobal(named, Rs, FALSE)
    BY <2>7 DEF Rs
  <2>14. s.isDetached = named.isDetached
    BY <2>6, <2>13, AddGlobalMaps
  <2>15. Rooted(named) => Rooted(s)
    BY <2>6, <2>12, <2>13, AddGlobalRooted
  <2> QED
    BY <2>9, <2>14, <2>15
<1> QED
  BY <1>1, <1>2

\* The invariant of models that were not made by detaching.
RootOf(st) == ~st.isDetached => Rooted(st)
RInv == RootOf(store) /\ RootOf(other) /\ DeletedAreGone

\* A new model knows its empty maps.
LEMMA InitRoot ==
  ASSUME Init
  PROVE  RInv
<1>1. store = NewStore /\ other = NewStore /\ call = Plain("new")
  BY DEF Init
<1>2. NewStore.asserted = EmptyMap /\ NewStore.transient = EmptyMap
  BY DEF NewStore
<1>3. Default \notin Named
  BY NamesAssumption
<1>4. MapRooted(NewStore, EmptyMap)
  BY <1>3 DEF MapRooted, EmptyMap
<1>5. call.op # "change"
  BY <1>1 DEF Plain, Call
<1> QED
  BY <1>1, <1>2, <1>4, <1>5 DEF RInv, RootOf, Rooted, DeletedAreGone

\* Every call but one that changes quads has shown this when the store it leaves
\* is rooted if the one it found was.
LEMMA RootStays ==
  ASSUME IInv, RInv, UNCHANGED other, call'.op # "change",
         store'.isDetached = store.isDetached, Rooted(store) => Rooted(store')
  PROVE  RInv'
<1>1. RootOf(store)' /\ RootOf(other)'
  BY DEF RInv, RootOf
<1>2. DeletedAreGone'
  BY DEF DeletedAreGone
<1> QED
  BY <1>1, <1>2 DEF RInv

\* add_triples_vec, which deletes nothing.
LEMMA AddTriplesRoot ==
  ASSUME IInv, RInv, NEW Qs \in Batches, NEW t \in BOOLEAN, AddTriples(Qs, t)
  PROVE  RInv'
<1>1. /\ store' \in AddTriplesVec(store, Qs, t) /\ UNCHANGED other
      /\ call' = IF t THEN Plain("transient") ELSE Call("change", {}, AllOf(Qs), Default, Default)
  BY DEF AddTriples
<1>2. store'.isDetached = store.isDetached
  BY <1>1, AddTriplesVecOrigin DEF IInv
<1>3. Rooted(store) => Rooted(store')
  BY <1>1, AddTriplesVecRooted DEF IInv
<1>4. call'.del = {}
  BY <1>1 DEF Plain, Call
<1>5. RootOf(store)' /\ RootOf(other)'
  BY <1>1, <1>2, <1>3 DEF RInv, RootOf
<1>6. DeletedAreGone'
  BY <1>4 DEF DeletedAreGone
<1> QED
  BY <1>5, <1>6 DEF RInv

\* Deletions leave no deleted quad in the transient map; the insertions that
\* follow are asserted, and a collection keeps the quads.
LEMMA UpdateRoot ==
  ASSUME IInv, RInv, NEW D \in Deletions, NEW Qs \in {<<>>} \cup Batches, Update(D, Qs)
  PROVE  RInv'
<1> DEFINE del == DeleteTriples(store, D)
<1>1. PICK st \in AddTriplesVec(del, Qs, FALSE) : MaybeGarbageCollect(st)
  BY DEF Update
<1>2. UNCHANGED other /\ call'.del = D
  BY DEF Update, Call
<1>3. D \in SUBSET Quad
  BY InputAssumption
<1>4. /\ Sound(store) /\ Sound(del) /\ Linked(del)
      /\ del.isDetached = store.isDetached
  BY <1>3, DeleteTriplesIs, OriginStays DEF IInv
<1>5. Rooted(store) => Rooted(del) /\ HiddenOf(del) \cap D = {}
  BY <1>4, DeleteTriplesRooted
<1> HIDE DEF del
<1>6. Sound(st)
  BY <1>1, <1>4, AddTriplesVecIs
<1>7. st.isDetached = del.isDetached
  BY <1>1, <1>4, AddTriplesVecOrigin
<1>8. Rooted(del) => Rooted(st) /\ HiddenOf(st) = HiddenOf(del)
  BY <1>1, <1>4, AddTriplesVecRooted
<1>9. store' = st \/ store' = GarbageCollected(st)
  BY <1>1 DEF MaybeGarbageCollect
<1>10. store'.isDetached = st.isDetached
  BY <1>6, <1>9, OriginStays
<1>11. Rooted(st) => Rooted(store') /\ HiddenOf(store') = HiddenOf(st)
  BY <1>6, <1>9, GarbageCollectedRooted
<1>12. ~store'.isDetached => Rooted(store') /\ HiddenOf(store') \cap D = {}
  BY <1>4, <1>5, <1>7, <1>8, <1>10, <1>11 DEF RInv, RootOf
<1>13. RootOf(store)' /\ RootOf(other)'
  BY <1>2, <1>12 DEF RInv, RootOf
<1>14. DeletedAreGone'
  BY <1>2, <1>12 DEF DeletedAreGone, HiddenOf
<1> QED
  BY <1>13, <1>14 DEF RInv

\* An update that ends with an error.
LEMMA UpdateFailsRoot ==
  ASSUME IInv, RInv, NEW D \in Deletions, UpdateFails(D)
  PROVE  RInv'
<1>1. D \in SUBSET Quad
  BY InputAssumption
<1>2. PICK bad \in MissingGraphs(D), done \in SUBSET ({GraphOf(q) : q \in D} \ MissingGraphs(D)) :
        store' = LET applied == DeleteTriples(store, {q \in D : GraphOf(q) \in done})
                 IN  [applied EXCEPT !.deleted = @ + Cardinality({q \in D : GraphOf(q) = bad})]
  BY DEF UpdateFails
<1>3. UNCHANGED other /\ call'.op # "change"
  BY DEF UpdateFails, Call
<1> DEFINE E == {q \in D : GraphOf(q) \in done}
           del == DeleteTriples(store, E)
           n == del.deleted + Cardinality({q \in D : GraphOf(q) = bad})
<1>4. store' = [del EXCEPT !.deleted = n]
  BY <1>2
<1>5. /\ Sound(del) /\ del.isDetached = store.isDetached
      /\ Rooted(store) => Rooted(del)
  <2>1. E \in SUBSET Quad
    BY <1>1
  <2> HIDE DEF E
  <2> QED
    BY <2>1, DeleteTriplesIs, DeleteTriplesRooted, OriginStays DEF IInv
<1> HIDE DEF del, n
<1>6. store'.isDetached = del.isDetached
  <2>1. del \in Stores
    BY <1>5 DEF Sound
  <2> QED
    BY <1>4, <2>1 DEF Stores
<1>7. Rooted(del) => Rooted(store')
  BY <1>4, <1>5, DeletedRooted
<1> QED
  BY <1>3, <1>5, <1>6, <1>7, RootStays

\* Collecting, compacting and truncating.
LEMMA UpkeepRoot ==
  ASSUME IInv, RInv, GarbageCollect \/ Compact \/ (\E g \in Graph : Truncate(g))
  PROVE  RInv'
<1>1. Sound(store)
  BY DEF IInv
<1>2. UNCHANGED other /\ call'.op # "change"
  BY DEF GarbageCollect, Compact, Truncate, Plain, Call
<1>3. \/ store' \in {store, GarbageCollected(store), Compacted(store), Drained(store)}
      \/ \E g \in Graph : store' = Truncated(store, g)
  BY DEF GarbageCollect, Compact, Truncate
<1>4. store'.isDetached = store.isDetached
  BY <1>1, <1>3, OriginStays
<1>5. Rooted(store) => Rooted(store')
  BY <1>1, <1>3, GarbageCollectedRooted, CompactedRooted, DrainedRooted, TruncatedRooted
<1> QED
  BY <1>2, <1>4, <1>5, RootStays

\* detach_graph: the store it leaves behind is rooted, the one it returns is marked.
LEMMA DetachGraphRoot ==
  ASSUME IInv, RInv, NEW g \in Graph, NEW b \in BOOLEAN, DetachGraph(g, b)
  PROVE  RInv'
<1>1. PICK h : other' = DetachedStore(store, g, h)
  BY DEF DetachGraph
<1>2. store' = LeftBehind(store, g) /\ call'.op # "change"
  BY DEF DetachGraph, Call
<1>3. other'.isDetached
  BY <1>1 DEF DetachedStore
<1>4. store'.isDetached = store.isDetached /\ (Rooted(store) => Rooted(store'))
  BY <1>2, OriginStays, LeftBehindRooted DEF IInv
<1>5. RootOf(store)' /\ RootOf(other)'
  BY <1>3, <1>4 DEF RInv, RootOf
<1> QED
  BY <1>2, <1>5 DEF RInv, DeletedAreGone

\* add_graph, from a detached store too.
LEMMA AddGraphRoot ==
  ASSUME IInv, RInv, NEW g \in Graph, NEW h \in Graph, AddGraph(g, h)
  PROVE  RInv'
<1>1. store' \in GraphAdded(store, other, g, h) /\ UNCHANGED other /\ call'.op # "change"
  BY DEF AddGraph, Call
<1>2. store'.isDetached = store.isDetached /\ (Rooted(store) => Rooted(store'))
  BY <1>1, GraphAddedRooted DEF IInv
<1> QED
  BY <1>1, <1>2, RootStays

\* Going on with the second model.
LEMMA SwapRoot ==
  ASSUME RInv, Swap
  PROVE  RInv'
<1>1. store' = other /\ other' = store /\ call'.op # "change"
  BY DEF Swap, Plain, Call
<1> QED
  BY <1>1 DEF RInv, RootOf, DeletedAreGone

\* A step that changes nothing.
LEMMA StutterRoot ==
  ASSUME RInv, UNCHANGED vars
  PROVE  RInv'
BY DEF vars, RInv, RootOf, DeletedAreGone

\* Every step keeps the invariant of roots.
LEMMA NextRoot ==
  ASSUME IInv, RInv, [Next]_vars
  PROVE  RInv'
<1>1. CASE \E Qs \in Batches, t \in BOOLEAN : AddTriples(Qs, t)
  BY <1>1, AddTriplesRoot
<1>2. CASE \E D \in Deletions, Qs \in {<<>>} \cup {x \in Batches : Len(x) = 1} : Update(D, Qs)
  BY <1>2, UpdateRoot
<1>3. CASE \E D \in Deletions : UpdateFails(D)
  BY <1>3, UpdateFailsRoot
<1>4. CASE GarbageCollect \/ Compact \/ (\E g \in Graph : Truncate(g))
  BY <1>4, UpkeepRoot
<1>5. CASE \E g \in Graph, b \in BOOLEAN : DetachGraph(g, b)
  BY <1>5, DetachGraphRoot
<1>6. CASE \E g, h \in Graph : AddGraph(g, h)
  BY <1>6, AddGraphRoot
<1>7. CASE Swap
  BY <1>7, SwapRoot
<1>8. CASE CallOnPoisoned \/ UNCHANGED vars
  BY <1>8, StutterRoot DEF CallOnPoisoned
<1> QED
  BY <1>1, <1>2, <1>3, <1>4, <1>5, <1>6, <1>7, <1>8 DEF Next

\* The invariant of roots holds in every state that calls can reach.
THEOREM RootInvariantCorrect == Spec => []RInv
<1>1. Init => RInv
  BY InitRoot
<1>2. IInv /\ RInv /\ [Next]_vars => RInv'
  BY NextRoot
<1> QED
  BY <1>1, <1>2, InvariantCorrect, PTL DEF Spec

\* In a model that was not made by detaching, transient triples can be decoded
\* and the names of its graphs are encoded, so garbage_collect never panics.
THEOREM RootDecodingCorrect == Spec => []RootDecodes
<1>1. IInv /\ RInv => RootDecodes
  BY RootedIs DEF IInv, RInv, RootOf, RootDecodes
<1> QED
  BY <1>1, InvariantCorrect, RootInvariantCorrect, PTL

\* What an update deletes is in no transient table when it returns.
THEOREM DeletionCorrect == Spec => []DeletedAreGone
<1>1. RInv => DeletedAreGone
  BY DEF RInv
<1> QED
  BY <1>1, RootInvariantCorrect, PTL
=============================================================================
