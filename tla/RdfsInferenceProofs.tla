------------------------ MODULE RdfsInferenceProofs ------------------------
(***************************************************************************)
(* Proofs about RDFS inference, for any finite set of asserted triples.    *)
(* That the count is exact follows from the results being finite.  That    *)
(* the stages are complete follows from what each rule can derive: a later *)
(* stage adds no triple with a predicate that an earlier rule joins on.    *)
(***************************************************************************)
EXTENDS RdfsInference, FiniteSetTheorems, TLAPS

\* Anything that can be a part of a triple.
Node == Term \cup {Type, SubClassOf, SubPropertyOf}
Triple == Node \X Node \X Node

\* The queries of each stage.
Queries(at) ==
  CASE at = "6" -> <<Rdfs6>>
    [] at = "5" -> <<Rdfs5>>
    [] at = "7" -> <<Rdfs7>>
    [] at = "2 3 8" -> <<Rdfs2, Rdfs3, Rdfs8>>
    [] at = "10 11" -> <<Rdfs10, Rdfs11>>
    [] at = "9" -> <<Rdfs9>>
    [] at = "done" -> NotQueried

\* All that a call is about to insert.
New == UNION {results[i] : i \in DOMAIN results}

\* The inductive invariant of counting: a result is that of the queries of its
\* stage, over the graph as it still is.
CountInv == /\ asserted \subseteq Universe
            /\ transient \subseteq Triple
            /\ stage \in Stages
            /\ results = NotQueried \/ results = Queries(stage)
            /\ inferred \in Nat
            /\ lost \in BOOLEAN
            /\ ~lost => inferred = Cardinality(transient)

-----------------------------------------------------------------------------
(* What a call inserts is finite.                                          *)

\* There are finitely many triples over the terms of the universe.
LEMMA TripleFinite == IsFiniteSet(Triple)
<1> DEFINE Subjects   == {t[1] : t \in Universe}
           Predicates1 == {t[2] : t \in Universe}
           Objects    == {t[3] : t \in Universe}
<1>1. IsFiniteSet(Subjects)
  <2>1. [t \in Universe |-> t[1]] \in Surjection(Universe, Subjects)
    BY DEF Surjection
  <2> QED
    BY <2>1, FS_Surjection, UniverseAssumption
<1>2. IsFiniteSet(Predicates1)
  <2>1. [t \in Universe |-> t[2]] \in Surjection(Universe, Predicates1)
    BY DEF Surjection
  <2> QED
    BY <2>1, FS_Surjection, UniverseAssumption
<1>3. IsFiniteSet(Objects)
  <2>1. [t \in Universe |-> t[3]] \in Surjection(Universe, Objects)
    BY DEF Surjection
  <2> QED
    BY <2>1, FS_Surjection, UniverseAssumption
<1>4. Node = (Subjects \cup Predicates1) \cup (Objects \cup {Type, SubClassOf, SubPropertyOf, Resource})
  BY DEF Node, Term
<1>5. IsFiniteSet({Type, SubClassOf, SubPropertyOf, Resource})
  <2>1. ASSUME NEW S, IsFiniteSet(S), NEW a
        PROVE  IsFiniteSet(S \cup {a})
    BY <2>1, FS_AddElement
  <2>2. IsFiniteSet((({Type} \cup {SubClassOf}) \cup {SubPropertyOf}) \cup {Resource})
    BY <2>1, FS_Singleton
  <2>3. {Type, SubClassOf, SubPropertyOf, Resource} = (({Type} \cup {SubClassOf}) \cup {SubPropertyOf}) \cup {Resource}
    OBVIOUS
  <2> QED
    BY <2>2, <2>3, Zenon
<1> HIDE DEF Subjects, Predicates1, Objects
<1>6. IsFiniteSet(Node)
  <2>1. IsFiniteSet(Subjects \cup Predicates1)
    BY <1>1, <1>2, FS_Union
  <2>2. IsFiniteSet(Objects \cup {Type, SubClassOf, SubPropertyOf, Resource})
    BY <1>3, <1>5, FS_Union
  <2> QED
    BY <1>4, <2>1, <2>2, FS_Union
<1> DEFINE Pairs == Node \X Node
<1>7. IsFiniteSet(Pairs)
  BY <1>6, FS_Product
<1>8. IsFiniteSet(Pairs \X Node)
  <2> HIDE DEF Pairs
  <2> QED
    BY <1>6, <1>7, FS_Product
<1>9. [m \in Pairs \X Node |-> <<m[1][1], m[1][2], m[2]>>] \in Surjection(Pairs \X Node, Triple)
  <2> DEFINE f == [m \in Pairs \X Node |-> <<m[1][1], m[1][2], m[2]>>]
  <2>1. f \in [Pairs \X Node -> Triple]
    BY DEF Triple
  <2>2. ASSUME NEW t \in Triple PROVE \E m \in Pairs \X Node : f[m] = t
    <3>1. <<<<t[1], t[2]>>, t[3]>> \in Pairs \X Node
      BY DEF Triple
    <3>2. f[<<<<t[1], t[2]>>, t[3]>>] = t
      BY <3>1 DEF Triple
    <3> QED
      BY <3>1, <3>2
  <2> QED
    BY <2>1, <2>2 DEF Surjection
<1> QED
  BY <1>8, <1>9, FS_Surjection

\* The parts of a visible triple are nodes.
LEMMA Parts ==
  ASSUME CountInv, NEW t \in Visible
  PROVE  t[1] \in Node /\ t[2] \in Node /\ t[3] \in Node
<1>1. CASE t \in asserted
  BY <1>1 DEF CountInv, Node, Term
<1>2. CASE t \in transient
  BY <1>2 DEF CountInv, Triple
<1> QED
  BY <1>1, <1>2 DEF Visible

\* Every rule derives triples over nodes.
LEMMA RulesDerive ==
  ASSUME CountInv
  PROVE  /\ Rdfs2 \subseteq Triple /\ Rdfs3 \subseteq Triple /\ Rdfs5 \subseteq Triple
         /\ Rdfs6 \subseteq Triple /\ Rdfs7 \subseteq Triple /\ Rdfs8 \subseteq Triple
         /\ Rdfs9 \subseteq Triple /\ Rdfs10 \subseteq Triple /\ Rdfs11 \subseteq Triple
<1>1. Type \in Node /\ SubClassOf \in Node /\ SubPropertyOf \in Node /\ Resource \in Node
  BY DEF Node, Term
<1>2. ASSUME NEW p, NEW m \in Using(p)
      PROVE  m[1] \in Visible /\ m[2] \in Visible
  BY <1>2 DEF Using
<1>3. ASSUME NEW p, NEW q, NEW m \in Chained(p, q)
      PROVE  m[1] \in Visible /\ m[2] \in Visible
  BY <1>3 DEF Chained
<1>4. Rdfs2 \subseteq Triple /\ Rdfs3 \subseteq Triple /\ Rdfs7 \subseteq Triple
  BY <1>1, <1>2, Parts DEF Rdfs2, Rdfs3, Rdfs7, Triple
<1>5. Rdfs9 \subseteq Triple
  BY <1>1, <1>3, Parts DEF Rdfs9, Triple
<1>6. Rdfs5 \subseteq Triple /\ Rdfs11 \subseteq Triple
  BY <1>1, <1>3, Parts DEF Rdfs5, Rdfs11, Transitive, Triple
<1>7. \A c : Instances(c) \subseteq Node
  BY Parts DEF Instances
<1>8. Rdfs6 \subseteq Triple /\ Rdfs8 \subseteq Triple /\ Rdfs10 \subseteq Triple
  BY <1>1, <1>7 DEF Rdfs6, Rdfs8, Rdfs10, Triple
<1> QED
  BY <1>4, <1>5, <1>6, <1>8

\* So does every stage.
LEMMA NewDerived ==
  ASSUME CountInv
  PROVE  New \subseteq Triple
<1>1. CASE results = NotQueried
  BY <1>1 DEF New, NotQueried
<1>2. CASE results = Queries(stage)
  <2>1. ASSUME NEW i \in DOMAIN results
        PROVE  results[i] \subseteq Triple
    <3> DEFINE Good(Qs) == \A j \in DOMAIN Qs : Qs[j] \subseteq Triple
    <3>1. /\ Good(<<Rdfs6>>) /\ Good(<<Rdfs5>>) /\ Good(<<Rdfs7>>) /\ Good(<<Rdfs9>>) /\ Good(NotQueried)
          /\ Good(<<Rdfs2, Rdfs3, Rdfs8>>) /\ Good(<<Rdfs10, Rdfs11>>)
      BY RulesDerive DEF NotQueried
    <3>2. stage \in {"6", "5", "7", "2 3 8", "10 11", "9", "done"}
      BY DEF CountInv, Stages
    <3> HIDE DEF Good
    <3>3. Good(Queries(stage))
      BY <3>1, <3>2 DEF Queries
    <3> QED
      BY <1>2, <2>1, <3>3 DEF Good
  <2> QED
    BY <2>1 DEF New
<1> QED
  BY <1>1, <1>2 DEF CountInv

-----------------------------------------------------------------------------
(* Inserting.                                                              *)

\* What is new of the results is what is not asserted.
LEMMA AddedIs == Added(results) = New \ asserted
BY DEF Added, Remaining, New

\* An insertion that loses nothing reports the triples that it adds.
LEMMA InsertCounts ==
  ASSUME CountInv, InsertConstructResult(results)
  PROVE  /\ asserted' = asserted
         /\ transient' \subseteq Triple
         /\ inferred' \in Nat
         /\ lost' \in BOOLEAN
         /\ ~lost' => /\ ~lost
                      /\ transient' = transient \cup (New \ asserted)
                      /\ Reported(results) = Cardinality((New \ asserted) \ transient)
                      /\ inferred' = Cardinality(transient')
<1> DEFINE added == New \ asserted
           fresh == added \ Kept(results)
<1>1. added \subseteq Triple /\ Kept(results) \subseteq transient /\ transient \subseteq Triple
  BY NewDerived DEF Kept, CountInv
<1>2. IsFiniteSet(transient) /\ IsFiniteSet(fresh)
  <2>1. transient \in SUBSET Triple /\ fresh \in SUBSET Triple
    BY <1>1
  <2> HIDE DEF fresh
  <2> QED
    BY <2>1, TripleFinite, FS_Subset
<1>3. Reported(results) = Cardinality(fresh)
  BY AddedIs DEF Reported
<1>4. /\ Cardinality(fresh) \in Nat
      /\ Cardinality(transient) \in Nat
  <2> HIDE DEF fresh
  <2> QED
    BY <1>2, FS_CardinalityType
<1>5. transient' = Kept(results) \cup added
  BY AddedIs DEF InsertConstructResult
<1>6. ASSUME ~lost'
      PROVE  /\ ~lost
             /\ transient' = transient \cup added
             /\ Reported(results) = Cardinality(added \ transient)
             /\ inferred' = Cardinality(transient')
  <2>1. ~lost /\ Kept(results) = transient
    BY <1>6 DEF InsertConstructResult, CountInv
  <2>2. inferred' = Cardinality(transient) + Cardinality(fresh)
    BY <1>3, <1>6, <2>1 DEF InsertConstructResult, CountInv
  <2>3. transient' = transient \cup fresh /\ transient \cap fresh = {}
    BY <1>5, <2>1
  <2>4. Cardinality(transient \cup fresh) = Cardinality(transient) + Cardinality(fresh) - Cardinality(transient \cap fresh)
    <3> HIDE DEF fresh
    <3> QED
      BY <1>2, FS_Union
  <2>5. Cardinality({}) = 0
    BY FS_EmptySet
  <2>6. inferred' = Cardinality(transient')
    <3>1. Cardinality(transient') = Cardinality(transient) + Cardinality(fresh) - 0
      BY <2>3, <2>4, <2>5
    <3> HIDE DEF fresh
    <3> QED
      BY <1>4, <2>2, <3>1
  <2> QED
    BY <1>3, <1>5, <2>1, <2>6
<1>7. asserted' = asserted /\ lost' \in BOOLEAN
  BY DEF InsertConstructResult, CountInv
<1>8. inferred' \in Nat
  BY <1>3, <1>4 DEF InsertConstructResult, CountInv
<1> QED
  BY <1>1, <1>5, <1>6, <1>7, <1>8

-----------------------------------------------------------------------------
(* Steps.                                                                  *)

\* The stage after one whose results have been inserted.
NextStage(at) ==
  CASE at = "6" -> "5"
    [] at = "5" -> IF Reported(results) > 0 THEN "5" ELSE "7"
    [] at = "7" -> "2 3 8"
    [] at = "2 3 8" -> "10 11"
    [] at = "10 11" -> IF Reported(results) > 0 THEN "10 11" ELSE "9"
    [] at = "9" -> "done"
    [] at = "done" -> "done"

\* Queries read the graph and nothing else.
LEMMA QueriesFrame ==
  ASSUME UNCHANGED <<asserted, transient>>
  PROVE  /\ Rdfs2' = Rdfs2 /\ Rdfs3' = Rdfs3 /\ Rdfs5' = Rdfs5 /\ Rdfs6' = Rdfs6 /\ Rdfs7' = Rdfs7
         /\ Rdfs8' = Rdfs8 /\ Rdfs9' = Rdfs9 /\ Rdfs10' = Rdfs10 /\ Rdfs11' = Rdfs11
         /\ UNCHANGED stage => Queries(stage)' = Queries(stage)
<1>1. Visible' = Visible
  BY DEF Visible
<1>2. /\ Rdfs2' = Rdfs2 /\ Rdfs3' = Rdfs3 /\ Rdfs5' = Rdfs5 /\ Rdfs6' = Rdfs6 /\ Rdfs7' = Rdfs7
      /\ Rdfs8' = Rdfs8 /\ Rdfs9' = Rdfs9 /\ Rdfs10' = Rdfs10 /\ Rdfs11' = Rdfs11
  BY <1>1 DEF Rdfs2, Rdfs3, Rdfs5, Rdfs6, Rdfs7, Rdfs8, Rdfs9, Rdfs10, Rdfs11, Using, Chained, Transitive, Instances
<1> QED
  BY <1>2 DEF Queries, NotQueried

\* A step runs the queries of the stage, or inserts what they found and goes
\* on to the stage that follows.
LEMMA StepIs ==
  ASSUME CountInv, [Next]_vars
  PROVE  \/ UNCHANGED vars
         \/ /\ UNCHANGED <<asserted, transient, stage, inferred, lost>>
            /\ results' = Queries(stage)
         \/ /\ results = Queries(stage)
            /\ stage # "done"
            /\ InsertConstructResult(results)
            /\ results' = NotQueried
            /\ stage' = NextStage(stage)
<1>1. results = NotQueried \/ results = Queries(stage)
  BY DEF CountInv
<1>2. CASE SubPropertyReflexive
  BY <1>1, <1>2 DEF SubPropertyReflexive, InsertOnce, RunQueries, InsertResults, Queries, NextStage
<1>3. CASE SubPropertyTransitive
  BY <1>1, <1>3 DEF SubPropertyTransitive, InsertUntilFixedPoint, RunQueries, InsertResults, Queries, NextStage
<1>4. CASE SubPropertyInherited
  BY <1>1, <1>4 DEF SubPropertyInherited, InsertOnce, RunQueries, InsertResults, Queries, NextStage
<1>5. CASE Typing
  BY <1>1, <1>5 DEF Typing, InsertOnce, RunQueries, InsertResults, Queries, NextStage
<1>6. CASE SubClassHierarchy
  BY <1>1, <1>6 DEF SubClassHierarchy, InsertUntilFixedPoint, RunQueries, InsertResults, Queries, NextStage
<1>7. CASE TypesInherited
  BY <1>1, <1>7 DEF TypesInherited, InsertOnce, RunQueries, InsertResults, Queries, NextStage
<1>8. CASE Done
  BY <1>8 DEF Done
<1>9. CASE UNCHANGED vars
  BY <1>9
<1> QED
  BY <1>2, <1>3, <1>4, <1>5, <1>6, <1>7, <1>8, <1>9 DEF Next

\* Nothing is inferred at first.
LEMMA CountInit == Init => CountInv
<1>1. Cardinality({}) = 0
  BY FS_EmptySet
<1> SUFFICES ASSUME Init
             PROVE  CountInv
  OBVIOUS
<1>2. asserted \subseteq Universe /\ results = NotQueried /\ inferred \in Nat /\ lost \in BOOLEAN
  BY DEF Init
<1>3. transient \subseteq Triple /\ inferred = Cardinality(transient)
  BY <1>1 DEF Init
<1>4. stage \in Stages
  BY DEF Init, Stages
<1> QED
  BY <1>2, <1>3, <1>4 DEF CountInv

LEMMA CountNext == CountInv /\ [Next]_vars => CountInv'
<1> SUFFICES ASSUME CountInv, [Next]_vars
             PROVE  CountInv'
  OBVIOUS
<1>1. CASE UNCHANGED vars
  <2>1. UNCHANGED <<asserted, transient, stage, results, inferred, lost>>
    BY <1>1 DEF vars
  <2>2. Queries(stage)' = Queries(stage)
    BY <2>1, QueriesFrame
  <2> QED
    BY <2>1, <2>2 DEF CountInv
<1>2. CASE /\ UNCHANGED <<asserted, transient, stage, inferred, lost>>
           /\ results' = Queries(stage)
  <2>1. Queries(stage)' = Queries(stage)
    BY <1>2, QueriesFrame
  <2> QED
    BY <1>2, <2>1 DEF CountInv
<1>3. CASE /\ results = Queries(stage)
           /\ stage # "done"
           /\ InsertConstructResult(results)
           /\ results' = NotQueried
           /\ stage' = NextStage(stage)
  <2>1. stage' \in Stages
    BY <1>3 DEF CountInv, Stages, NextStage
  <2> QED
    BY <1>3, <2>1, InsertCounts DEF CountInv
<1> QED
  BY <1>1, <1>2, <1>3, StepIs

\* The queries of a stage are run on the graph that its results go to, and
\* the count is right whenever no triple has been lost.
THEOREM CountInvariant == Spec => []CountInv
BY CountInit, CountNext, PTL DEF Spec

\* infer_rdfs returns the number of triples it has inferred.
THEOREM CountCorrect == Spec => []CountExact
<1>1. CountInv => CountExact
  BY DEF CountInv, CountExact
<1> QED
  BY <1>1, CountInvariant, PTL

-----------------------------------------------------------------------------
(* What has been derived, of any set of triples.                           *)

Reflexive(V, c, p) == \A t \in V : (t[2] = Type /\ t[3] = c) => <<t[1], p, t[1]>> \in V
UnderResource(V) == \A t \in V : (t[2] = Type /\ t[3] = Class) => <<t[1], SubClassOf, Resource>> \in V
Closed(V, p) == \A s, t \in V : (s[2] = p /\ t[2] = p /\ s[3] = t[1]) => <<s[1], p, t[3]>> \in V
Inherited(V) == \A d, t \in V : (d[2] = SubPropertyOf /\ t[2] = d[1]) => <<t[1], d[3], t[3]>> \in V
Ranged(V) == \A d, t \in V : t[2] = d[1] =>
               /\ d[2] = Domain => <<t[1], Type, d[3]>> \in V
               /\ d[2] = Rng => <<t[3], Type, d[3]>> \in V
TypesUp(V) == \A s, t \in V : (s[2] = Type /\ t[2] = SubClassOf /\ s[3] = t[1]) => <<s[1], Type, t[3]>> \in V

\* Nothing is said of the vocabulary, except that it has instances; and of
\* what is inferred, not even that.
Plain(V) == \A t \in V : t[1] \notin Vocabulary /\ (t[3] \in Vocabulary => t[2] = Type)
Silent(N) == \A t \in N : t[1] \notin Vocabulary /\ t[3] \notin Vocabulary

\* New triples that are silent about the vocabulary make nobody an instance of
\* its classes.
LEMMA KeepReflexive ==
  ASSUME NEW V, NEW N, Silent(N), NEW p, NEW c \in Vocabulary, Reflexive(V, c, p)
  PROVE  Reflexive(V \cup N, c, p)
BY DEF Reflexive, Silent

LEMMA KeepUnderResource ==
  ASSUME NEW V, NEW N, Silent(N), UnderResource(V)
  PROVE  UnderResource(V \cup N)
BY DEF UnderResource, Silent, Vocabulary

\* A hierarchy stays closed under triples with other predicates.
LEMMA KeepClosed ==
  ASSUME NEW V, NEW N, NEW p, Closed(V, p), \A t \in N : t[2] # p
  PROVE  Closed(V \cup N, p)
BY DEF Closed

\* Properties stay inherited under triples with predicates of the rules, since
\* these have no superproperty.
LEMMA KeepInherited ==
  ASSUME NEW V, NEW N, Plain(V), Inherited(V), \A t \in N : t[2] \in {Type, SubClassOf}
  PROVE  Inherited(V \cup N)
<1> SUFFICES ASSUME NEW d \in V \cup N, NEW t \in V \cup N, d[2] = SubPropertyOf, t[2] = d[1]
             PROVE  <<t[1], d[3], t[3]>> \in V \cup N
  BY DEF Inherited
<1>1. d \in V
  BY VocabularyAssumption
<1>2. t[2] \notin Vocabulary
  BY <1>1 DEF Plain
<1>3. t \in V
  BY <1>2 DEF Vocabulary
<1> QED
  BY <1>1, <1>3 DEF Inherited

\* And so do the types from domains and ranges.
LEMMA KeepRanged ==
  ASSUME NEW V, NEW N, Plain(V), Ranged(V), \A t \in N : t[2] \in {Type, SubClassOf}
  PROVE  Ranged(V \cup N)
<1> SUFFICES ASSUME NEW d \in V \cup N, NEW t \in V \cup N, d[2] \in {Domain, Rng}, t[2] = d[1]
             PROVE  /\ d[2] = Domain => <<t[1], Type, d[3]>> \in V \cup N
                    /\ d[2] = Rng => <<t[3], Type, d[3]>> \in V \cup N
  BY DEF Ranged
<1>1. d \in V
  BY VocabularyAssumption
<1>2. t[2] \notin Vocabulary
  BY <1>1 DEF Plain
<1>3. t \in V
  BY <1>2 DEF Vocabulary
<1> QED
  BY <1>1, <1>3 DEF Ranged

\* One round of rule 7 is enough once subproperties are transitive.
LEMMA GetInherited ==
  ASSUME NEW V, NEW N, Plain(V), Closed(V, SubPropertyOf),
         \A n \in N : \E d, t \in V : d[2] = SubPropertyOf /\ t[2] = d[1] /\ n = <<t[1], d[3], t[3]>>,
         \A d, t \in V : (d[2] = SubPropertyOf /\ t[2] = d[1]) => <<t[1], d[3], t[3]>> \in V \cup N
  PROVE  Inherited(V \cup N)
<1> SUFFICES ASSUME NEW d \in V \cup N, NEW t \in V \cup N, d[2] = SubPropertyOf, t[2] = d[1]
             PROVE  <<t[1], d[3], t[3]>> \in V \cup N
  BY DEF Inherited
<1>1. d \in V
  <2>1. ASSUME d \in N PROVE FALSE
    <3>1. PICK e \in V, u \in V : e[2] = SubPropertyOf /\ d = <<u[1], e[3], u[3]>>
      BY <2>1
    <3>2. e[3] = SubPropertyOf
      BY <3>1
    <3> QED
      BY <3>1, <3>2, VocabularyAssumption DEF Plain, Vocabulary
  <2> QED
    BY <2>1
<1>2. CASE t \in V
  BY <1>1, <1>2
<1>3. CASE t \in N
  <2>1. PICK e \in V, u \in V : e[2] = SubPropertyOf /\ u[2] = e[1] /\ t = <<u[1], e[3], u[3]>>
    BY <1>3
  <2>2. e[3] = d[1] /\ t[1] = u[1] /\ t[3] = u[3]
    BY <2>1
  <2> DEFINE f == <<e[1], SubPropertyOf, d[3]>>
  <2>3. f \in V
    BY <1>1, <2>1, <2>2 DEF Closed
  <2>4. f[1] = e[1] /\ f[2] = SubPropertyOf /\ f[3] = d[3]
    OBVIOUS
  <2> HIDE DEF f
  <2>5. <<u[1], f[3], u[3]>> \in V \cup N
    BY <2>1, <2>3, <2>4
  <2> QED
    BY <2>2, <2>4, <2>5
<1> QED
  BY <1>2, <1>3

\* One round of rule 9 is enough once subclasses are transitive.
LEMMA GetTypesUp ==
  ASSUME NEW V, NEW N, Closed(V, SubClassOf),
         \A n \in N : \E s, t \in V : /\ s[2] = Type /\ t[2] = SubClassOf /\ s[3] = t[1]
                                      /\ n = <<s[1], Type, t[3]>>,
         \A s, t \in V : (s[2] = Type /\ t[2] = SubClassOf /\ s[3] = t[1]) => <<s[1], Type, t[3]>> \in V \cup N
  PROVE  TypesUp(V \cup N)
<1> SUFFICES ASSUME NEW s \in V \cup N, NEW t \in V \cup N, s[2] = Type, t[2] = SubClassOf, s[3] = t[1]
             PROVE  <<s[1], Type, t[3]>> \in V \cup N
  BY DEF TypesUp
<1>1. t \in V
  BY VocabularyAssumption
<1>2. CASE s \in V
  BY <1>1, <1>2
<1>3. CASE s \in N
  <2>1. PICK e \in V, u \in V : /\ e[2] = Type /\ u[2] = SubClassOf /\ e[3] = u[1]
                                /\ s = <<e[1], Type, u[3]>>
    BY <1>3
  <2>2. u[3] = t[1] /\ s[1] = e[1]
    BY <2>1
  <2> DEFINE f == <<u[1], SubClassOf, t[3]>>
  <2>3. f \in V
    BY <1>1, <2>1, <2>2 DEF Closed
  <2>4. f[1] = u[1] /\ f[2] = SubClassOf /\ f[3] = t[3]
    OBVIOUS
  <2> HIDE DEF f
  <2>5. <<e[1], Type, f[3]>> \in V \cup N
    BY <2>1, <2>3, <2>4
  <2> QED
    BY <2>2, <2>4, <2>5
<1> QED
  BY <1>2, <1>3

\* One round of rules 2 and 3 is enough: what they add are types.
LEMMA GetRanged ==
  ASSUME NEW V, NEW N, Plain(V), \A n \in N : n[2] \in {Type, SubClassOf},
         \A d, t \in V : t[2] = d[1] =>
            /\ d[2] = Domain => <<t[1], Type, d[3]>> \in V \cup N
            /\ d[2] = Rng => <<t[3], Type, d[3]>> \in V \cup N
  PROVE  Ranged(V \cup N)
<1> SUFFICES ASSUME NEW d \in V \cup N, NEW t \in V \cup N, d[2] \in {Domain, Rng}, t[2] = d[1]
             PROVE  /\ d[2] = Domain => <<t[1], Type, d[3]>> \in V \cup N
                    /\ d[2] = Rng => <<t[3], Type, d[3]>> \in V \cup N
  BY DEF Ranged
<1>1. d \in V
  BY VocabularyAssumption
<1>2. t[2] \notin Vocabulary
  BY <1>1 DEF Plain
<1>3. t \in V
  BY <1>2 DEF Vocabulary
<1> QED
  BY <1>1, <1>3

-----------------------------------------------------------------------------
(* What each stage derives, and what stays derived in later ones.          *)

Derived(V) ==
  /\ stage # "6" => Reflexive(V, Property, SubPropertyOf)
  /\ stage \in {"7", "2 3 8", "10 11", "9", "done"} => Closed(V, SubPropertyOf)
  /\ stage \in {"2 3 8", "10 11", "9", "done"} => Inherited(V)
  /\ stage \in {"10 11", "9", "done"} => Ranged(V) /\ UnderResource(V)
  /\ stage \in {"9", "done"} => Reflexive(V, Class, SubClassOf) /\ Closed(V, SubClassOf)
  /\ stage = "done" => TypesUp(V)

\* The inductive invariant of the stages.
StageInv == CountInv /\ Silent(transient) /\ (~lost => Derived(Visible))

\* The graph says nothing of the vocabulary if what is asserted does not.
LEMMA VisiblePlain ==
  ASSUME PlainVocabulary, CountInv, Silent(transient)
  PROVE  Plain(Visible)
BY DEF PlainVocabulary, CountInv, Silent, Plain, Visible

\* What is inserted, by stage.
LEMMA NewIs ==
  ASSUME results = Queries(stage), stage # "done", CountInv
  PROVE  New = CASE stage = "6" -> Rdfs6
                 [] stage = "5" -> Rdfs5
                 [] stage = "7" -> Rdfs7
                 [] stage = "2 3 8" -> Rdfs2 \cup Rdfs3 \cup Rdfs8
                 [] stage = "10 11" -> Rdfs10 \cup Rdfs11
                 [] stage = "9" -> Rdfs9
<1> DEFINE U(Qs) == UNION {Qs[i] : i \in DOMAIN Qs}
<1>1. /\ U(<<Rdfs6>>) = Rdfs6 /\ U(<<Rdfs5>>) = Rdfs5 /\ U(<<Rdfs7>>) = Rdfs7 /\ U(<<Rdfs9>>) = Rdfs9
      /\ U(<<Rdfs2, Rdfs3, Rdfs8>>) = Rdfs2 \cup Rdfs3 \cup Rdfs8
      /\ U(<<Rdfs10, Rdfs11>>) = Rdfs10 \cup Rdfs11
  <2>1. \A A, B, C : U(<<A>>) = A /\ U(<<A, B>>) = A \cup B /\ U(<<A, B, C>>) = A \cup B \cup C
    <3> SUFFICES ASSUME NEW A, NEW B, NEW C
                 PROVE  U(<<A>>) = A /\ U(<<A, B>>) = A \cup B /\ U(<<A, B, C>>) = A \cup B \cup C
      OBVIOUS
    <3>1. DOMAIN <<A>> = {1} /\ DOMAIN <<A, B>> = {1, 2} /\ DOMAIN <<A, B, C>> = {1, 2, 3}
      OBVIOUS
    <3>2. U(<<A>>) = A
      BY <3>1
    <3>3. U(<<A, B>>) = A \cup B
      BY <3>1
    <3>4. U(<<A, B, C>>) = A \cup B \cup C
      BY <3>1
    <3> QED
      BY <3>2, <3>3, <3>4
  <2> HIDE DEF U
  <2> QED
    BY <2>1
<1>2. New = U(results)
  BY DEF New
<1>3. stage \in {"6", "5", "7", "2 3 8", "10 11", "9"}
  BY DEF CountInv, Stages
<1> HIDE DEF U
<1> QED
  BY <1>1, <1>2, <1>3 DEF Queries

\* Which triples the rules derive.
LEMMA RulesAre ==
  /\ \A n \in Rdfs2 : \E d, t \in Visible : d[2] = Domain /\ t[2] = d[1] /\ n = <<t[1], Type, d[3]>>
  /\ \A n \in Rdfs3 : \E d, t \in Visible : d[2] = Rng /\ t[2] = d[1] /\ n = <<t[3], Type, d[3]>>
  /\ \A n \in Rdfs7 : \E d, t \in Visible : d[2] = SubPropertyOf /\ t[2] = d[1] /\ n = <<t[1], d[3], t[3]>>
  /\ \A n \in Rdfs9 : \E s, t \in Visible : s[2] = Type /\ t[2] = SubClassOf /\ s[3] = t[1]
                                             /\ n = <<s[1], Type, t[3]>>
  /\ \A d, t \in Visible : t[2] = d[1] =>
       /\ d[2] = Domain => <<t[1], Type, d[3]>> \in Rdfs2
       /\ d[2] = Rng => <<t[3], Type, d[3]>> \in Rdfs3
       /\ d[2] = SubPropertyOf => <<t[1], d[3], t[3]>> \in Rdfs7
  /\ \A s, t \in Visible : (s[2] = Type /\ t[2] = SubClassOf /\ s[3] = t[1]) => <<s[1], Type, t[3]>> \in Rdfs9
<1>1. ASSUME NEW d \in Visible, NEW t \in Visible, NEW p, d[2] = p, t[2] = d[1]
      PROVE  <<d, t>> \in Using(p) /\ <<d, t>>[1] = d /\ <<d, t>>[2] = t
  BY <1>1 DEF Using
<1>2. ASSUME NEW s \in Visible, NEW t \in Visible, NEW p, NEW q, s[2] = p, t[2] = q, s[3] = t[1]
      PROVE  <<s, t>> \in Chained(p, q) /\ <<s, t>>[1] = s /\ <<s, t>>[2] = t
  BY <1>2 DEF Chained
<1>3. ASSUME NEW d \in Visible, NEW t \in Visible, t[2] = d[1]
      PROVE  /\ d[2] = Domain => <<t[1], Type, d[3]>> \in Rdfs2
             /\ d[2] = Rng => <<t[3], Type, d[3]>> \in Rdfs3
             /\ d[2] = SubPropertyOf => <<t[1], d[3], t[3]>> \in Rdfs7
  BY <1>1, <1>3 DEF Rdfs2, Rdfs3, Rdfs7
<1>4. ASSUME NEW s \in Visible, NEW t \in Visible, s[2] = Type, t[2] = SubClassOf, s[3] = t[1]
      PROVE  <<s[1], Type, t[3]>> \in Rdfs9
  <2> DEFINE m == <<s, t>>
  <2>1. m \in Chained(Type, SubClassOf) /\ m[1] = s /\ m[2] = t
    BY <1>2, <1>4
  <2> HIDE DEF m
  <2>2. <<m[1][1], Type, m[2][3]>> \in Rdfs9
    BY <2>1 DEF Rdfs9
  <2> QED
    BY <2>1, <2>2
<1>5. \A n \in Rdfs2 : \E d, t \in Visible : d[2] = Domain /\ t[2] = d[1] /\ n = <<t[1], Type, d[3]>>
  BY DEF Rdfs2, Using
<1>6. \A n \in Rdfs3 : \E d, t \in Visible : d[2] = Rng /\ t[2] = d[1] /\ n = <<t[3], Type, d[3]>>
  BY DEF Rdfs3, Using
<1>7. \A n \in Rdfs7 : \E d, t \in Visible : d[2] = SubPropertyOf /\ t[2] = d[1] /\ n = <<t[1], d[3], t[3]>>
  BY DEF Rdfs7, Using
<1>8. \A n \in Rdfs9 : \E s, t \in Visible : s[2] = Type /\ t[2] = SubClassOf /\ s[3] = t[1]
                                             /\ n = <<s[1], Type, t[3]>>
  BY DEF Rdfs9, Chained
<1> QED
  BY <1>3, <1>4, <1>5, <1>6, <1>7, <1>8

\* The rules that close the hierarchies derive triples of the hierarchies.
LEMMA HierarchyRulesAre ==
  /\ \A n \in Rdfs5 \cup Rdfs6 : n[2] = SubPropertyOf
  /\ \A n \in Rdfs8 \cup Rdfs10 \cup Rdfs11 : n[2] = SubClassOf
  /\ \A n \in Rdfs5 \cup Rdfs11 : \E s, t \in Visible : n[1] = s[1] /\ n[3] = t[3] /\ s[2] = n[2] /\ t[2] = n[2]
  /\ \A n \in Rdfs6 \cup Rdfs8 \cup Rdfs10 : \E t \in Visible : n[1] = t[1] /\ (n[3] = t[1] \/ n[3] = Resource)
  /\ \A s, t \in Visible : s[3] = t[1] =>
       /\ (s[2] = SubPropertyOf /\ t[2] = SubPropertyOf) => <<s[1], SubPropertyOf, t[3]>> \in Rdfs5
       /\ (s[2] = SubClassOf /\ t[2] = SubClassOf) => <<s[1], SubClassOf, t[3]>> \in Rdfs11
  /\ \A t \in Visible : t[2] = Type =>
       /\ t[3] = Property => <<t[1], SubPropertyOf, t[1]>> \in Rdfs6
       /\ t[3] = Class => <<t[1], SubClassOf, Resource>> \in Rdfs8 /\ <<t[1], SubClassOf, t[1]>> \in Rdfs10
<1>1. ASSUME NEW p
      PROVE  /\ \A n \in Transitive(p) : n[2] = p /\ \E s, t \in Visible : n[1] = s[1] /\ n[3] = t[3] /\ s[2] = p /\ t[2] = p
             /\ \A s, t \in Visible : (s[3] = t[1] /\ s[2] = p /\ t[2] = p) => <<s[1], p, t[3]>> \in Transitive(p)
  <2>1. ASSUME NEW s \in Visible, NEW t \in Visible, s[3] = t[1], s[2] = p, t[2] = p
        PROVE  <<s[1], p, t[3]>> \in Transitive(p)
    <3> DEFINE m == <<s, t>>
    <3>1. m \in Chained(p, p) /\ m[1] = s /\ m[2] = t
      BY <2>1 DEF Chained
    <3> HIDE DEF m
    <3>2. <<m[1][1], p, m[2][3]>> \in Transitive(p)
      BY <3>1 DEF Transitive
    <3> QED
      BY <3>1, <3>2
  <2>2. \A n \in Transitive(p) : n[2] = p /\ \E s, t \in Visible : n[1] = s[1] /\ n[3] = t[3] /\ s[2] = p /\ t[2] = p
    BY DEF Transitive, Chained
  <2> QED
    BY <2>1, <2>2
<1>2. \A c : \A x \in Instances(c) : \E t \in Visible : x = t[1]
  BY DEF Instances
<1>3. ASSUME NEW n \in Rdfs6 \cup Rdfs8 \cup Rdfs10
      PROVE  /\ n \in Rdfs6 => n[2] = SubPropertyOf
             /\ n \in Rdfs8 \cup Rdfs10 => n[2] = SubClassOf
             /\ \E t \in Visible : n[1] = t[1] /\ (n[3] = t[1] \/ n[3] = Resource)
  BY <1>2, <1>3 DEF Rdfs6, Rdfs8, Rdfs10
<1>4. ASSUME NEW t \in Visible, t[2] = Type
      PROVE  /\ t[3] = Property => <<t[1], SubPropertyOf, t[1]>> \in Rdfs6
             /\ t[3] = Class => <<t[1], SubClassOf, Resource>> \in Rdfs8 /\ <<t[1], SubClassOf, t[1]>> \in Rdfs10
  BY <1>4 DEF Rdfs6, Rdfs8, Rdfs10, Instances
<1>5. Rdfs5 = Transitive(SubPropertyOf) /\ Rdfs11 = Transitive(SubClassOf)
  BY DEF Rdfs5, Rdfs11
<1>6. \A n \in Rdfs5 \cup Rdfs6 : n[2] = SubPropertyOf
  BY <1>1, <1>3, <1>5
<1>7. \A n \in Rdfs8 \cup Rdfs10 \cup Rdfs11 : n[2] = SubClassOf
  BY <1>1, <1>3, <1>5
<1>8. \A n \in Rdfs5 \cup Rdfs11 : \E s, t \in Visible : n[1] = s[1] /\ n[3] = t[3] /\ s[2] = n[2] /\ t[2] = n[2]
  BY <1>1, <1>5
<1>9. \A s, t \in Visible : s[3] = t[1] =>
        /\ (s[2] = SubPropertyOf /\ t[2] = SubPropertyOf) => <<s[1], SubPropertyOf, t[3]>> \in Rdfs5
        /\ (s[2] = SubClassOf /\ t[2] = SubClassOf) => <<s[1], SubClassOf, t[3]>> \in Rdfs11
  BY <1>1, <1>5
<1> QED
  BY <1>3, <1>4, <1>6, <1>7, <1>8, <1>9

\* What is derived is silent about the vocabulary, and each stage derives
\* triples with predicates of its own.
LEMMA NewSilent ==
  ASSUME PlainVocabulary, CountInv, Silent(transient), results = Queries(stage), stage # "done"
  PROVE  /\ Silent(New)
         /\ stage \in {"6", "5"} => \A n \in New : n[2] = SubPropertyOf
         /\ stage \in {"2 3 8", "10 11", "9"} => \A n \in New : n[2] \in {Type, SubClassOf}
         /\ stage = "9" => \A n \in New : n[2] = Type
<1>1. Plain(Visible)
  BY VisiblePlain
<1>2. stage \in {"6", "5", "7", "2 3 8", "10 11", "9"}
  BY DEF CountInv, Stages
<1>3. Resource \notin Vocabulary
  BY VocabularyAssumption DEF Vocabulary
<1>4. \A n \in Rdfs5 \cup Rdfs11 : n[2] # Type
  BY HierarchyRulesAre, VocabularyAssumption
<1>5. Silent(Rdfs5 \cup Rdfs11)
  BY <1>1, <1>4, HierarchyRulesAre DEF Silent, Plain
<1>6. Silent(Rdfs6 \cup Rdfs8 \cup Rdfs10)
  BY <1>1, <1>3, HierarchyRulesAre DEF Silent, Plain
<1>7. Silent(Rdfs2) /\ Silent(Rdfs7) /\ Silent(Rdfs9)
  <2>1. ASSUME NEW n \in Rdfs2 PROVE n[1] \notin Vocabulary /\ n[3] \notin Vocabulary
    <3>1. PICK d \in Visible, t \in Visible : d[2] = Domain /\ t[2] = d[1] /\ n = <<t[1], Type, d[3]>>
      BY RulesAre
    <3> QED
      BY <1>1, <3>1, VocabularyAssumption DEF Plain
  <2>2. ASSUME NEW n \in Rdfs7 PROVE n[1] \notin Vocabulary /\ n[3] \notin Vocabulary
    <3>1. PICK d \in Visible, t \in Visible : d[2] = SubPropertyOf /\ t[2] = d[1] /\ n = <<t[1], d[3], t[3]>>
      BY RulesAre
    <3>2. t[2] # Type
      BY <1>1, <3>1 DEF Plain, Vocabulary
    <3> QED
      BY <1>1, <3>1, <3>2 DEF Plain
  <2>3. ASSUME NEW n \in Rdfs9 PROVE n[1] \notin Vocabulary /\ n[3] \notin Vocabulary
    <3>1. PICK s \in Visible, t \in Visible : t[2] = SubClassOf /\ n = <<s[1], Type, t[3]>>
      BY RulesAre
    <3> QED
      BY <1>1, <3>1, VocabularyAssumption DEF Plain
  <2> QED
    BY <2>1, <2>2, <2>3 DEF Silent
<1>8. Silent(Rdfs3)
  <2>1. ASSUME NEW n \in Rdfs3 PROVE n[1] \notin Vocabulary /\ n[3] \notin Vocabulary
    <3>1. PICK d \in Visible, t \in Visible : d[2] = Rng /\ t[2] = d[1] /\ n = <<t[3], Type, d[3]>>
      BY RulesAre
    <3>2. t[2] # Type
      BY <1>1, <3>1 DEF Plain, Vocabulary
    <3> QED
      BY <1>1, <3>1, <3>2, VocabularyAssumption DEF Plain
  <2> QED
    BY <2>1 DEF Silent
<1>9. /\ \A n \in Rdfs2 \cup Rdfs3 \cup Rdfs9 : n[2] = Type
      /\ \A n \in Rdfs8 \cup Rdfs10 \cup Rdfs11 : n[2] = SubClassOf
      /\ \A n \in Rdfs5 \cup Rdfs6 : n[2] = SubPropertyOf
  <2>1. /\ \A n \in Rdfs2 : n[2] = Type
        /\ \A n \in Rdfs3 : n[2] = Type
        /\ \A n \in Rdfs9 : n[2] = Type
    BY DEF Rdfs2, Rdfs3, Rdfs9
  <2> QED
    BY <2>1, HierarchyRulesAre
<1>10. Silent(New)
  <2>1. \/ New = Rdfs6 \/ New = Rdfs5 \/ New = Rdfs7 \/ New = Rdfs9
        \/ New = Rdfs2 \cup Rdfs3 \cup Rdfs8 \/ New = Rdfs10 \cup Rdfs11
    BY <1>2, NewIs
  <2> QED
    BY <1>5, <1>6, <1>7, <1>8, <2>1 DEF Silent
<1>11. stage \in {"6", "5"} => \A n \in New : n[2] = SubPropertyOf
  BY <1>9, NewIs
<1>12. stage \in {"2 3 8", "10 11", "9"} => \A n \in New : n[2] \in {Type, SubClassOf}
  BY <1>9, NewIs
<1>13. stage = "9" => \A n \in New : n[2] = Type
  BY <1>9, NewIs
<1> QED
  BY <1>10, <1>11, <1>12, <1>13

\* A loop that reports nothing new has found what was there already.
LEMMA NothingNew ==
  ASSUME CountInv, InsertConstructResult(results), ~lost', ~(Reported(results) > 0)
  PROVE  New \subseteq Visible
<1> DEFINE fresh == (New \ asserted) \ transient
<1>1. Reported(results) = Cardinality(fresh)
  BY InsertCounts
<1>2. IsFiniteSet(fresh)
  <2>1. fresh \in SUBSET Triple
    BY NewDerived
  <2> HIDE DEF fresh
  <2> QED
    BY <2>1, TripleFinite, FS_Subset
<1>3. fresh = {}
  <2> HIDE DEF fresh
  <2>1. Cardinality(fresh) \in Nat
    BY <1>2, FS_CardinalityType
  <2>2. Cardinality(fresh) = 0
    BY <1>1, <2>1
  <2> QED
    BY <1>2, <2>2, FS_EmptySet
<1> QED
  BY <1>3 DEF Visible

\* Inserting the results of a stage makes true what the next one relies on.
LEMMA StageDerives ==
  ASSUME PlainVocabulary, StageInv, results = Queries(stage), stage # "done",
         InsertConstructResult(results), stage' = NextStage(stage), ~lost'
  PROVE  Derived(Visible)'
<1> DEFINE V == Visible
           W == Visible'
<1>1. CountInv /\ Silent(transient)
  BY DEF StageInv
<1>2. ~lost /\ Derived(V)
  BY <1>1, InsertCounts DEF StageInv
<1>3. W = V \cup New
  BY <1>1, InsertCounts DEF Visible
<1>4. Plain(V) /\ Silent(New)
  BY <1>1, VisiblePlain, NewSilent
<1>5. Property \in Vocabulary /\ Class \in Vocabulary
  BY DEF Vocabulary
<1>6. CASE stage = "6"
  <2>1. stage' = "5"
    BY <1>6 DEF NextStage
  <2>2. New = Rdfs6
    BY <1>1, <1>6, NewIs
  <2>3. Reflexive(W, Property, SubPropertyOf)
    <3> SUFFICES ASSUME NEW t \in W, t[2] = Type, t[3] = Property
                 PROVE  <<t[1], SubPropertyOf, t[1]>> \in W
      BY DEF Reflexive
    <3>1. t \in V
      BY <1>3, <1>4, <1>5 DEF Silent
    <3> QED
      BY <1>3, <2>2, <3>1, HierarchyRulesAre
  <2> QED
    BY <2>1, <2>3 DEF Derived
<1>7. CASE stage = "5"
  <2>1. Reflexive(V, Property, SubPropertyOf)
    BY <1>2, <1>7 DEF Derived
  <2>2. Reflexive(W, Property, SubPropertyOf)
    BY <1>3, <1>4, <1>5, <2>1, KeepReflexive
  <2>3. CASE Reported(results) > 0
    <3>1. stage' = "5"
      BY <1>7, <2>3 DEF NextStage
    <3> QED
      BY <2>2, <3>1 DEF Derived
  <2>4. CASE ~(Reported(results) > 0)
    <3>1. stage' = "7"
      BY <1>7, <2>4 DEF NextStage
    <3>2. New \subseteq V /\ W = V
      BY <1>1, <1>3, <2>4, NothingNew
    <3>3. New = Rdfs5
      BY <1>1, <1>7, NewIs
    <3>4. Closed(W, SubPropertyOf)
      BY <3>2, <3>3, HierarchyRulesAre DEF Closed
    <3> QED
      BY <2>2, <3>1, <3>4 DEF Derived
  <2> QED
    BY <2>3, <2>4
<1>8. CASE stage = "7"
  <2>1. Reflexive(V, Property, SubPropertyOf) /\ Closed(V, SubPropertyOf)
    BY <1>2, <1>8 DEF Derived
  <2>2. stage' = "2 3 8"
    BY <1>8 DEF NextStage
  <2>3. New = Rdfs7
    BY <1>1, <1>8, NewIs
  <2>4. Reflexive(W, Property, SubPropertyOf)
    BY <1>3, <1>4, <1>5, <2>1, KeepReflexive
  <2>5. \A n \in New : n[2] # SubPropertyOf
    <3>1. \A n \in New : \E d \in V : d[2] = SubPropertyOf /\ n[2] = d[3]
      BY <2>3, RulesAre
    <3> QED
      BY <1>4, <3>1, VocabularyAssumption DEF Plain, Vocabulary
  <2>6. Closed(W, SubPropertyOf)
    BY <1>3, <2>1, <2>5, KeepClosed
  <2>7. Inherited(W)
    <3>1. \A n \in New : \E d, t \in V : d[2] = SubPropertyOf /\ t[2] = d[1] /\ n = <<t[1], d[3], t[3]>>
      BY <2>3, RulesAre
    <3>2. \A d, t \in V : (d[2] = SubPropertyOf /\ t[2] = d[1]) => <<t[1], d[3], t[3]>> \in V \cup New
      BY <2>3, RulesAre
    <3> HIDE DEF V
    <3> QED
      BY <1>3, <1>4, <2>1, <3>1, <3>2, GetInherited
  <2> QED
    BY <2>2, <2>4, <2>6, <2>7 DEF Derived
<1>9. CASE stage = "2 3 8"
  <2>1. Reflexive(V, Property, SubPropertyOf) /\ Closed(V, SubPropertyOf) /\ Inherited(V)
    BY <1>2, <1>9 DEF Derived
  <2>2. stage' = "10 11"
    BY <1>9 DEF NextStage
  <2>3. New = Rdfs2 \cup Rdfs3 \cup Rdfs8
    BY <1>1, <1>9, NewIs
  <2>4. \A n \in New : n[2] \in {Type, SubClassOf}
    BY <1>1, <1>9, NewSilent
  <2>5. \A n \in New : n[2] # SubPropertyOf
    BY <2>4, VocabularyAssumption
  <2>6. Reflexive(W, Property, SubPropertyOf) /\ Closed(W, SubPropertyOf) /\ Inherited(W)
    BY <1>3, <1>4, <1>5, <2>1, <2>4, <2>5, KeepReflexive, KeepClosed, KeepInherited
  <2>7. Ranged(W)
    <3>1. \A d, t \in V : t[2] = d[1] =>
            /\ d[2] = Domain => <<t[1], Type, d[3]>> \in V \cup New
            /\ d[2] = Rng => <<t[3], Type, d[3]>> \in V \cup New
      BY <2>3, RulesAre
    <3> HIDE DEF V
    <3> QED
      BY <1>3, <1>4, <2>4, <3>1, GetRanged
  <2>8. UnderResource(W)
    <3> SUFFICES ASSUME NEW t \in W, t[2] = Type, t[3] = Class
                 PROVE  <<t[1], SubClassOf, Resource>> \in W
      BY DEF UnderResource
    <3>1. t \in V
      BY <1>3, <1>4, <1>5 DEF Silent
    <3> QED
      BY <1>3, <2>3, <3>1, HierarchyRulesAre
  <2> QED
    BY <2>2, <2>6, <2>7, <2>8 DEF Derived
<1>10. CASE stage = "10 11"
  <2>1. /\ Reflexive(V, Property, SubPropertyOf) /\ Closed(V, SubPropertyOf) /\ Inherited(V)
        /\ Ranged(V) /\ UnderResource(V)
    BY <1>2, <1>10 DEF Derived
  <2>2. \A n \in New : n[2] \in {Type, SubClassOf}
    BY <1>1, <1>10, NewSilent
  <2>3. \A n \in New : n[2] # SubPropertyOf
    BY <2>2, VocabularyAssumption
  <2>4. /\ Reflexive(W, Property, SubPropertyOf) /\ Closed(W, SubPropertyOf) /\ Inherited(W)
        /\ Ranged(W) /\ UnderResource(W)
    BY <1>3, <1>4, <1>5, <2>1, <2>2, <2>3,
       KeepReflexive, KeepClosed, KeepInherited, KeepRanged, KeepUnderResource
  <2>5. CASE Reported(results) > 0
    <3>1. stage' = "10 11"
      BY <1>10, <2>5 DEF NextStage
    <3> QED
      BY <2>4, <3>1 DEF Derived
  <2>6. CASE ~(Reported(results) > 0)
    <3>1. stage' = "9"
      BY <1>10, <2>6 DEF NextStage
    <3>2. New \subseteq V /\ W = V
      BY <1>1, <1>3, <2>6, NothingNew
    <3>3. New = Rdfs10 \cup Rdfs11
      BY <1>1, <1>10, NewIs
    <3>4. Closed(W, SubClassOf)
      BY <3>2, <3>3, HierarchyRulesAre DEF Closed
    <3>5. Reflexive(W, Class, SubClassOf)
      BY <3>2, <3>3, HierarchyRulesAre DEF Reflexive
    <3> QED
      BY <2>4, <3>1, <3>4, <3>5 DEF Derived
  <2> QED
    BY <2>5, <2>6
<1>11. CASE stage = "9"
  <2>1. /\ Reflexive(V, Property, SubPropertyOf) /\ Closed(V, SubPropertyOf) /\ Inherited(V)
        /\ Ranged(V) /\ UnderResource(V)
        /\ Reflexive(V, Class, SubClassOf) /\ Closed(V, SubClassOf)
    BY <1>2, <1>11 DEF Derived
  <2>2. stage' = "done"
    BY <1>11 DEF NextStage
  <2>3. New = Rdfs9
    BY <1>1, <1>11, NewIs
  <2>4. \A n \in New : n[2] = Type
    BY <1>1, <1>11, NewSilent
  <2>5. \A n \in New : n[2] \in {Type, SubClassOf} /\ n[2] # SubPropertyOf /\ n[2] # SubClassOf
    BY <2>4, VocabularyAssumption
  <2>6. /\ Reflexive(W, Property, SubPropertyOf) /\ Closed(W, SubPropertyOf) /\ Inherited(W)
        /\ Ranged(W) /\ UnderResource(W)
    BY <1>3, <1>4, <1>5, <2>1, <2>5,
       KeepReflexive, KeepClosed, KeepInherited, KeepRanged, KeepUnderResource
  <2>7. Reflexive(W, Class, SubClassOf) /\ Closed(W, SubClassOf)
    BY <1>3, <1>4, <1>5, <2>1, <2>5, KeepReflexive, KeepClosed
  <2>8. TypesUp(W)
    <3>1. \A n \in New : \E s, t \in V : /\ s[2] = Type /\ t[2] = SubClassOf /\ s[3] = t[1]
                                         /\ n = <<s[1], Type, t[3]>>
      BY <2>3, RulesAre
    <3>2. \A s, t \in V : (s[2] = Type /\ t[2] = SubClassOf /\ s[3] = t[1]) => <<s[1], Type, t[3]>> \in V \cup New
      BY <2>3, RulesAre
    <3> HIDE DEF V
    <3> QED
      BY <1>3, <2>1, <3>1, <3>2, GetTypesUp
  <2> QED
    BY <2>2, <2>6, <2>7, <2>8 DEF Derived
<1> QED
  BY <1>1, <1>6, <1>7, <1>8, <1>9, <1>10, <1>11 DEF CountInv, Stages

LEMMA StageNext == PlainVocabulary /\ StageInv /\ [Next]_vars => StageInv'
<1> SUFFICES ASSUME PlainVocabulary, StageInv, [Next]_vars
             PROVE  StageInv'
  OBVIOUS
<1>1. CountInv /\ CountInv' /\ Silent(transient)
  BY CountNext DEF StageInv
<1>2. CASE UNCHANGED <<asserted, transient, stage, lost>>
  BY <1>1, <1>2 DEF StageInv, Derived, Visible
<1>3. CASE /\ results = Queries(stage)
           /\ stage # "done"
           /\ InsertConstructResult(results)
           /\ stage' = NextStage(stage)
  <2>1. Silent(transient')
    <3>1. Silent(New)
      BY <1>1, <1>3, NewSilent
    <3>2. transient' \subseteq transient \cup New
      BY <1>3, AddedIs DEF InsertConstructResult, Kept
    <3> QED
      BY <1>1, <3>1, <3>2 DEF Silent
  <2>2. ~lost' => Derived(Visible)'
    BY <1>3, StageDerives
  <2> QED
    BY <1>1, <2>1, <2>2 DEF StageInv
<1> QED
  BY <1>1, <1>2, <1>3, StepIs DEF vars

\* Unless a transient table is lost on the way, every triple that the rules
\* entail is there when infer_rdfs returns: the order of the stages is right
\* and each is repeated as often as it has to be.
THEOREM StagesCorrect == PlainVocabulary => (Spec => []StagesComplete)
<1> SUFFICES ASSUME PlainVocabulary
             PROVE  Spec => []StagesComplete
  OBVIOUS
<1>1. Init => StageInv
  BY CountInit DEF Init, StageInv, Silent, Derived
<1>2. StageInv /\ [Next]_vars => StageInv'
  BY StageNext
<1>3. StageInv => StagesComplete
  <2> SUFFICES ASSUME StageInv, ~lost, stage = "done"
               PROVE  DomainsAndRangesTyped /\ HierarchiesComplete
    BY DEF StagesComplete, DomainsAndRangesTyped, HierarchiesComplete
  <2>1. /\ Reflexive(Visible, Property, SubPropertyOf) /\ Closed(Visible, SubPropertyOf) /\ Inherited(Visible)
        /\ Ranged(Visible) /\ UnderResource(Visible)
        /\ Reflexive(Visible, Class, SubClassOf) /\ Closed(Visible, SubClassOf) /\ TypesUp(Visible)
    BY DEF StageInv, Derived
  <2>2. DomainsAndRangesTyped
    BY <2>1 DEF DomainsAndRangesTyped, Ranged, Holds
  <2>3. ASSUME NEW p, Closed(Visible, p)
        PROVE  HierarchyClosed(p)
    <3> SUFFICES ASSUME NEW x, NEW y, NEW z, <<x, p, y>> \in Visible, <<y, p, z>> \in Visible
                 PROVE  <<x, p, z>> \in Visible
      BY DEF HierarchyClosed, Holds
    <3> DEFINE s == <<x, p, y>>
               t == <<y, p, z>>
    <3>1. s[1] = x /\ s[2] = p /\ s[3] = y /\ t[1] = y /\ t[2] = p /\ t[3] = z
      OBVIOUS
    <3> HIDE DEF s, t
    <3>2. s \in Visible /\ t \in Visible
      BY DEF s, t
    <3> QED
      BY <2>3, <3>1, <3>2 DEF Closed
  <2>4. ASSUME NEW x
        PROVE  /\ Holds(x, Type, Class) => Holds(x, SubClassOf, x) /\ Holds(x, SubClassOf, Resource)
               /\ Holds(x, Type, Property) => Holds(x, SubPropertyOf, x)
    <3>1. ASSUME NEW c, Holds(x, Type, c)
          PROVE  \E t \in Visible : t[1] = x /\ t[2] = Type /\ t[3] = c
      BY <3>1 DEF Holds
    <3> QED
      BY <2>1, <3>1 DEF Reflexive, UnderResource, Holds
  <2>5. ASSUME NEW t \in Visible, NEW d \in Visible
        PROVE  /\ (t[2] = Type /\ d[2] = SubClassOf /\ d[1] = t[3]) => Holds(t[1], Type, d[3])
               /\ (d[2] = SubPropertyOf /\ d[1] = t[2]) => Holds(t[1], d[3], t[3])
    BY <2>1 DEF TypesUp, Inherited, Holds
  <2> QED
    BY <2>1, <2>2, <2>3, <2>4, <2>5 DEF HierarchiesComplete
<1> QED
  BY <1>1, <1>2, <1>3, PTL DEF Spec

-----------------------------------------------------------------------------
(* Nothing but what the rules entail is inferred.                          *)

\* What the nine rules say of a set of triples.
ClosedUnderRules(S) ==
  /\ Reflexive(S, Property, SubPropertyOf) /\ Closed(S, SubPropertyOf) /\ Inherited(S)
  /\ Ranged(S)
  /\ Reflexive(S, Class, SubClassOf) /\ UnderResource(S) /\ Closed(S, SubClassOf)
  /\ TypesUp(S)

\* A set that has the asserted triples and satisfies the rules.
IsModel(S) == asserted \subseteq S /\ ClosedUnderRules(S)

\* infer_rdfs is sound: at any time, whatever is visible holds in every set
\* that has the asserted triples and satisfies the rules.
OnlyEntailed == \A S : IsModel(S) => Visible \subseteq S

\* What a call is about to insert is entailed as well, and nothing that is
\* inferred was asserted.
SoundInv == /\ CountInv
            /\ \A S : IsModel(S) => Visible \subseteq S /\ New \subseteq S
            /\ transient \cap asserted = {}

\* The links that the transitive rules follow, and the class that the
\* reflexive ones look at.
LEMMA LinksAre ==
  /\ \A p : \A n \in Transitive(p) : \E s, t \in Visible : s[2] = p /\ t[2] = p /\ s[3] = t[1]
                                                           /\ n = <<s[1], p, t[3]>>
  /\ \A c : \A x \in Instances(c) : \E t \in Visible : t[1] = x /\ t[2] = Type /\ t[3] = c
<1>1. ASSUME NEW p, NEW n \in Transitive(p)
      PROVE  \E s, t \in Visible : s[2] = p /\ t[2] = p /\ s[3] = t[1] /\ n = <<s[1], p, t[3]>>
  <2>1. PICK m \in Chained(p, p) : n = <<m[1][1], p, m[2][3]>>
    BY <1>1 DEF Transitive
  <2>2. m[1] \in Visible /\ m[2] \in Visible /\ m[1][2] = p /\ m[2][2] = p /\ m[1][3] = m[2][1]
    BY <2>1 DEF Chained
  <2> QED
    BY <2>1, <2>2
<1>2. \A c : \A x \in Instances(c) : \E t \in Visible : t[1] = x /\ t[2] = Type /\ t[3] = c
  BY DEF Instances
<1> QED
  BY <1>1, <1>2

\* A model of what is visible has what any rule derives from it.
LEMMA RulesSound ==
  ASSUME NEW S, ClosedUnderRules(S), Visible \subseteq S
  PROVE  /\ Rdfs2 \subseteq S /\ Rdfs3 \subseteq S /\ Rdfs5 \subseteq S /\ Rdfs6 \subseteq S /\ Rdfs7 \subseteq S
         /\ Rdfs8 \subseteq S /\ Rdfs9 \subseteq S /\ Rdfs10 \subseteq S /\ Rdfs11 \subseteq S
<1>1. ASSUME NEW n \in Rdfs2 PROVE n \in S
  <2>1. PICK d \in Visible, t \in Visible : d[2] = Domain /\ t[2] = d[1] /\ n = <<t[1], Type, d[3]>>
    BY RulesAre
  <2> QED
    BY <2>1 DEF ClosedUnderRules, Ranged
<1>2. ASSUME NEW n \in Rdfs3 PROVE n \in S
  <2>1. PICK d \in Visible, t \in Visible : d[2] = Rng /\ t[2] = d[1] /\ n = <<t[3], Type, d[3]>>
    BY RulesAre
  <2> QED
    BY <2>1 DEF ClosedUnderRules, Ranged
<1>3. Rdfs7 \subseteq S
  BY RulesAre DEF ClosedUnderRules, Inherited
<1>4. Rdfs9 \subseteq S
  BY RulesAre DEF ClosedUnderRules, TypesUp
<1>5. ASSUME NEW p, Closed(S, p)
      PROVE  Transitive(p) \subseteq S
  BY <1>5, LinksAre DEF Closed
<1>6. Rdfs5 \subseteq S /\ Rdfs11 \subseteq S
  BY <1>5 DEF ClosedUnderRules, Rdfs5, Rdfs11
<1>7. ASSUME NEW c, NEW p, Reflexive(S, c, p), NEW x \in Instances(c)
      PROVE  <<x, p, x>> \in S
  BY <1>7, LinksAre DEF Reflexive
<1>8. Rdfs6 \subseteq S /\ Rdfs10 \subseteq S
  BY <1>7 DEF ClosedUnderRules, Rdfs6, Rdfs10
<1>9. Rdfs8 \subseteq S
  BY LinksAre DEF ClosedUnderRules, UnderResource, Rdfs8
<1> QED
  BY <1>1, <1>2, <1>3, <1>4, <1>6, <1>8, <1>9

\* At first nothing is visible that is not asserted.
LEMMA SoundInit == Init => SoundInv
<1> SUFFICES ASSUME Init
             PROVE  SoundInv
  OBVIOUS
<1>1. transient = {} /\ Visible = asserted
  BY DEF Init, Visible
<1>2. New = {}
  BY DEF Init, New, NotQueried
<1> QED
  BY <1>1, <1>2, CountInit DEF SoundInv, IsModel

LEMMA SoundNext == SoundInv /\ [Next]_vars => SoundInv'
<1> SUFFICES ASSUME SoundInv, [Next]_vars
             PROVE  SoundInv'
  OBVIOUS
<1>1. CountInv /\ CountInv'
  BY CountNext DEF SoundInv
<1>2. CASE UNCHANGED vars
  <2>1. UNCHANGED <<asserted, transient, results>>
    BY <1>2 DEF vars
  <2>2. New' = New /\ Visible' = Visible /\ asserted' = asserted
    BY <2>1 DEF New, Visible
  <2> QED
    BY <1>1, <2>1, <2>2 DEF SoundInv, IsModel
<1>3. CASE /\ UNCHANGED <<asserted, transient, stage, inferred, lost>>
           /\ results' = Queries(stage)
  <2>1. Visible' = Visible /\ asserted' = asserted /\ transient' = transient
    BY <1>3 DEF Visible
  <2>2. ASSUME NEW S, IsModel(S)
        PROVE  Visible \subseteq S /\ New' \subseteq S
    <3>1. Visible \subseteq S
      BY <2>2 DEF SoundInv
    <3> DEFINE Good(Qs) == \A j \in DOMAIN Qs : Qs[j] \subseteq S
    <3>2. /\ Good(<<Rdfs6>>) /\ Good(<<Rdfs5>>) /\ Good(<<Rdfs7>>) /\ Good(<<Rdfs9>>) /\ Good(NotQueried)
          /\ Good(<<Rdfs2, Rdfs3, Rdfs8>>) /\ Good(<<Rdfs10, Rdfs11>>)
      BY <2>2, <3>1, RulesSound DEF NotQueried, IsModel
    <3>3. stage \in {"6", "5", "7", "2 3 8", "10 11", "9", "done"}
      BY <1>1 DEF CountInv, Stages
    <3> HIDE DEF Good
    <3>4. Good(results')
      BY <1>3, <3>2, <3>3 DEF Queries
    <3> QED
      BY <3>1, <3>4 DEF New, Good
  <2> QED
    BY <1>1, <2>1, <2>2 DEF SoundInv, IsModel
<1>4. CASE /\ results = Queries(stage)
           /\ stage # "done"
           /\ InsertConstructResult(results)
           /\ results' = NotQueried
           /\ stage' = NextStage(stage)
  <2>1. asserted' = asserted /\ transient' \subseteq transient \cup (New \ asserted)
    BY <1>4, AddedIs DEF InsertConstructResult, Kept
  <2>2. New' = {}
    BY <1>4 DEF New, NotQueried
  <2>3. Visible' \subseteq Visible \cup New
    BY <2>1 DEF Visible
  <2> QED
    BY <1>1, <2>1, <2>2, <2>3 DEF SoundInv, IsModel
<1> QED
  BY <1>1, <1>2, <1>3, <1>4, StepIs

\* infer_rdfs adds no triple that the rules do not entail, at no moment of the
\* call and even when a table is lost on the way.
THEOREM SoundnessCorrect == Spec => []OnlyEntailed
<1>1. SoundInv => OnlyEntailed
  BY DEF SoundInv, OnlyEntailed
<1> QED
  BY <1>1, SoundInit, SoundNext, PTL DEF Spec

\* What infer_rdfs returns with is exactly what the rules entail: the visible
\* triples satisfy the rules, every set of triples that has the asserted ones
\* and satisfies the rules has them all, and the transient ones are those that
\* were not asserted.
LeastModel == (stage = "done" /\ ~lost) => /\ IsModel(Visible)
                                           /\ OnlyEntailed
                                           /\ transient = Visible \ asserted

\* Unless a table is lost on the way, one call of infer_rdfs computes the least
\* model of the nine rules, if nothing is asserted of the vocabulary itself.
THEOREM LeastModelCorrect == PlainVocabulary => (Spec => []LeastModel)
<1> SUFFICES ASSUME PlainVocabulary
             PROVE  Spec => []LeastModel
  OBVIOUS
<1>1. Init => StageInv /\ SoundInv
  BY SoundInit, CountInit DEF Init, StageInv, Silent, Derived
<1>2. StageInv /\ SoundInv /\ [Next]_vars => (StageInv /\ SoundInv)'
  BY StageNext, SoundNext
<1>3. StageInv /\ SoundInv => LeastModel
  <2> SUFFICES ASSUME StageInv, SoundInv, stage = "done", ~lost
               PROVE  IsModel(Visible) /\ OnlyEntailed /\ transient = Visible \ asserted
    BY DEF LeastModel
  <2>1. ClosedUnderRules(Visible)
    BY DEF StageInv, Derived, ClosedUnderRules
  <2>2. IsModel(Visible)
    BY <2>1 DEF IsModel, Visible
  <2>3. OnlyEntailed /\ transient = Visible \ asserted
    BY DEF SoundInv, OnlyEntailed, Visible
  <2> QED
    BY <2>2, <2>3
<1> QED
  BY <1>1, <1>2, <1>3, PTL DEF Spec
=============================================================================
