--------------------------- MODULE RdfsInference ---------------------------
(***************************************************************************)
(* RDFS inference (lib/triplestore/src/rdfs_inferencing.rs): rules are run *)
(* in stages, some once and some until nothing new is reported, and their  *)
(* results are added as transient triples of the graph.  Triples are       *)
(* <<subject, predicate, object>> over IRIs; a table is the set of the     *)
(* triples of one predicate.                                               *)
(***************************************************************************)
EXTENDS Integers, FiniteSets, Sequences

CONSTANTS Type, SubClassOf, SubPropertyOf, Domain, Rng,   \* predicates of the rules
          Class, Property, Resource,                      \* classes of the rules
          Universe                                        \* triples a program may assert

ASSUME VocabularyAssumption ==
  /\ Type \notin {SubClassOf, SubPropertyOf, Domain, Rng, Class, Property, Resource}
  /\ SubClassOf \notin {SubPropertyOf, Domain, Rng, Class, Property, Resource}
  /\ SubPropertyOf \notin {Domain, Rng, Class, Property, Resource}
  /\ Domain \notin {Rng, Class, Property, Resource}
  /\ Rng \notin {Class, Property, Resource}
  /\ Class \notin {Property, Resource}
  /\ Property # Resource
ASSUME UniverseAssumption == IsFiniteSet(Universe)

VARIABLES asserted,   \* asserted triples of the graph
          transient,  \* transient triples of the graph
          stage,      \* the call of insert_once that comes next
          results,    \* the results of its queries, once they have run
          inferred,   \* the sum of the counts so far
          lost        \* ghost: a batch has made a transient table disappear

vars == <<asserted, transient, stage, results, inferred, lost>>

Stages == {"6", "5", "7", "2 3 8", "10 11", "9", "done"}

-----------------------------------------------------------------------------
(* The rules, over the triples a query with include_transient sees.        *)

Visible == asserted \cup transient

\* The pairs of a schema triple with predicate p and a triple whose predicate
\* is its subject.
Using(p) == {m \in Visible \X Visible : m[1][2] = p /\ m[2][2] = m[1][1]}
Rdfs2 == {<<m[2][1], Type, m[1][3]>> : m \in Using(Domain)}
Rdfs3 == {<<m[2][3], Type, m[1][3]>> : m \in Using(Rng)}
Rdfs7 == {<<m[2][1], m[1][3], m[2][3]>> : m \in Using(SubPropertyOf)}

\* ?x p ?y and ?y p ?z give ?x p ?z, for SubPropertyOf (5) and SubClassOf (11).
Chained(p, q) == {m \in Visible \X Visible : m[1][2] = p /\ m[2][2] = q /\ m[1][3] = m[2][1]}
Transitive(p) == {<<m[1][1], p, m[2][3]>> : m \in Chained(p, p)}
Rdfs5 == Transitive(SubPropertyOf)
Rdfs11 == Transitive(SubClassOf)

Instances(c) == {t[1] : t \in {x \in Visible : x[2] = Type /\ x[3] = c}}
Rdfs6 == {<<x, SubPropertyOf, x>> : x \in Instances(Property)}
Rdfs8 == {<<x, SubClassOf, Resource>> : x \in Instances(Class)}
Rdfs10 == {<<x, SubClassOf, x>> : x \in Instances(Class)}

Rdfs9 == {<<m[1][1], Type, m[2][3]>> : m \in Chained(Type, SubClassOf)}

-----------------------------------------------------------------------------
(* Inserting the results of several queries in one call.                   *)

PredsOf(Q) == {t[2] : t \in Q}
Table(T, p) == {t \in T : t[2] = p}

\* add_global_cat_triples: a transient batch loses what is asserted.
Remaining(Q) == Q \ asserted

\* The predicates whose stored transient table is dropped: nothing is left of
\* the first batch for them.
Dropped(Qs) ==
  {p \in UNION {PredsOf(Qs[i]) : i \in DOMAIN Qs} :
     \E i \in DOMAIN Qs : /\ Table(Qs[i], p) # {}
                          /\ Remaining(Table(Qs[i], p)) = {}
                          /\ \A j \in 1..(i - 1) : Table(Qs[j], p) = {}}

\* insert_construct_result, transient: what the transient map keeps, what it
\* gets, and the number of triples reported as new.
Kept(Qs) == {t \in transient : t[2] \notin Dropped(Qs)}
Added(Qs) == UNION {Remaining(Qs[i]) : i \in DOMAIN Qs}

\* Mutant: a triple that two batches contain is reported by both.
ReportedPerBatch(Qs) ==
  LET n(i) == IF i \in DOMAIN Qs THEN Cardinality(Remaining(Qs[i]) \ Kept(Qs)) ELSE 0
  IN  n(1) + n(2) + n(3)

Reported(Qs) == Cardinality(Added(Qs) \ Kept(Qs))

\* Counting stops when triples are lost: the loops need not end after that.
InsertConstructResult(Qs) ==
  /\ transient' = Kept(Qs) \cup Added(Qs)
  /\ lost' = (lost \/ Kept(Qs) # transient)
  /\ inferred' = IF lost' THEN inferred ELSE inferred + Reported(Qs)
  /\ UNCHANGED asserted

\* insert_once runs all its queries before it inserts any result.
NotQueried == <<>>
RunQueries(at, Qs) ==
  /\ stage = at /\ results = NotQueried
  /\ results' = Qs
  /\ UNCHANGED <<asserted, transient, stage, inferred, lost>>

InsertResults(at) ==
  /\ stage = at /\ results # NotQueried
  /\ InsertConstructResult(results)
  /\ results' = NotQueried

\* insert_once on its own.
InsertOnce(at, Qs, next) ==
  \/ RunQueries(at, Qs)
  \/ InsertResults(at) /\ stage' = next

\* Mutant: the loop ends after one round.
InsertUntilFixedPointOnce(at, Qs, next) == InsertOnce(at, Qs, next)

\* Mutant: the loop goes on while its queries have results.
InsertUntilNoResults(at, Qs, next) ==
  \/ RunQueries(at, Qs)
  \/ InsertResults(at) /\ stage' = IF Added(results) # {} THEN at ELSE next

\* insert_until_fixed_point: the round is repeated while it reports new triples.
InsertUntilFixedPoint(at, Qs, next) ==
  \/ RunQueries(at, Qs)
  \/ InsertResults(at) /\ stage' = IF Reported(results) > 0 THEN at ELSE next

-----------------------------------------------------------------------------
(* interesting_rdfs_rules.                                                 *)

Init == /\ asserted \in SUBSET Universe
        /\ transient = {}
        /\ stage = "6"
        /\ results = NotQueried
        /\ inferred = 0
        /\ lost = FALSE

SubPropertyReflexive == InsertOnce("6", <<Rdfs6>>, "5")
SubPropertyTransitive == InsertUntilFixedPoint("5", <<Rdfs5>>, "7")
SubPropertyInherited == InsertOnce("7", <<Rdfs7>>, "2 3 8")

Typing == InsertOnce("2 3 8", <<Rdfs2, Rdfs3, Rdfs8>>, "10 11")

SubClassHierarchy == InsertUntilFixedPoint("10 11", <<Rdfs10, Rdfs11>>, "9")

TypesInherited == InsertOnce("9", <<Rdfs9>>, "done")

Done == stage = "done" /\ UNCHANGED vars

Next == \/ SubPropertyReflexive \/ SubPropertyTransitive \/ SubPropertyInherited
        \/ Typing \/ SubClassHierarchy \/ TypesInherited
        \/ Done

\* The call runs on one thread and does not wait for anything.
Spec == Init /\ [][Next]_vars /\ WF_vars(Next)

-----------------------------------------------------------------------------
(* Properties.                                                             *)

Term == (UNION {{t[1], t[2], t[3]} : t \in Universe}) \cup {Resource}

Predicates == {Type, SubClassOf, SubPropertyOf} \cup PredsOf(Universe)
              \cup {t[3] : t \in Table(Universe, SubPropertyOf)}
Inferable == Term \X Predicates \X Term
TypeOK == /\ asserted \subseteq Universe
          /\ transient \subseteq Inferable
          /\ stage \in Stages
          /\ \A i \in DOMAIN results : results[i] \subseteq Inferable
          /\ inferred \in Nat
          /\ lost \in BOOLEAN

Holds(s, p, o) == <<s, p, o>> \in Visible

HierarchyClosed(p) == \A x, y, z \in Term : Holds(x, p, y) /\ Holds(y, p, z) => Holds(x, p, z)

\* What the rules say of domains and ranges, at the end of the call. Without the
\* proviso of StagesComplete this fails: rule 9 can lose the table of types.
DomainsAndRangesTyped ==
  stage = "done" =>
    \A t, d \in Visible : d[1] = t[2] =>
      /\ d[2] = Domain => Holds(t[1], Type, d[3])
      /\ d[2] = Rng => Holds(t[3], Type, d[3])

\* The other rules, at the end of the call: both hierarchies are closed under
\* transitivity and, for declared classes and properties, reflexivity, and types
\* and properties are inherited along them.
HierarchiesComplete ==
  stage = "done" =>
    /\ HierarchyClosed(SubClassOf) /\ HierarchyClosed(SubPropertyOf)
    /\ \A x \in Term : /\ Holds(x, Type, Class) => Holds(x, SubClassOf, x) /\ Holds(x, SubClassOf, Resource)
                       /\ Holds(x, Type, Property) => Holds(x, SubPropertyOf, x)
    /\ \A t, d \in Visible : /\ t[2] = Type /\ d[2] = SubClassOf /\ d[1] = t[3]
                                  => Holds(t[1], Type, d[3])
                             /\ d[2] = SubPropertyOf /\ d[1] = t[2] => Holds(t[1], d[3], t[3])

\* Nothing that is asserted is about the vocabulary of the rules, except that
\* its members have instances; rdfs:Resource is a class like any other.
Vocabulary == {Type, SubClassOf, SubPropertyOf, Domain, Rng, Class, Property}
PlainVocabulary == \A t \in Universe : t[1] \notin Vocabulary /\ (t[3] \in Vocabulary => t[2] = Type)

\* Unless a batch makes a transient table disappear, one pass over the stages
\* in this order derives everything the rules entail: no later stage makes an
\* earlier one applicable again.
StagesComplete == lost \/ (DomainsAndRangesTyped /\ HierarchiesComplete)

\* The number returned is the number of inferred triples: no round counts a
\* triple that an earlier round or batch has added or that is asserted.
CountExact == stage = "done" /\ ~lost => inferred = Cardinality(transient)

\* The fixed-point loops end, unless a transient table disappears on the way.
TerminatesUnlessLost == <>(stage = "done" \/ lost)
=============================================================================
