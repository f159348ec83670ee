--------------------------- MODULE MappingsProofs ---------------------------
(***************************************************************************)
(* Proofs about a model that holds templates and is mapped to, for any     *)
(* templates and tables: the graph of the templates tells them all, and no *)
(* two mappings name the same blank node.                                  *)
(***************************************************************************)
EXTENDS Mappings, FiniteSetTheorems, SequenceTheorems, TLAPS

-----------------------------------------------------------------------------
(* Numbers, lists and loops.                                               *)

\* A nonempty set of numbers has a least one.
LEMMA LeastExists ==
  ASSUME NEW T \in SUBSET Nat, T # {}
  PROVE  \E x \in T : \A y \in T : x <= y
<1> DEFINE Below == {0..x : x \in T}
           Fin   == FiniteSubsetsOf(Nat)
           R     == StrictSubsetOrdering(Nat)
<1>1. \A x \in T : 0..x \in Fin
  <2> TAKE x \in T
  <2>1. IsFiniteSet(0..x)
    BY FS_Interval
  <2>2. 0..x \in SUBSET Nat
    OBVIOUS
  <2> QED
    BY <2>1, <2>2 DEF FiniteSubsetsOf
<1>2. Below \subseteq Fin /\ Below # {}
  BY <1>1
<1>3. IsWellFoundedOn(R, Fin)
  BY FS_StrictSubsetOrderingWellFounded
<1>4. \E b \in Below : \A c \in Below : <<c, b>> \notin R
  <2> HIDE DEF Below, Fin, R
  <2> QED
    BY <1>2, <1>3, WFMin, Zenon
<1>5. PICK x \in T : \A y \in T : <<0..y, 0..x>> \notin R
  BY <1>4
<1>6. ASSUME NEW y \in T, ~(x <= y)
      PROVE  FALSE
  <2>1. 0..y \subseteq 0..x /\ x \in 0..x /\ x \notin 0..y
    BY <1>6
  <2>2. 0..y \in SUBSET Nat /\ 0..x \in SUBSET Nat
    OBVIOUS
  <2>3. <<0..y, 0..x>> \in R
    BY <2>1, <2>2, Zenon DEF StrictSubsetOrdering
  <2> QED
    BY <2>3, <1>5
<1> QED
  BY <1>6

\* Each value is made from the one before it.
Steps(V, v0, step, f) ==
  /\ f \in [Nat -> V]
  /\ f[0] = v0
  /\ \A n \in Nat : f[n + 1] = step[<<n, f[n]>>]

\* Such a sequence of values exists (what a loop over a list computes).
LEMMA StepByStep ==
  ASSUME NEW V, NEW v0 \in V, NEW step \in [Nat \X V -> V]
  PROVE  \E f : Steps(V, v0, step, f)
<1> DEFINE Upto(n, g) == /\ g \in [0..n -> V]
                         /\ g[0] = v0
                         /\ \A k \in 0..(n - 1) : g[k + 1] = step[<<k, g[k]>>]
           Missing == {n \in Nat : ~ \E g : Upto(n, g)}
<1>1. \A n \in Nat : \E g : Upto(n, g)
  <2> SUFFICES ASSUME Missing # {} PROVE FALSE
    OBVIOUS
  <2>1. PICK m \in Missing : \A k \in Missing : m <= k
    <3>1. Missing \in SUBSET Nat
      OBVIOUS
    <3> HIDE DEF Missing
    <3> QED
      BY <3>1, LeastExists
  <2>2. m \in Nat /\ ~ \E g : Upto(m, g)
    BY <2>1
  <2>3. CASE m = 0
    <3>1. Upto(0, [k \in 0..0 |-> v0])
      OBVIOUS
    <3> QED
      BY <2>2, <2>3, <3>1
  <2>4. CASE m # 0
    <3>1. m - 1 \in Nat /\ m - 1 \notin Missing
      <4>1. m - 1 \in Nat /\ ~(m <= m - 1)
        BY <2>2, <2>4
      <4> QED
        BY <2>1, <4>1
    <3>2. PICK g : Upto(m - 1, g)
      BY <3>1
    <3> DEFINE h == [k \in 0..m |-> IF k = m THEN step[<<m - 1, g[m - 1]>>] ELSE g[k]]
    <3>3. g[m - 1] \in V /\ step[<<m - 1, g[m - 1]>>] \in V
      <4>1. m - 1 \in 0..(m - 1)
        BY <3>1
      <4>2. g[m - 1] \in V
        BY <3>2, <4>1
      <4> QED
        BY <3>1, <4>2
    <3>4. h \in [0..m -> V] /\ h[0] = v0
      <4>1. \A k \in 0..m : k # m => k \in 0..(m - 1)
        BY <2>2
      <4>2. 0 \in 0..m
        BY <2>2
      <4> QED
        BY <2>4, <3>2, <3>3, <4>1, <4>2
    <3>5. \A k \in 0..(m - 1) : h[k + 1] = step[<<k, h[k]>>]
      <4> TAKE k \in 0..(m - 1)
      <4>1. k \in 0..m /\ k + 1 \in 0..m /\ k # m
        BY <2>2
      <4>2. h[k] = g[k]
        BY <4>1
      <4>3. CASE k + 1 = m
        <5>1. k = m - 1
          BY <2>2, <4>3
        <5> QED
          BY <4>1, <4>2, <4>3, <5>1
      <4>4. CASE k + 1 # m
        <5>1. k \in 0..((m - 1) - 1)
          BY <2>2, <4>4
        <5>2. h[k + 1] = g[k + 1]
          BY <4>1, <4>4
        <5> QED
          BY <3>2, <4>2, <5>1, <5>2
      <4> QED
        BY <4>3, <4>4
    <3> HIDE DEF h
    <3>6. Upto(m, h)
      BY <3>4, <3>5
    <3> QED
      BY <2>2, <3>6
  <2> QED
    BY <2>3, <2>4
<1>2. ASSUME NEW n \in Nat, NEW g, Upto(n, g), NEW h, Upto(n + 1, h)
      PROVE  g[n] = h[n]
  <2> DEFINE Apart == {k \in 0..n : g[k] # h[k]}
  <2>1. CASE Apart = {}
    BY <2>1
  <2>2. CASE Apart # {}
    <3>1. PICK k \in Apart : \A j \in Apart : k <= j
      <4>1. Apart \in SUBSET Nat
        OBVIOUS
      <4> HIDE DEF Apart
      <4> QED
        BY <2>2, <4>1, LeastExists
    <3>2. k \in 0..n /\ g[k] # h[k] /\ k # 0
      BY <1>2, <3>1
    <3>3. k - 1 \in 0..n /\ k - 1 \in 0..(n - 1) /\ k - 1 \in 0..((n + 1) - 1) /\ (k - 1) + 1 = k /\ ~(k <= k - 1)
      BY <3>2
    <3>4. g[k - 1] = h[k - 1]
      BY <3>1, <3>3
    <3>5. g[k] = step[<<k - 1, g[k - 1]>>] /\ h[k] = step[<<k - 1, h[k - 1]>>]
      BY <1>2, <3>3
    <3> QED
      BY <3>2, <3>4, <3>5
  <2> QED
    BY <2>1, <2>2
<1> DEFINE pick(n) == CHOOSE g : Upto(n, g)
           f == [n \in Nat |-> pick(n)[n]]
<1>3. \A n \in Nat : Upto(n, pick(n))
  <2> HIDE DEF Upto
  <2> QED
    BY <1>1
<1>4. f \in [Nat -> V] /\ f[0] = v0
  <2>1. \A n \in Nat : pick(n)[n] \in V
    <3> TAKE n \in Nat
    <3>1. Upto(n, pick(n)) /\ n \in 0..n
      <4> HIDE DEF Upto, pick
      <4> QED
        BY <1>3
    <3> HIDE DEF pick
    <3> QED
      BY <3>1
  <2>2. pick(0)[0] = v0
    <3>1. Upto(0, pick(0))
      BY <1>3
    <3> HIDE DEF pick
    <3> QED
      BY <3>1
  <2> HIDE DEF pick
  <2> QED
    BY <2>1, <2>2
<1>5. \A n \in Nat : f[n + 1] = step[<<n, f[n]>>]
  <2> TAKE n \in Nat
  <2>1. Upto(n, pick(n)) /\ Upto(n + 1, pick(n + 1))
    <3> HIDE DEF Upto, pick
    <3> QED
      BY <1>3
  <2>2. pick(n)[n] = pick(n + 1)[n]
    <3> HIDE DEF pick, Upto
    <3> QED
      BY <1>2, <2>1
  <2>3. pick(n + 1)[n + 1] = step[<<n, pick(n + 1)[n]>>]
    <3>1. n \in 0..((n + 1) - 1)
      OBVIOUS
    <3> HIDE DEF pick
    <3> QED
      BY <2>1, <3>1
  <2>4. f[n] = pick(n)[n] /\ f[n + 1] = pick(n + 1)[n + 1]
    <3> HIDE DEF pick
    <3> QED
      OBVIOUS
  <2> HIDE DEF f, pick
  <2> QED
    BY <2>2, <2>3, <2>4
<1> HIDE DEF f
<1>6. Steps(V, v0, step, f)
  BY <1>4, <1>5 DEF Steps
<1> QED
  BY <1>6

\* A nonempty set of numbers with a bound has a greatest one (Highest).
LEMMA HighestIs ==
  ASSUME NEW T \in SUBSET Nat, T # {}, NEW top \in Nat, \A x \in T : x <= top
  PROVE  Highest(T) \in T /\ \A x \in T : x <= Highest(T)
<1> DEFINE Gaps == {k \in Nat : top - k \in T}
<1>1. Gaps \in SUBSET Nat /\ Gaps # {}
  <2>1. PICK x \in T : TRUE
    OBVIOUS
  <2>2. top - x \in Nat /\ top - (top - x) = x
    BY <2>1
  <2> QED
    BY <2>1, <2>2
<1>2. PICK g \in Gaps : \A k \in Gaps : g <= k
  <2> HIDE DEF Gaps
  <2> QED
    BY <1>1, LeastExists
<1>3. ASSUME NEW x \in T
      PROVE  x <= top - g
  <2>1. top - x \in Gaps
    <3>1. top - x \in Nat /\ top - (top - x) = x
      OBVIOUS
    <3> QED
      BY <3>1
  <2>2. g <= top - x /\ x \in Nat
    BY <1>2, <2>1
  <2> QED
    BY <1>2, <2>2
<1>4. top - g \in T
  BY <1>2
<1> QED
  BY <1>3, <1>4 DEF Highest

-----------------------------------------------------------------------------
(* The numbers of blank nodes in the graph of templates.                   *)

\* Parts lie one behind the other (the counter of templates_to_triples).
LEMMA StartsAre ==
  ASSUME NEW first \in Nat, NEW sizes \in Seq(Nat), NEW at, at = Starts(first, sizes)
  PROVE  /\ at \in [1..(Len(sizes) + 1) -> Nat]
         /\ at[1] = first
         /\ \A i \in 1..Len(sizes) : at[i + 1] = at[i] + sizes[i]
<1> DEFINE n    == Len(sizes)
           new(x) == IF x[1] + 1 \in 1..n THEN x[2] + sizes[x[1] + 1] ELSE x[2]
           step == [x \in Nat \X Nat |-> new(x)]
           body(u) == [i \in 1..(n + 1) |-> IF i = 1 THEN first ELSE u[i - 1] + sizes[i - 1]]
<1>1. n \in Nat /\ \A i \in 1..n : sizes[i] \in Nat
  OBVIOUS
<1>2. step \in [Nat \X Nat -> Nat]
  BY <1>1
<1>3. PICK f : Steps(Nat, first, step, f)
  <2> HIDE DEF step
  <2> QED
    BY <1>2, StepByStep
<1>4. f \in [Nat -> Nat] /\ f[0] = first /\ \A k \in Nat : f[k + 1] = step[<<k, f[k]>>]
  BY <1>3 DEF Steps
<1> DEFINE g == [i \in 1..(n + 1) |-> f[i - 1]]
<1>5. ASSUME NEW i \in 1..(n + 1), i # 1
      PROVE  g[i] = g[i - 1] + sizes[i - 1]
  <2>1. i - 2 \in Nat /\ (i - 2) + 1 = i - 1 /\ i - 1 \in 1..n /\ i - 1 \in 1..(n + 1) /\ (i - 1) - 1 = i - 2
    BY <1>1, <1>5
  <2>2. f[i - 1] = step[<<i - 2, f[i - 2]>>] /\ f[i - 2] \in Nat
    BY <1>4, <2>1
  <2>3. step[<<i - 2, f[i - 2]>>] = f[i - 2] + sizes[i - 1]
    BY <2>1, <2>2
  <2>4. g[i] = f[i - 1] /\ g[i - 1] = f[i - 2]
    BY <2>1
  <2> QED
    BY <2>2, <2>3, <2>4
<1>6. g = body(g)
  <2>1. ASSUME NEW i \in 1..(n + 1)
        PROVE  g[i] = (IF i = 1 THEN first ELSE g[i - 1] + sizes[i - 1])
    <3>1. CASE i = 1
      BY <1>1, <1>4, <3>1
    <3>2. CASE i # 1
      BY <1>5, <3>2
    <3> QED
      BY <3>1, <3>2
  <2> QED
    BY <2>1
<1>7. at = CHOOSE u : u = body(u)
  BY DEF Starts
<1>8. at = body(at)
  <2> HIDE DEF body, g
  <2> QED
    BY <1>6, <1>7
<1>9. \A i \in 1..(n + 1) : at[i] = IF i = 1 THEN first ELSE at[i - 1] + sizes[i - 1]
  BY <1>8
<1>10. DOMAIN at = 1..(n + 1)
  BY <1>8
<1>11. \A i \in 1..(n + 1) : at[i] \in Nat
  <2> DEFINE Bad == {k \in 1..(n + 1) : at[k] \notin Nat}
  <2> SUFFICES ASSUME Bad # {} PROVE FALSE
    OBVIOUS
  <2>1. PICK k \in Bad : \A m \in Bad : k <= m
    <3>1. Bad \in SUBSET Nat
      BY <1>1
    <3> HIDE DEF Bad
    <3> QED
      BY <3>1, LeastExists
  <2>2. k \in 1..(n + 1) /\ at[k] \notin Nat /\ k # 1
    BY <1>1, <1>9, <2>1
  <2>3. k - 1 \in 1..n /\ k - 1 \in 1..(n + 1) /\ ~(k <= k - 1)
    BY <1>1, <2>2
  <2>4. at[k - 1] \in Nat
    BY <2>1, <2>3
  <2>5. at[k] = at[k - 1] + sizes[k - 1]
    BY <1>9, <2>2
  <2> QED
    BY <1>1, <2>2, <2>3, <2>4, <2>5
<1>12. at[1] = first
  BY <1>1, <1>9
<1>13. ASSUME NEW i \in 1..n
       PROVE  at[i + 1] = at[i] + sizes[i]
  <2>1. i + 1 \in 1..(n + 1) /\ i + 1 # 1 /\ (i + 1) - 1 = i
    BY <1>1
  <2> QED
    BY <1>9, <2>1
<1>14. at \in [1..(n + 1) -> Nat]
  <2>1. at = [i \in 1..(n + 1) |-> at[i]]
    BY <1>8, <1>10
  <2> QED
    BY <1>11, <2>1
<1> QED
  BY <1>12, <1>13, <1>14

\* A later part starts behind an earlier one.
LEMMA StartsRise ==
  ASSUME NEW first \in Nat, NEW sizes \in Seq(Nat), NEW at, at = Starts(first, sizes),
         NEW i \in 1..Len(sizes), NEW j \in 1..(Len(sizes) + 1), i < j
  PROVE  at[i] + sizes[i] <= at[j]
<1> DEFINE n == Len(sizes)
           Bad == {k \in 1..(n + 1) : i < k /\ ~(at[i] + sizes[i] <= at[k])}
<1>1. /\ n \in Nat
      /\ at \in [1..(n + 1) -> Nat]
      /\ \A k \in 1..n : sizes[k] \in Nat /\ at[k + 1] = at[k] + sizes[k]
  BY StartsAre
<1> SUFFICES ASSUME Bad # {} PROVE FALSE
  OBVIOUS
<1>2. PICK k \in Bad : \A m \in Bad : k <= m
  <2>1. Bad \in SUBSET Nat
    BY <1>1
  <2> HIDE DEF Bad
  <2> QED
    BY <2>1, LeastExists
<1>3. k \in 1..(n + 1) /\ i < k /\ ~(at[i] + sizes[i] <= at[k]) /\ k - 1 \in 1..n /\ ~(k <= k - 1) /\ (k - 1) + 1 = k
  BY <1>1, <1>2
<1>4. at[k] = at[k - 1] + sizes[k - 1] /\ sizes[k - 1] \in Nat /\ at[k - 1] \in Nat
  <2>1. k - 1 \in 1..(n + 1)
    BY <1>1, <1>3
  <2> QED
    BY <1>1, <1>3, <2>1
<1>5. at[i] \in Nat /\ sizes[i] \in Nat
  BY <1>1
<1>6. CASE k - 1 = i
  BY <1>3, <1>4, <1>6
<1>7. CASE k - 1 # i
  <2>1. i < k - 1 /\ k - 1 \in 1..(n + 1)
    BY <1>1, <1>3, <1>7
  <2>2. at[i] + sizes[i] <= at[k - 1]
    <3>1. k - 1 \notin Bad
      BY <1>2, <1>3
    <3> QED
      BY <2>1, <3>1
  <2>3. at[k - 1] <= at[k]
    BY <1>4
  <2>4. at[k] \in Nat
    BY <1>1, <1>3
  <2>5. at[i] + sizes[i] \in Nat
    BY <1>5
  <2> QED
    BY <1>3, <1>4, <2>2, <2>3, <2>4, <2>5
<1> QED
  BY <1>6, <1>7

\* From another number on, all parts lie as far from it.
LEMMA StartsShift ==
  ASSUME NEW first \in Nat, NEW second \in Nat, NEW sizes \in Seq(Nat),
         NEW at, at = Starts(first, sizes), NEW by, by = Starts(second, sizes)
  PROVE  by[Len(sizes) + 1] + first = at[Len(sizes) + 1] + second
<1> DEFINE n == Len(sizes)
           Bad == {k \in 1..(n + 1) : by[k] + first # at[k] + second}
<1>1. /\ n \in Nat
      /\ at \in [1..(n + 1) -> Nat] /\ at[1] = first
      /\ \A k \in 1..n : sizes[k] \in Nat /\ at[k + 1] = at[k] + sizes[k]
  BY StartsAre
<1>2. /\ by \in [1..(n + 1) -> Nat] /\ by[1] = second
      /\ \A k \in 1..n : by[k + 1] = by[k] + sizes[k]
  BY StartsAre
<1>3. Bad = {}
  <2> SUFFICES ASSUME Bad # {} PROVE FALSE
    OBVIOUS
  <2>1. PICK k \in Bad : \A m \in Bad : k <= m
    <3>1. Bad \in SUBSET Nat
      BY <1>1
    <3> HIDE DEF Bad
    <3> QED
      BY <3>1, LeastExists
  <2>2. k \in 1..(n + 1) /\ by[k] + first # at[k] + second
    BY <2>1
  <2>3. k # 1
    BY <1>1, <1>2, <2>2
  <2>4. k - 1 \in 1..n /\ k - 1 \in 1..(n + 1) /\ ~(k <= k - 1) /\ (k - 1) + 1 = k
    BY <1>1, <2>2, <2>3
  <2>5. by[k - 1] + first = at[k - 1] + second
    <3>1. k - 1 \notin Bad
      BY <2>1, <2>4
    <3> QED
      BY <2>4, <3>1
  <2>6. by[k] = by[k - 1] + sizes[k - 1] /\ at[k] = at[k - 1] + sizes[k - 1]
    BY <1>1, <1>2, <2>4
  <2>7. at[k - 1] \in Nat /\ sizes[k - 1] \in Nat /\ by[k - 1] \in Nat
    BY <1>1, <1>2, <2>4
  <2>8. PICK a, b, c \in Nat : a = at[k - 1] /\ b = by[k - 1] /\ c = sizes[k - 1]
    BY <2>7
  <2>9. b + first = a + second /\ by[k] = b + c /\ at[k] = a + c
    BY <2>5, <2>6, <2>8
  <2>10. (b + c) + first = (a + c) + second
    BY <2>9
  <2> QED
    BY <2>2, <2>9, <2>10
<1>4. n + 1 \in 1..(n + 1)
  BY <1>1
<1> QED
  BY <1>3, <1>4

\* Parameters, instances and arguments of a template are numbered from 1.
LEMMA TemplateIs ==
  ASSUME NEW t, IsTemplate(t)
  PROVE  /\ Len(t.params) \in Nat /\ DOMAIN t.params = 1..Len(t.params)
         /\ Len(t.body) \in Nat /\ DOMAIN t.body = 1..Len(t.body)
         /\ \A k \in DOMAIN t.body : Len(t.body[k].args) \in Nat /\ DOMAIN t.body[k].args = 1..Len(t.body[k].args)
<1>1. \A s : IsVector(s) => Len(s) \in Nat /\ DOMAIN s = 1..Len(s)
  BY DEF IsVector
<1> QED
  BY <1>1 DEF IsTemplate

\* How the blank nodes of a template lie that starts at first: parameters,
\* then each instance and its arguments.
Lies(t, first, at) ==
  LET n == Len(t.body)
  IN  /\ at \in [1..(n + 1) -> Nat]
      /\ \A k \in 1..(n + 1) : first + Len(t.params) <= at[k]
      /\ \A k \in 1..n : \A m \in 1..(n + 1) : k < m => at[k] + 1 + Len(t.body[k].args) <= at[m]
      /\ t.name # OttrTriple => at[n + 1] = first + TemplateSize(t)

\* So do they (template_to_triples).
LEMMA TemplateLies ==
  ASSUME NEW t, IsTemplate(t), NEW first \in Nat, NEW at, at = InstanceStarts(t, first)
  PROVE  Lies(t, first, at)
<1>0. PICK sizes, n, np : sizes = [i \in DOMAIN t.body |-> InstanceSize(t.body[i])] /\ n = Len(t.body) /\ np = Len(t.params)
  OBVIOUS
<1>1. np \in Nat /\ n \in Nat /\ DOMAIN t.body = 1..n /\ \A k \in 1..n : Len(t.body[k].args) \in Nat
  BY <1>0, TemplateIs
<1>2. sizes \in Seq(Nat) /\ Len(sizes) = n /\ sizes \in [1..n -> Nat] /\ \A k \in 1..n : sizes[k] = 1 + Len(t.body[k].args)
  <2>1. sizes \in [1..n -> Nat]
    BY <1>0, <1>1 DEF InstanceSize
  <2>2. \A k \in 1..n : sizes[k] = 1 + Len(t.body[k].args)
    BY <1>0, <1>1 DEF InstanceSize
  <2> QED
    BY <1>1, <2>1, <2>2
<1>3. at = Starts(first + np, sizes) /\ first + np \in Nat
  BY <1>0, <1>1 DEF InstanceStarts
<1>4. at \in [1..(n + 1) -> Nat] /\ at[1] = first + np
  BY <1>2, <1>3, StartsAre
<1>5. \A k \in 1..n, m \in 1..(n + 1) : k < m => at[k] + sizes[k] <= at[m]
  BY <1>2, <1>3, StartsRise
<1>6. \A k \in 1..(n + 1) : first + np <= at[k]
  <2> TAKE k \in 1..(n + 1)
  <2>1. CASE k = 1
    BY <1>1, <1>4, <2>1
  <2>2. CASE k # 1
    <3>1. 1 \in 1..n /\ 1 < k
      BY <1>1, <2>2
    <3>2. at[1] + sizes[1] <= at[k] /\ sizes[1] \in Nat /\ at[k] \in Nat
      BY <1>1, <1>2, <1>4, <1>5, <3>1
    <3> QED
      BY <1>1, <1>4, <3>2
  <2> QED
    BY <2>1, <2>2
<1>7. \A k \in 1..n : \A m \in 1..(n + 1) : k < m => at[k] + 1 + Len(t.body[k].args) <= at[m]
  <2> TAKE k \in 1..n
  <2> TAKE m \in 1..(n + 1)
  <2> HAVE k < m
  <2>1. at[k] + sizes[k] <= at[m] /\ sizes[k] = 1 + Len(t.body[k].args)
    BY <1>2, <1>5
  <2>2. PICK c : c = Len(t.body[k].args)
    OBVIOUS
  <2>3. at[k] \in Nat /\ at[m] \in Nat /\ c \in Nat
    BY <1>1, <1>4, <2>2
  <2>4. sizes[k] = 1 + c /\ sizes[k] \in Nat
    BY <2>1, <2>2, <2>3
  <2>5. at[k] + 1 + c <= at[m]
    BY <2>1, <2>3, <2>4
  <2> QED
    BY <2>2, <2>5
<1>8. t.name # OttrTriple => at[n + 1] = first + TemplateSize(t)
  <2> HAVE t.name # OttrTriple
  <2>1. TemplateSize(t) = InstanceStarts(t, 0)[n + 1]
    BY <1>0 DEF TemplateSize
  <2>2. InstanceStarts(t, 0) = Starts(np, sizes)
    BY <1>0, <1>1 DEF InstanceStarts
  <2>3. PICK zero : zero = Starts(np, sizes)
    OBVIOUS
  <2>4. at[n + 1] \in Nat
    <3>1. n + 1 \in 1..(n + 1)
      BY <1>1
    <3> QED
      BY <1>4, <3>1
  <2>5. at[n + 1] + np = zero[n + 1] + (first + np)
    BY <1>1, <1>2, <1>3, <2>3, StartsShift
  <2>6. zero[n + 1] \in Nat
    <3>1. zero \in [1..(n + 1) -> Nat]
      BY <1>1, <1>2, <2>3, StartsAre
    <3> QED
      BY <1>1, <3>1
  <2>7. PICK a, z \in Nat : a = at[n + 1] /\ z = zero[n + 1]
    BY <2>4, <2>6
  <2>8. a + np = z + (first + np)
    BY <2>5, <2>7
  <2>9. a = first + z
    BY <1>1, <2>8
  <2> QED
    BY <2>1, <2>2, <2>3, <2>7, <2>9
<1> QED
  BY <1>0, <1>4, <1>6, <1>7, <1>8 DEF Lies

-----------------------------------------------------------------------------
(* What is said of one blank node.                                         *)

\* The names of the vocabulary differ, and none is that of a type.
LEMMA VocabApart ==
  /\ \A x, y : Vocab(x) = Vocab(y) => x = y
  /\ \A x : Vocab(x) # RdfType
BY DEF Vocab, RdfType

\* Nothing but triples, and two that say the same of s.
Triples(g)      == \A u \in g : u = <<u[1], u[2], u[3]>>
SameOf(g, d, s) == \A q, x : <<s, q, x>> \in g <=> <<s, q, x>> \in d

\* What a query finds.
LEMMA ObjectsAre ==
  ASSUME NEW g, Triples(g)
  PROVE  \A s, q, x : x \in Objects(g, s, q) <=> <<s, Vocab(q), x>> \in g
<1> TAKE s, q, x
<1>1. ASSUME x \in Objects(g, s, q)
      PROVE  <<s, Vocab(q), x>> \in g
  <2>1. PICK u \in g : u[1] = s /\ u[2] = Vocab(q) /\ u[3] = x
    BY <1>1 DEF Objects
  <2> QED
    BY <2>1 DEF Triples
<1>2. ASSUME <<s, Vocab(q), x>> \in g
      PROVE  x \in Objects(g, s, q)
  <2>1. PICK u : u = <<s, Vocab(q), x>>
    OBVIOUS
  <2>2. u \in g /\ u[1] = s /\ u[2] = Vocab(q) /\ u[3] = x
    BY <1>2, <2>1
  <2> QED
    BY <2>2 DEF Objects
<1> QED
  BY <1>1, <1>2

\* What is said of a parameter is what it has to tell.
LEMMA ParameterRead ==
  ASSUME NEW p, NEW i, NEW b0, NEW g, Triples(g), SameOf(g, DescribeParameter(p, i, b0), b0)
  PROVE  Read(g, b0, ParameterParts) = ParameterTold(p, i)
<1>1. PICK b, ty, v1, v2, v3, v4, v5, v6 :
        /\ b = b0 /\ ty = Vocab("Parameter")
        /\ v1 = IntLit(i)
        /\ v2 = StrLit(p.v)
        /\ v3 = BoolLit(p.optional)
        /\ v4 = Named(DecomposePtype(p.type).of)
        /\ v5 = StrLit(DecomposePtype(p.type).card)
        /\ v6 = TermOf(p.default)
  OBVIOUS
<1>2. \A u : u \in DescribeParameter(p, i, b0) <=>
        \/ u = <<b, RdfType, ty>>
        \/ u = <<b, Vocab("index"), v1>>
        \/ u = <<b, Vocab("variableName"), v2>>
        \/ u = <<b, Vocab("optional"), v3>>
        \/ HasPtype(p) /\ u = <<b, Vocab("type"), v4>>
        \/ HasPtype(p) /\ u = <<b, Vocab("cardinality"), v5>>
        \/ SingleTerm(p.default) /\ u = <<b, Vocab("defaultValue"), v6>>
  BY <1>1 DEF DescribeParameter
<1>3. \A q, x : <<b, Vocab(q), x>> \in DescribeParameter(p, i, b0) <=>
        \/ q = "index" /\ x = v1
        \/ q = "variableName" /\ x = v2
        \/ q = "optional" /\ x = v3
        \/ HasPtype(p) /\ q = "type" /\ x = v4
        \/ HasPtype(p) /\ q = "cardinality" /\ x = v5
        \/ SingleTerm(p.default) /\ q = "defaultValue" /\ x = v6
  BY <1>2, VocabApart
<1>4. \A q, x : x \in Objects(g, b, q) <=>
        \/ q = "index" /\ x = v1
        \/ q = "variableName" /\ x = v2
        \/ q = "optional" /\ x = v3
        \/ HasPtype(p) /\ q = "type" /\ x = v4
        \/ HasPtype(p) /\ q = "cardinality" /\ x = v5
        \/ SingleTerm(p.default) /\ q = "defaultValue" /\ x = v6
  <2> TAKE q, x
  <2>1. x \in Objects(g, b, q) <=> <<b, Vocab(q), x>> \in g
    BY ObjectsAre
  <2>2. <<b, Vocab(q), x>> \in g <=> <<b, Vocab(q), x>> \in DescribeParameter(p, i, b0)
    BY <1>1 DEF SameOf
  <2>3. <<b, Vocab(q), x>> \in DescribeParameter(p, i, b0) <=>
          \/ q = "index" /\ x = v1
          \/ q = "variableName" /\ x = v2
          \/ q = "optional" /\ x = v3
          \/ HasPtype(p) /\ q = "type" /\ x = v4
          \/ HasPtype(p) /\ q = "cardinality" /\ x = v5
          \/ SingleTerm(p.default) /\ q = "defaultValue" /\ x = v6
    BY <1>3
  <2> QED
    BY <2>1, <2>2, <2>3
<1>5. Objects(g, b, "index") = {v1}
  <2>1. \A x : x \in Objects(g, b, "index") <=> x = v1
    BY <1>4
  <2> QED
    BY <2>1
<1>6. Objects(g, b, "variableName") = {v2}
  <2>1. \A x : x \in Objects(g, b, "variableName") <=> x = v2
    BY <1>4
  <2> QED
    BY <2>1
<1>7. Objects(g, b, "optional") = {v3}
  <2>1. \A x : x \in Objects(g, b, "optional") <=> x = v3
    BY <1>4
  <2> QED
    BY <2>1
<1>8. Objects(g, b, "type") = If(HasPtype(p), v4)
  <2>1. \A x : x \in Objects(g, b, "type") <=> HasPtype(p) /\ x = v4
    BY <1>4
  <2> QED
    BY <2>1 DEF If
<1>9. Objects(g, b, "cardinality") = If(HasPtype(p), v5)
  <2>1. \A x : x \in Objects(g, b, "cardinality") <=> HasPtype(p) /\ x = v5
    BY <1>4
  <2> QED
    BY <2>1 DEF If
<1>10. Objects(g, b, "defaultValue") = If(SingleTerm(p.default), v6)
  <2>1. \A x : x \in Objects(g, b, "defaultValue") <=> SingleTerm(p.default) /\ x = v6
    BY <1>4
  <2> QED
    BY <2>1 DEF If
<1>11. Read(g, b, ParameterParts) =
         [index |-> Objects(g, b, "index"),
          variableName |-> Objects(g, b, "variableName"),
          optional |-> Objects(g, b, "optional"),
          type |-> Objects(g, b, "type"),
          cardinality |-> Objects(g, b, "cardinality"),
          defaultValue |-> Objects(g, b, "defaultValue")]
  BY DEF Read, ParameterParts
<1> QED
  BY <1>1, <1>5, <1>6, <1>7, <1>8, <1>9, <1>10, <1>11 DEF ParameterTold

\* What is said of an argument is what it has to tell.
LEMMA ArgumentRead ==
  ASSUME NEW a, NEW i, NEW b0, NEW g, Triples(g), SameOf(g, DescribeArgument(a, i, b0), b0)
  PROVE  Read(g, b0, ArgumentParts) = ArgumentTold(a, i)
<1>1. PICK b, ty, v1, v2, v3, v4, v5 :
        /\ b = b0 /\ ty = Vocab("Argument")
        /\ v1 = IntLit(i)
        /\ v2 = BoolLit(a.expand)
        /\ v3 = StrLit(a.t.n)
        /\ v4 = TermOf(a.t.c)
        /\ v5 = BoolLit(TRUE)
  OBVIOUS
<1>2. \A u : u \in DescribeArgument(a, i, b0) <=>
        \/ u = <<b, RdfType, ty>>
        \/ u = <<b, Vocab("index"), v1>>
        \/ u = <<b, Vocab("listExpand"), v2>>
        \/ a.t.k = "var" /\ u = <<b, Vocab("variableName"), v3>>
        \/ IsOneConst(a.t) /\ u = <<b, Vocab("constantValue"), v4>>
        \/ IsListTerm(a.t) /\ u = <<b, Vocab("isList"), v5>>
  BY <1>1 DEF DescribeArgument
<1>3. \A q, x : <<b, Vocab(q), x>> \in DescribeArgument(a, i, b0) <=>
        \/ q = "index" /\ x = v1
        \/ q = "listExpand" /\ x = v2
        \/ a.t.k = "var" /\ q = "variableName" /\ x = v3
        \/ IsOneConst(a.t) /\ q = "constantValue" /\ x = v4
        \/ IsListTerm(a.t) /\ q = "isList" /\ x = v5
  BY <1>2, VocabApart
<1>4. \A q, x : x \in Objects(g, b, q) <=>
        \/ q = "index" /\ x = v1
        \/ q = "listExpand" /\ x = v2
        \/ a.t.k = "var" /\ q = "variableName" /\ x = v3
        \/ IsOneConst(a.t) /\ q = "constantValue" /\ x = v4
        \/ IsListTerm(a.t) /\ q = "isList" /\ x = v5
  <2> TAKE q, x
  <2>1. x \in Objects(g, b, q) <=> <<b, Vocab(q), x>> \in g
    BY ObjectsAre
  <2>2. <<b, Vocab(q), x>> \in g <=> <<b, Vocab(q), x>> \in DescribeArgument(a, i, b0)
    BY <1>1 DEF SameOf
  <2>3. <<b, Vocab(q), x>> \in DescribeArgument(a, i, b0) <=>
          \/ q = "index" /\ x = v1
          \/ q = "listExpand" /\ x = v2
          \/ a.t.k = "var" /\ q = "variableName" /\ x = v3
          \/ IsOneConst(a.t) /\ q = "constantValue" /\ x = v4
          \/ IsListTerm(a.t) /\ q = "isList" /\ x = v5
    BY <1>3
  <2> QED
    BY <2>1, <2>2, <2>3
<1>5. Objects(g, b, "index") = {v1}
  <2>1. \A x : x \in Objects(g, b, "index") <=> x = v1
    BY <1>4
  <2> QED
    BY <2>1
<1>6. Objects(g, b, "listExpand") = {v2}
  <2>1. \A x : x \in Objects(g, b, "listExpand") <=> x = v2
    BY <1>4
  <2> QED
    BY <2>1
<1>7. Objects(g, b, "variableName") = If(a.t.k = "var", v3)
  <2>1. \A x : x \in Objects(g, b, "variableName") <=> a.t.k = "var" /\ x = v3
    BY <1>4
  <2> QED
    BY <2>1 DEF If
<1>8. Objects(g, b, "constantValue") = If(IsOneConst(a.t), v4)
  <2>1. \A x : x \in Objects(g, b, "constantValue") <=> IsOneConst(a.t) /\ x = v4
    BY <1>4
  <2> QED
    BY <2>1 DEF If
<1>9. Objects(g, b, "isList") = If(IsListTerm(a.t), v5)
  <2>1. \A x : x \in Objects(g, b, "isList") <=> IsListTerm(a.t) /\ x = v5
    BY <1>4
  <2> QED
    BY <2>1 DEF If
<1>10. Read(g, b, ArgumentParts) =
         [index |-> Objects(g, b, "index"),
          listExpand |-> Objects(g, b, "listExpand"),
          variableName |-> Objects(g, b, "variableName"),
          constantValue |-> Objects(g, b, "constantValue"),
          isList |-> Objects(g, b, "isList")]
  BY DEF Read, ArgumentParts
<1> QED
  BY <1>1, <1>5, <1>6, <1>7, <1>8, <1>9, <1>10 DEF ArgumentTold

\* What is said of an instance itself.
OwnOf(inst, i, n) ==
  {<<Bnode(n), RdfType, Vocab("Instance")>>, <<Bnode(n), Vocab("index"), IntLit(i)>>,
   <<Bnode(n), Vocab("callsTemplate"), Named(inst.of)>>}
  \cup (IF inst.expander = "none" THEN {} ELSE {<<Bnode(n), Vocab("listExpander"), StrLit(inst.expander)>>})
  \cup {<<Bnode(n), Vocab("hasArgument"), Bnode(n + j)>> : j \in DOMAIN inst.args}

\* It is what the instance has to tell, and leads to its arguments.
LEMMA InstanceRead ==
  ASSUME NEW inst, NEW i, NEW n, NEW g, Triples(g), SameOf(g, OwnOf(inst, i, n), Bnode(n))
  PROVE  /\ Read(g, Bnode(n), InstanceParts) = InstanceTold(inst, i)[1]
         /\ Objects(g, Bnode(n), "hasArgument") = {Bnode(n + j) : j \in DOMAIN inst.args}
<1>1. PICK b, ty, v1, v2, v3, v4 :
        /\ b = Bnode(n) /\ ty = Vocab("Instance")
        /\ v1 = IntLit(i)
        /\ v2 = Named(inst.of)
        /\ v3 = StrLit(inst.expander)
        /\ v4 = {Bnode(n + j) : j \in DOMAIN inst.args}
  OBVIOUS
<1>2. \A u : u \in OwnOf(inst, i, n) <=>
        \/ u = <<b, RdfType, ty>>
        \/ u = <<b, Vocab("index"), v1>>
        \/ u = <<b, Vocab("callsTemplate"), v2>>
        \/ inst.expander # "none" /\ u = <<b, Vocab("listExpander"), v3>>
        \/ \E x \in v4 : u = <<b, Vocab("hasArgument"), x>>
  BY <1>1 DEF OwnOf
<1>3. \A q, x : <<b, Vocab(q), x>> \in OwnOf(inst, i, n) <=>
        \/ q = "index" /\ x = v1
        \/ q = "callsTemplate" /\ x = v2
        \/ inst.expander # "none" /\ q = "listExpander" /\ x = v3
        \/ q = "hasArgument" /\ x \in v4
  BY <1>2, VocabApart
<1>4. \A q, x : x \in Objects(g, b, q) <=>
        \/ q = "index" /\ x = v1
        \/ q = "callsTemplate" /\ x = v2
        \/ inst.expander # "none" /\ q = "listExpander" /\ x = v3
        \/ q = "hasArgument" /\ x \in v4
  <2> TAKE q, x
  <2>1. x \in Objects(g, b, q) <=> <<b, Vocab(q), x>> \in g
    BY ObjectsAre
  <2>2. <<b, Vocab(q), x>> \in g <=> <<b, Vocab(q), x>> \in OwnOf(inst, i, n)
    BY <1>1 DEF SameOf
  <2>3. <<b, Vocab(q), x>> \in OwnOf(inst, i, n) <=>
          \/ q = "index" /\ x = v1
          \/ q = "callsTemplate" /\ x = v2
          \/ inst.expander # "none" /\ q = "listExpander" /\ x = v3
          \/ q = "hasArgument" /\ x \in v4
    BY <1>3
  <2> QED
    BY <2>1, <2>2, <2>3
<1>5. Objects(g, b, "index") = {v1}
  <2>1. \A x : x \in Objects(g, b, "index") <=> x = v1
    BY <1>4
  <2> QED
    BY <2>1
<1>6. Objects(g, b, "callsTemplate") = {v2}
  <2>1. \A x : x \in Objects(g, b, "callsTemplate") <=> x = v2
    BY <1>4
  <2> QED
    BY <2>1
<1>7. Objects(g, b, "listExpander") = If(inst.expander # "none", v3)
  <2>1. \A x : x \in Objects(g, b, "listExpander") <=> inst.expander # "none" /\ x = v3
    BY <1>4
  <2> QED
    BY <2>1 DEF If
<1>8. Objects(g, b, "hasArgument") = v4
  <2>1. \A x : x \in Objects(g, b, "hasArgument") <=> x \in v4
    BY <1>4
  <2> QED
    BY <2>1
<1>9. Read(g, b, InstanceParts) =
         [index |-> Objects(g, b, "index"),
          callsTemplate |-> Objects(g, b, "callsTemplate"),
          listExpander |-> Objects(g, b, "listExpander")]
  BY DEF Read, InstanceParts
<1> QED
  BY <1>1, <1>5, <1>6, <1>7, <1>8, <1>9 DEF InstanceTold

-----------------------------------------------------------------------------
(* What is said of all the nodes of a template.                            *)

\* Nodes are blank or have a name.
LEMMA SubjectsApart ==
  /\ \A x, y : Bnode(x) = Bnode(y) => x = y
  /\ \A x, y : Named(x) = Named(y) => x = y
  /\ \A x, y : Bnode(x) # Named(y)
BY DEF Bnode, Named

\* The blank node m of a template is described by d: it is a parameter, an
\* instance or an argument.
IsParameter(m, d, t, first) ==
  \E k \in DOMAIN t.params : m = first + k - 1 /\ d = DescribeParameter(t.params[k], k - 1, Bnode(m))
IsInstance(m, d, t, at) ==
  \E k \in DOMAIN t.body : m = at[k] /\ d = OwnOf(t.body[k], k - 1, m)
IsArgument(m, d, t, at) ==
  \E k \in DOMAIN t.body : \E j \in DOMAIN t.body[k].args :
    m = at[k] + j /\ d = DescribeArgument(t.body[k].args[j], j - 1, Bnode(m))
IsPart(m, d, t, first, at) == IsParameter(m, d, t, first) \/ IsInstance(m, d, t, at) \/ IsArgument(m, d, t, at)

\* The numbers of the k-th instance and its arguments are no others'.
LEMMA OneInstance ==
  ASSUME NEW t, IsTemplate(t), NEW first \in Nat, NEW at, Lies(t, first, at),
         NEW k \in DOMAIN t.body, NEW a \in 0..Len(t.body[k].args),
         NEW l \in DOMAIN t.body, NEW c \in 0..Len(t.body[l].args)
  PROVE  /\ at[k] + a \in Nat /\ first + Len(t.params) <= at[k] + a /\ at[k] + a < at[Len(t.body) + 1]
         /\ at[k] + a = at[l] + c => k = l /\ a = c
<1>1. PICK n, np, x, y, z, p, q :
        /\ n = Len(t.body) /\ np = Len(t.params) /\ x = at[k] /\ y = at[l] /\ z = at[n + 1]
        /\ p = Len(t.body[k].args) /\ q = Len(t.body[l].args)
  OBVIOUS
<1>2. /\ n \in Nat /\ np \in Nat /\ p \in Nat /\ q \in Nat /\ k \in 1..n /\ l \in 1..n
      /\ a \in Nat /\ c \in Nat /\ a <= p /\ c <= q
  BY <1>1, TemplateIs
<1>3. k \in 1..(n + 1) /\ l \in 1..(n + 1) /\ n + 1 \in 1..(n + 1) /\ k < n + 1 /\ l < n + 1
  BY <1>2
<1>4. x \in Nat /\ y \in Nat /\ z \in Nat
  BY <1>1, <1>3 DEF Lies
<1>5. first + np <= x /\ x + 1 + p <= z
  BY <1>1, <1>2, <1>3 DEF Lies
<1>6. (k < l => x + 1 + p <= y) /\ (l < k => y + 1 + q <= x)
  BY <1>1, <1>2, <1>3 DEF Lies
<1>7. x + a \in Nat /\ first + np <= x + a /\ x + a < z
  BY <1>2, <1>4, <1>5
<1>8. ASSUME x + a = y + c
      PROVE  k = l /\ a = c
  <2>1. ~(k < l) /\ ~(l < k)
    BY <1>2, <1>4, <1>6, <1>8
  <2>2. k = l
    BY <1>2, <2>1
  <2>3. x = y
    BY <1>1, <2>2
  <2> QED
    BY <1>2, <1>4, <1>8, <2>2, <2>3
<1> QED
  BY <1>1, <1>7, <1>8

\* A part lies within its template.
LEMMA PartWithin ==
  ASSUME NEW t, IsTemplate(t), NEW first \in Nat, NEW at, Lies(t, first, at),
         NEW m, NEW d, IsPart(m, d, t, first, at)
  PROVE  /\ m \in Nat /\ first <= m /\ m < at[Len(t.body) + 1]
         /\ m < first + Len(t.params) <=> IsParameter(m, d, t, first)
<1>1. PICK n, np : n = Len(t.body) /\ np = Len(t.params)
  OBVIOUS
<1>2. n \in Nat /\ np \in Nat /\ DOMAIN t.params = 1..np /\ n + 1 \in 1..(n + 1)
  BY <1>1, TemplateIs
<1>3. at[n + 1] \in Nat /\ first + np <= at[n + 1]
  BY <1>1, <1>2 DEF Lies
<1>4. ASSUME IsParameter(m, d, t, first)
      PROVE  m \in Nat /\ first <= m /\ m < first + np
  BY <1>2, <1>4 DEF IsParameter
<1>5. ASSUME IsInstance(m, d, t, at)
      PROVE  m \in Nat /\ first + np <= m /\ m < at[n + 1]
  <2>1. PICK k \in DOMAIN t.body : m = at[k]
    BY <1>5 DEF IsInstance
  <2>2. 0 \in 0..Len(t.body[k].args)
    BY TemplateIs
  <2>3. at[k] + 0 \in Nat /\ first + np <= at[k] + 0 /\ at[k] + 0 < at[n + 1]
    BY <1>1, <2>2, OneInstance
  <2>4. at[k] \in Nat
    <3>1. k \in 1..(n + 1)
      BY <1>1, <1>2, TemplateIs
    <3> QED
      BY <1>1, <3>1 DEF Lies
  <2>5. at[k] + 0 = at[k]
    BY <2>4
  <2> QED
    BY <2>1, <2>3, <2>5
<1>6. ASSUME IsArgument(m, d, t, at)
      PROVE  m \in Nat /\ first + np <= m /\ m < at[n + 1]
  <2>1. PICK k \in DOMAIN t.body : \E j \in DOMAIN t.body[k].args : m = at[k] + j
    BY <1>6 DEF IsArgument
  <2>2. PICK j \in DOMAIN t.body[k].args : m = at[k] + j
    BY <2>1
  <2>3. j \in 0..Len(t.body[k].args)
    BY TemplateIs
  <2> QED
    BY <1>1, <2>2, <2>3, OneInstance
<1>7. m \in Nat /\ first <= m /\ m < at[n + 1]
  BY <1>2, <1>3, <1>4, <1>5, <1>6 DEF IsPart
<1>8. m < first + np <=> IsParameter(m, d, t, first)
  <2>1. ~(m \in Nat /\ first + np <= m /\ m < first + np)
    BY <1>2
  <2> QED
    BY <1>4, <1>5, <1>6, <2>1 DEF IsPart
<1> QED
  BY <1>1, <1>7, <1>8

\* No two parts of a template share a blank node.
LEMMA PartsApart ==
  ASSUME NEW t, IsTemplate(t), NEW first \in Nat, NEW at, Lies(t, first, at),
         NEW m, NEW d, IsPart(m, d, t, first, at), NEW e, IsPart(m, e, t, first, at)
  PROVE  d = e
<1>1. IsParameter(m, d, t, first) <=> IsParameter(m, e, t, first)
  <2>1. m < first + Len(t.params) <=> IsParameter(m, d, t, first)
    BY PartWithin
  <2>2. m < first + Len(t.params) <=> IsParameter(m, e, t, first)
    BY PartWithin
  <2> QED
    BY <2>1, <2>2
<1>2. CASE IsParameter(m, d, t, first)
  <2>1. PICK k \in DOMAIN t.params : m = first + k - 1 /\ d = DescribeParameter(t.params[k], k - 1, Bnode(m))
    BY <1>2 DEF IsParameter
  <2>2. PICK l \in DOMAIN t.params : m = first + l - 1 /\ e = DescribeParameter(t.params[l], l - 1, Bnode(m))
    BY <1>1, <1>2 DEF IsParameter
  <2>3. k \in Nat /\ l \in Nat
    BY TemplateIs
  <2>4. k = l
    BY <2>1, <2>2, <2>3
  <2> QED
    BY <2>1, <2>2, <2>4
<1>3. CASE ~IsParameter(m, d, t, first)
  <2> DEFINE what(k, a) == IF a = 0 THEN OwnOf(t.body[k], k - 1, m)
                                    ELSE DescribeArgument(t.body[k].args[a], a - 1, Bnode(m))
  <2>1. ASSUME NEW f, IsPart(m, f, t, first, at), ~IsParameter(m, f, t, first)
        PROVE  \E k \in DOMAIN t.body : \E a \in 0..Len(t.body[k].args) : m = at[k] + a /\ f = what(k, a)
    <3>1. CASE IsInstance(m, f, t, at)
      <4>1. PICK k \in DOMAIN t.body : m = at[k] /\ f = OwnOf(t.body[k], k - 1, m)
        BY <3>1 DEF IsInstance
      <4>2. k \in 1..(Len(t.body) + 1) /\ 0 \in 0..Len(t.body[k].args)
        BY TemplateIs
      <4>3. at[k] \in Nat
        BY <4>2 DEF Lies
      <4>4. m = at[k] + 0 /\ f = what(k, 0)
        BY <4>1, <4>3
      <4> HIDE DEF what
      <4> QED
        BY <4>2, <4>4
    <3>2. CASE IsArgument(m, f, t, at)
      <4>1. PICK k \in DOMAIN t.body : \E j \in DOMAIN t.body[k].args :
              m = at[k] + j /\ f = DescribeArgument(t.body[k].args[j], j - 1, Bnode(m))
        BY <3>2 DEF IsArgument
      <4>2. PICK j \in DOMAIN t.body[k].args : m = at[k] + j /\ f = DescribeArgument(t.body[k].args[j], j - 1, Bnode(m))
        BY <4>1
      <4>3. j \in 0..Len(t.body[k].args) /\ j # 0
        BY TemplateIs
      <4>4. f = what(k, j)
        BY <4>2, <4>3
      <4> HIDE DEF what
      <4> QED
        BY <4>2, <4>3, <4>4
    <3> QED
      BY <2>1, <3>1, <3>2 DEF IsPart
  <2> HIDE DEF what
  <2>2. PICK k \in DOMAIN t.body : \E a \in 0..Len(t.body[k].args) : m = at[k] + a /\ d = what(k, a)
    BY <1>3, <2>1
  <2>3. PICK a \in 0..Len(t.body[k].args) : m = at[k] + a /\ d = what(k, a)
    BY <2>2
  <2>4. PICK l \in DOMAIN t.body : \E c \in 0..Len(t.body[l].args) : m = at[l] + c /\ e = what(l, c)
    BY <1>1, <1>3, <2>1
  <2>5. PICK c \in 0..Len(t.body[l].args) : m = at[l] + c /\ e = what(l, c)
    BY <2>4
  <2>6. k = l /\ a = c
    BY <2>3, <2>5, OneInstance
  <2> QED
    BY <2>3, <2>5, <2>6
<1> QED
  BY <1>2, <1>3

\* A part says things of its own blank node only.
LEMMA PartSays ==
  ASSUME NEW t, NEW first, NEW at, NEW m, NEW d, IsPart(m, d, t, first, at)
  PROVE  /\ \A u \in d : u = <<Bnode(m), u[2], u[3]>>
         /\ \A x : <<Bnode(m), RdfType, x>> \in d => x # Vocab("Template")
<1>0. Vocab("Parameter") # Vocab("Template") /\ Vocab("Instance") # Vocab("Template") /\ Vocab("Argument") # Vocab("Template")
  BY VocabApart
<1>1. CASE IsParameter(m, d, t, first)
  <2>1. PICK k \in DOMAIN t.params : d = DescribeParameter(t.params[k], k - 1, Bnode(m))
    BY <1>1 DEF IsParameter
  <2>2. PICK p, i, b : p = t.params[k] /\ i = k - 1 /\ b = Bnode(m)
    OBVIOUS
  <2>3. \A u \in DescribeParameter(p, i, b) : u = <<b, u[2], u[3]>>
    BY DEF DescribeParameter
  <2>4. \A x : <<b, RdfType, x>> \in DescribeParameter(p, i, b) => x = Vocab("Parameter")
    BY VocabApart DEF DescribeParameter
  <2>5. d = DescribeParameter(p, i, b)
    BY <2>1, <2>2
  <2> QED
    BY <1>0, <2>2, <2>3, <2>4, <2>5
<1>2. CASE IsInstance(m, d, t, at)
  <2>1. PICK k \in DOMAIN t.body : d = OwnOf(t.body[k], k - 1, m)
    BY <1>2 DEF IsInstance
  <2>2. PICK inst, i : inst = t.body[k] /\ i = k - 1
    OBVIOUS
  <2>3. \A u \in OwnOf(inst, i, m) : u = <<Bnode(m), u[2], u[3]>>
    BY DEF OwnOf
  <2>4. \A x : <<Bnode(m), RdfType, x>> \in OwnOf(inst, i, m) => x = Vocab("Instance")
    BY VocabApart DEF OwnOf
  <2>5. d = OwnOf(inst, i, m)
    BY <2>1, <2>2
  <2> QED
    BY <1>0, <2>3, <2>4, <2>5
<1>3. CASE IsArgument(m, d, t, at)
  <2>1. PICK k \in DOMAIN t.body : \E j \in DOMAIN t.body[k].args : d = DescribeArgument(t.body[k].args[j], j - 1, Bnode(m))
    BY <1>3 DEF IsArgument
  <2>2. PICK j \in DOMAIN t.body[k].args : d = DescribeArgument(t.body[k].args[j], j - 1, Bnode(m))
    BY <2>1
  <2>3. PICK a, i, b : a = t.body[k].args[j] /\ i = j - 1 /\ b = Bnode(m)
    OBVIOUS
  <2>4. \A u \in DescribeArgument(a, i, b) : u = <<b, u[2], u[3]>>
    <3>1. PICK v1, v2, v3, v4, v5, v6, v7, v8, v9 :
            /\ v1 = Vocab("Argument") /\ v2 = Vocab("index") /\ v3 = IntLit(i) /\ v4 = Vocab("listExpand")
            /\ v5 = BoolLit(a.expand) /\ v6 = <<Vocab("variableName"), StrLit(a.t.n)>>
            /\ v7 = <<Vocab("constantValue"), TermOf(a.t.c)>> /\ v8 = <<Vocab("isList"), BoolLit(TRUE)>>
            /\ v9 = RdfType
      OBVIOUS
    <3>2. \A u \in DescribeArgument(a, i, b) :
            \/ u = <<b, v9, v1>> \/ u = <<b, v2, v3>> \/ u = <<b, v4, v5>>
            \/ u = <<b, v6[1], v6[2]>> \/ u = <<b, v7[1], v7[2]>> \/ u = <<b, v8[1], v8[2]>>
      BY <3>1 DEF DescribeArgument
    <3> QED
      BY <3>2
  <2>5. \A x : <<b, RdfType, x>> \in DescribeArgument(a, i, b) => x = Vocab("Argument")
    BY VocabApart DEF DescribeArgument
  <2>6. d = DescribeArgument(a, i, b)
    BY <2>2, <2>3
  <2> QED
    BY <1>0, <2>3, <2>4, <2>5, <2>6
<1> QED
  BY <1>1, <1>2, <1>3 DEF IsPart

\* What is said of a template by its name.
SaysOf(t, first, at, q, x) ==
  \/ q = RdfType /\ x = Vocab("Template")
  \/ q = Vocab("hasParameter") /\ \E k \in DOMAIN t.params : x = Bnode(first + k - 1)
  \/ q = Vocab("hasInstance") /\ \E k \in DOMAIN t.body : x = Bnode(at[k])
  \/ q = Vocab("usesPredicate") /\ \E k \in DOMAIN t.body : x \in UsesPredicate(t.body[k])

\* A template is told by its own triples and those of its parts.
LEMMA TemplateSays ==
  ASSUME NEW t, NEW first, NEW at, at = InstanceStarts(t, first), NEW u
  PROVE  u \in DescribeTemplate(t, first) <=>
           \/ \E q, x : u = <<Named(t.name), q, x>> /\ SaysOf(t, first, at, q, x)
           \/ \E m, d : IsPart(m, d, t, first, at) /\ u \in d
<1> DEFINE s == Named(t.name)
<1>1. u \in DescribeTemplate(t, first) <=>
        \/ u = <<s, RdfType, Vocab("Template")>>
        \/ \E i \in DOMAIN t.params : \/ u = <<s, Vocab("hasParameter"), Bnode(first + i - 1)>>
                                      \/ u \in DescribeParameter(t.params[i], i - 1, Bnode(first + i - 1))
        \/ \E i \in DOMAIN t.body : \/ u = <<s, Vocab("hasInstance"), Bnode(at[i])>>
                                    \/ u \in DescribeInstance(t.body[i], i - 1, at[i])
                                    \/ \E p \in UsesPredicate(t.body[i]) : u = <<s, Vocab("usesPredicate"), p>>
  <2> DEFINE Ps == UNION {{<<s, Vocab("hasParameter"), Bnode(first + i - 1)>>}
                          \cup DescribeParameter(t.params[i], i - 1, Bnode(first + i - 1)) : i \in DOMAIN t.params}
             Is(a) == UNION {{<<s, Vocab("hasInstance"), Bnode(a[i])>>}
                             \cup DescribeInstance(t.body[i], i - 1, a[i])
                             \cup {<<s, Vocab("usesPredicate"), p>> : p \in UsesPredicate(t.body[i])} : i \in DOMAIN t.body}
  <2>1. DescribeTemplate(t, first) = {<<s, RdfType, Vocab("Template")>>} \cup Ps \cup Is(InstanceStarts(t, first))
    BY DEF DescribeTemplate
  <2>2. DescribeTemplate(t, first) = {<<s, RdfType, Vocab("Template")>>} \cup Ps \cup Is(at)
    BY <2>1
  <2>3. u \in Ps <=> \E i \in DOMAIN t.params : \/ u = <<s, Vocab("hasParameter"), Bnode(first + i - 1)>>
                                              \/ u \in DescribeParameter(t.params[i], i - 1, Bnode(first + i - 1))
    OBVIOUS
  <2>4. u \in Is(at) <=> \E i \in DOMAIN t.body : \/ u = <<s, Vocab("hasInstance"), Bnode(at[i])>>
                                            \/ u \in DescribeInstance(t.body[i], i - 1, at[i])
                                            \/ \E p \in UsesPredicate(t.body[i]) : u = <<s, Vocab("usesPredicate"), p>>
    OBVIOUS
  <2> HIDE DEF Ps, Is
  <2> QED
    BY <2>2, <2>3, <2>4, Zenon
<1>2. ASSUME NEW inst, NEW i, NEW n
      PROVE  u \in DescribeInstance(inst, i, n) <=>
               \/ u \in OwnOf(inst, i, n)
               \/ \E j \in DOMAIN inst.args : u \in DescribeArgument(inst.args[j], j - 1, Bnode(n + j))
  BY DEF DescribeInstance, OwnOf
<1>3. (\E m, d : IsParameter(m, d, t, first) /\ u \in d) <=>
        \E i \in DOMAIN t.params : u \in DescribeParameter(t.params[i], i - 1, Bnode(first + i - 1))
  BY DEF IsParameter
<1>4. (\E m, d : IsInstance(m, d, t, at) /\ u \in d) <=>
        \E i \in DOMAIN t.body : u \in OwnOf(t.body[i], i - 1, at[i])
  BY DEF IsInstance
<1>5. (\E m, d : IsArgument(m, d, t, at) /\ u \in d) <=>
        \E i \in DOMAIN t.body : \E j \in DOMAIN t.body[i].args :
          u \in DescribeArgument(t.body[i].args[j], j - 1, Bnode(at[i] + j))
  BY DEF IsArgument
<1>6. (\E m, d : IsPart(m, d, t, first, at) /\ u \in d) <=>
        \/ \E i \in DOMAIN t.params : u \in DescribeParameter(t.params[i], i - 1, Bnode(first + i - 1))
        \/ \E i \in DOMAIN t.body : u \in DescribeInstance(t.body[i], i - 1, at[i])
  BY <1>2, <1>3, <1>4, <1>5, Zenon DEF IsPart
<1>7. (\E q, x : u = <<s, q, x>> /\ SaysOf(t, first, at, q, x)) <=>
        \/ u = <<s, RdfType, Vocab("Template")>>
        \/ \E i \in DOMAIN t.params : u = <<s, Vocab("hasParameter"), Bnode(first + i - 1)>>
        \/ \E i \in DOMAIN t.body : \/ u = <<s, Vocab("hasInstance"), Bnode(at[i])>>
                                    \/ \E p \in UsesPredicate(t.body[i]) : u = <<s, Vocab("usesPredicate"), p>>
  <2> HIDE DEF s
  <2> QED
    BY Zenon DEF SaysOf
<1> HIDE DEF s
<1> QED
  BY <1>1, <1>6, <1>7, Zenon DEF s

-----------------------------------------------------------------------------
(* What the graph of several templates tells.                              *)

\* A template takes so many numbers.
LEMMA SizeIs ==
  ASSUME NEW t, IsTemplate(t)
  PROVE  TemplateSize(t) \in Nat
<1>1. PICK at : at = InstanceStarts(t, 0)
  OBVIOUS
<1>2. Lies(t, 0, at)
  BY <1>1, TemplateLies
<1>3. Len(t.body) + 1 \in 1..(Len(t.body) + 1)
  BY TemplateIs
<1>4. at[Len(t.body) + 1] \in Nat
  BY <1>2, <1>3 DEF Lies
<1> QED
  BY <1>1, <1>4 DEF TemplateSize

\* The templates are these, each under its name, at least once.
Lists(held, ts) ==
  /\ IsVector(held)
  /\ \A i \in DOMAIN held : IsTemplate(held[i]) /\ held[i].name \in DOMAIN ts /\ held[i] = ts[held[i].name]
  /\ \A n \in DOMAIN ts : \E i \in DOMAIN held : held[i].name = n
Own(held) == {i \in DOMAIN held : held[i].name # OttrTriple}

\* What is said of each node of the i-th template, which starts at start[i].
Says(g, held, start) ==
  /\ Triples(g)
  /\ \A i \in Own(held) : \A m, d : IsPart(m, d, held[i], start[i], InstanceStarts(held[i], start[i])) => SameOf(g, d, Bnode(m))
  /\ \A n, q, x : <<Named(n), q, x>> \in g <=>
       \E i \in Own(held) : held[i].name = n /\ SaysOf(held[i], start[i], InstanceStarts(held[i], start[i]), q, x)
  /\ \A m, x : <<Bnode(m), RdfType, x>> \in g => x # Vocab("Template")
  /\ \A u \in g : (\E n : u[1] = Named(n)) \/ (\E m : u[1] = Bnode(m))

\* Parts of different templates have different numbers.
LEMMA TemplatesApart ==
  ASSUME NEW held, IsVector(held), \A i \in DOMAIN held : IsTemplate(held[i]),
         NEW start, start = Starts(0, [i \in DOMAIN held |-> TemplateSize(held[i])]),
         NEW i \in Own(held), NEW j \in Own(held), NEW m, NEW d, NEW e,
         IsPart(m, d, held[i], start[i], InstanceStarts(held[i], start[i])),
         IsPart(m, e, held[j], start[j], InstanceStarts(held[j], start[j]))
  PROVE  i = j /\ d = e
<1>1. PICK n, sizes : n = Len(held) /\ sizes = [k \in DOMAIN held |-> TemplateSize(held[k])]
  OBVIOUS
<1>2. n \in Nat /\ DOMAIN held = 1..n /\ i \in 1..n /\ j \in 1..n
  BY <1>1 DEF IsVector, Own
<1>3. sizes \in [1..n -> Nat] /\ \A k \in 1..n : sizes[k] = TemplateSize(held[k])
  BY <1>1, <1>2, SizeIs
<1>4. sizes \in Seq(Nat) /\ Len(sizes) = n
  BY <1>2, <1>3
<1>5. start = Starts(0, sizes)
  BY <1>1
<1>6. start \in [1..(n + 1) -> Nat]
  BY <1>4, <1>5, StartsAre
<1>7. \A k \in 1..n : \A l \in 1..n : k < l => start[k] + sizes[k] <= start[l]
  <2> TAKE k \in 1..n
  <2> TAKE l \in 1..n
  <2> HAVE k < l
  <2>1. k \in 1..Len(sizes) /\ l \in 1..(Len(sizes) + 1)
    BY <1>2, <1>4
  <2> QED
    BY <1>4, <1>5, <2>1, StartsRise
<1>8. ASSUME NEW k \in Own(held), NEW f, IsPart(m, f, held[k], start[k], InstanceStarts(held[k], start[k]))
      PROVE  m \in Nat /\ start[k] <= m /\ m < start[k] + sizes[k]
  <2>1. PICK t, first, at : t = held[k] /\ first = start[k] /\ at = InstanceStarts(t, first)
    OBVIOUS
  <2>2. k \in 1..n /\ k \in 1..(n + 1) /\ IsTemplate(t) /\ t.name # OttrTriple
    BY <1>2, <2>1 DEF Own
  <2>3. first \in Nat /\ sizes[k] = TemplateSize(t)
    BY <1>3, <1>6, <2>1, <2>2
  <2>4. Lies(t, first, at)
    BY <2>1, <2>2, <2>3, TemplateLies
  <2>5. m \in Nat /\ first <= m /\ m < at[Len(t.body) + 1]
    BY <1>8, <2>1, <2>2, <2>3, <2>4, PartWithin
  <2>6. at[Len(t.body) + 1] = first + TemplateSize(t)
    BY <2>2, <2>4 DEF Lies
  <2> QED
    BY <2>1, <2>3, <2>5, <2>6
<1>9. PICK a, b, x, y \in Nat : a = start[i] /\ b = start[j] /\ x = sizes[i] /\ y = sizes[j]
  <2>1. i \in 1..(n + 1) /\ j \in 1..(n + 1)
    BY <1>2
  <2> QED
    BY <1>2, <1>3, <1>6, <2>1
<1>10. m \in Nat /\ a <= m /\ m < a + x /\ b <= m /\ m < b + y
  BY <1>8, <1>9
<1>11. (i < j => a + x <= b) /\ (j < i => b + y <= a)
  BY <1>2, <1>7, <1>9
<1>12. ~(i < j) /\ ~(j < i)
  BY <1>9, <1>10, <1>11
<1>13. i = j
  BY <1>2, <1>12
<1>14. d = e
  <2>1. PICK t, at : t = held[i] /\ at = InstanceStarts(t, a)
    OBVIOUS
  <2>2. IsTemplate(t) /\ a \in Nat
    BY <2>1 DEF Own
  <2>3. Lies(t, a, at)
    BY <2>1, <2>2, TemplateLies
  <2>4. IsPart(m, d, t, a, at) /\ IsPart(m, e, t, a, at)
    BY <1>9, <1>13, <2>1
  <2> QED
    BY <2>2, <2>3, <2>4, PartsApart
<1> QED
  BY <1>13, <1>14

\* What is said of the nodes in the graph of the templates.
LEMMA TemplatesSay ==
  ASSUME NEW held, IsVector(held), \A i \in DOMAIN held : IsTemplate(held[i]),
         NEW start, start = Starts(0, [i \in DOMAIN held |-> TemplateSize(held[i])])
  PROVE  Says(TemplatesToTriples(held), held, start)
<1> DEFINE at(i) == InstanceStarts(held[i], start[i])
<1>1. PICK g : g = TemplatesToTriples(held)
  OBVIOUS
<1>2. \A u : u \in g <=> \E i \in Own(held) : u \in DescribeTemplate(held[i], start[i])
  BY <1>1 DEF TemplatesToTriples, Own
<1>3. \A u : u \in g <=> \E i \in Own(held) :
               \/ \E q, x : u = <<Named(held[i].name), q, x>> /\ SaysOf(held[i], start[i], at(i), q, x)
               \/ \E m, d : IsPart(m, d, held[i], start[i], at(i)) /\ u \in d
  <2>1. \A u, i : u \in DescribeTemplate(held[i], start[i]) <=>
               \/ \E q, x : u = <<Named(held[i].name), q, x>> /\ SaysOf(held[i], start[i], at(i), q, x)
               \/ \E m, d : IsPart(m, d, held[i], start[i], at(i)) /\ u \in d
    BY TemplateSays
  <2> HIDE DEF at
  <2> QED
    BY <1>2, <2>1
<1>4. \A i, m, d : IsPart(m, d, held[i], start[i], at(i)) =>
               /\ \A u \in d : u = <<Bnode(m), u[2], u[3]>>
               /\ \A x : <<Bnode(m), RdfType, x>> \in d => x # Vocab("Template")
  BY PartSays
<1>5. \A i \in Own(held) : \A j \in Own(held) : \A m, d, e :
        IsPart(m, d, held[i], start[i], at(i)) /\ IsPart(m, e, held[j], start[j], at(j)) => i = j /\ d = e
  BY TemplatesApart
<1> HIDE DEF at
<1>6. ASSUME NEW u \in g
      PROVE  /\ u = <<u[1], u[2], u[3]>>
             /\ (\E n : u[1] = Named(n)) \/ (\E m : u[1] = Bnode(m))
  <2>1. PICK i \in Own(held) : \/ \E q, x : u = <<Named(held[i].name), q, x>> /\ SaysOf(held[i], start[i], at(i), q, x)
                               \/ \E m, d : IsPart(m, d, held[i], start[i], at(i)) /\ u \in d
    BY <1>3
  <2>2. CASE \E q, x : u = <<Named(held[i].name), q, x>>
    BY <2>2
  <2>3. CASE \E m, d : IsPart(m, d, held[i], start[i], at(i)) /\ u \in d
    <3>1. PICK m, d : IsPart(m, d, held[i], start[i], at(i)) /\ u \in d
      BY <2>3
    <3>2. u = <<Bnode(m), u[2], u[3]>>
      BY <1>4, <3>1
    <3>3. PICK b, y, z : b = Bnode(m) /\ y = u[2] /\ z = u[3] /\ u = <<b, y, z>>
      BY <3>2
    <3> QED
      BY <3>3
  <2> QED
    BY <2>1, <2>2, <2>3
<1>7. ASSUME NEW i \in Own(held), NEW m, NEW d, IsPart(m, d, held[i], start[i], at(i))
      PROVE  SameOf(g, d, Bnode(m))
  <2> SUFFICES ASSUME NEW q, NEW x PROVE <<Bnode(m), q, x>> \in g <=> <<Bnode(m), q, x>> \in d
    BY DEF SameOf
  <2>1. PICK u : u = <<Bnode(m), q, x>>
    OBVIOUS
  <2>2. ASSUME u \in d PROVE u \in g
    BY <1>3, <1>7, <2>2
  <2>3. ASSUME u \in g PROVE u \in d
    <3>1. PICK j \in Own(held) : \/ \E y, z : u = <<Named(held[j].name), y, z>> /\ SaysOf(held[j], start[j], at(j), y, z)
                                 \/ \E k, e : IsPart(k, e, held[j], start[j], at(j)) /\ u \in e
      BY <1>3, <2>3
    <3>2. ~ \E y, z : u = <<Named(held[j].name), y, z>>
      BY <2>1, SubjectsApart
    <3>3. PICK k, e : IsPart(k, e, held[j], start[j], at(j)) /\ u \in e
      BY <3>1, <3>2
    <3>4. u = <<Bnode(k), u[2], u[3]>>
      BY <1>4, <3>3
    <3>5. Bnode(k) = Bnode(m)
      BY <2>1, <3>4
    <3>6. k = m
      BY <3>5, SubjectsApart
    <3> QED
      BY <1>5, <1>7, <3>3, <3>6
  <2> QED
    BY <2>1, <2>2, <2>3
<1>8. ASSUME NEW n, NEW q, NEW x
      PROVE  <<Named(n), q, x>> \in g <=> \E i \in Own(held) : held[i].name = n /\ SaysOf(held[i], start[i], at(i), q, x)
  <2>1. PICK u : u = <<Named(n), q, x>>
    OBVIOUS
  <2>2. ASSUME u \in g PROVE \E i \in Own(held) : held[i].name = n /\ SaysOf(held[i], start[i], at(i), q, x)
    <3>1. PICK j \in Own(held) : \/ \E y, z : u = <<Named(held[j].name), y, z>> /\ SaysOf(held[j], start[j], at(j), y, z)
                                 \/ \E k, e : IsPart(k, e, held[j], start[j], at(j)) /\ u \in e
      BY <1>3, <2>2
    <3>2. ASSUME NEW k, NEW e, IsPart(k, e, held[j], start[j], at(j)), u \in e PROVE FALSE
      <4>1. u = <<Bnode(k), u[2], u[3]>>
        BY <1>4, <3>2
      <4>2. Bnode(k) = Named(n)
        BY <2>1, <4>1
      <4> QED
        BY <4>2, SubjectsApart
    <3>3. PICK y, z : u = <<Named(held[j].name), y, z>> /\ SaysOf(held[j], start[j], at(j), y, z)
      BY <3>1, <3>2
    <3>4. Named(held[j].name) = Named(n) /\ y = q /\ z = x
      BY <2>1, <3>3
    <3>5. held[j].name = n
      BY <3>4, SubjectsApart
    <3> QED
      BY <3>3, <3>4, <3>5
  <2>3. ASSUME NEW i \in Own(held), held[i].name = n, SaysOf(held[i], start[i], at(i), q, x)
        PROVE  u \in g
    <3>1. u = <<Named(held[i].name), q, x>>
      BY <2>1, <2>3
    <3> QED
      BY <1>3, <2>3, <3>1
  <2> QED
    BY <2>1, <2>2, <2>3
<1>9. ASSUME NEW m, NEW x, <<Bnode(m), RdfType, x>> \in g
      PROVE  x # Vocab("Template")
  <2>1. PICK u : u = <<Bnode(m), RdfType, x>>
    OBVIOUS
  <2>2. PICK j \in Own(held) : \/ \E y, z : u = <<Named(held[j].name), y, z>> /\ SaysOf(held[j], start[j], at(j), y, z)
                               \/ \E k, e : IsPart(k, e, held[j], start[j], at(j)) /\ u \in e
    BY <1>3, <1>9, <2>1
  <2>3. ~ \E y, z : u = <<Named(held[j].name), y, z>>
    BY <2>1, SubjectsApart
  <2>4. PICK k, e : IsPart(k, e, held[j], start[j], at(j)) /\ u \in e
    BY <2>2, <2>3
  <2>5. u = <<Bnode(k), u[2], u[3]>>
    BY <1>4, <2>4
  <2>6. Bnode(k) = Bnode(m)
    BY <2>1, <2>5
  <2>7. k = m
    BY <2>6, SubjectsApart
  <2> QED
    BY <1>4, <2>1, <2>4, <2>7
<1>10. Triples(g)
  BY <1>6 DEF Triples
<1> QED
  BY <1>1, <1>6, <1>7, <1>8, <1>9, <1>10 DEF Says, at

\* Parameters are told, and found by the name of their template.
LEMMA ParametersTold ==
  ASSUME NEW held, NEW ts, Lists(held, ts), NEW start, NEW g, Says(g, held, start),
         NEW n \in DOMAIN ts, n # OttrTriple
  PROVE  ParameterFacts(g, n) = {ParameterTold(ts[n].params[k], k - 1) : k \in DOMAIN ts[n].params}
<1>0. PICK hp : hp = Vocab("hasParameter")
  OBVIOUS
<1>1. \A x : x \in Objects(g, Named(n), "hasParameter") <=>
        \E i \in Own(held) : held[i].name = n /\ \E k \in DOMAIN held[i].params : x = Bnode(start[i] + k - 1)
  <2> TAKE x
  <2>1. x \in Objects(g, Named(n), "hasParameter") <=> <<Named(n), Vocab("hasParameter"), x>> \in g
    BY ObjectsAre DEF Says
  <2>2. <<Named(n), Vocab("hasParameter"), x>> \in g <=>
          \E i \in Own(held) : held[i].name = n
                               /\ SaysOf(held[i], start[i], InstanceStarts(held[i], start[i]), Vocab("hasParameter"), x)
    BY DEF Says
  <2>3. \A t, first, at : SaysOf(t, first, at, Vocab("hasParameter"), x) <=> \E k \in DOMAIN t.params : x = Bnode(first + k - 1)
    BY VocabApart DEF SaysOf
  <2> QED
    BY <2>1, <2>2, <2>3
<1>2. ASSUME NEW i \in Own(held), held[i].name = n, NEW k \in DOMAIN held[i].params
      PROVE  Read(g, Bnode(start[i] + k - 1), ParameterParts) = ParameterTold(ts[n].params[k], k - 1)
  <2>1. PICK t, first, at, m, p, j : /\ t = held[i] /\ first = start[i] /\ at = InstanceStarts(t, first)
                                     /\ m = first + k - 1 /\ p = t.params[k] /\ j = k - 1
    OBVIOUS
  <2>2. t = ts[n]
    BY <1>2, <2>1 DEF Lists, Own
  <2>3. IsPart(m, DescribeParameter(p, j, Bnode(m)), t, first, at)
    BY <1>2, <2>1 DEF IsPart, IsParameter
  <2>4. SameOf(g, DescribeParameter(p, j, Bnode(m)), Bnode(m))
    BY <1>2, <2>1, <2>3 DEF Says
  <2>5. Read(g, Bnode(m), ParameterParts) = ParameterTold(p, j)
    BY <2>4, ParameterRead DEF Says
  <2> QED
    BY <2>1, <2>2, <2>5
<1>3. PICK i \in Own(held) : held[i].name = n
  BY DEF Lists, Own
<1>4. \A j \in Own(held) : held[j].name = n => DOMAIN held[j].params = DOMAIN ts[n].params
  BY DEF Lists, Own
<1>5. \A r : r \in ParameterFacts(g, n) <=> \E x \in Objects(g, Named(n), "hasParameter") : r = Read(g, x, ParameterParts)
  BY DEF ParameterFacts
<1>6. ASSUME NEW r \in ParameterFacts(g, n)
      PROVE  \E k \in DOMAIN ts[n].params : r = ParameterTold(ts[n].params[k], k - 1)
  <2>1. PICK x \in Objects(g, Named(n), "hasParameter") : r = Read(g, x, ParameterParts)
    BY <1>5
  <2>2. PICK j \in Own(held) : held[j].name = n /\ \E k \in DOMAIN held[j].params : x = Bnode(start[j] + k - 1)
    BY <1>1, <2>1
  <2>3. PICK k \in DOMAIN held[j].params : x = Bnode(start[j] + k - 1)
    BY <2>2
  <2> QED
    BY <1>2, <1>4, <2>1, <2>2, <2>3
<1>7. ASSUME NEW k \in DOMAIN ts[n].params
      PROVE  ParameterTold(ts[n].params[k], k - 1) \in ParameterFacts(g, n)
  <2>1. PICK x : x = Bnode(start[i] + k - 1)
    OBVIOUS
  <2>2. k \in DOMAIN held[i].params
    BY <1>3, <1>4
  <2>3. x \in Objects(g, Named(n), "hasParameter")
    BY <1>1, <1>3, <2>1, <2>2
  <2>4. Read(g, x, ParameterParts) = ParameterTold(ts[n].params[k], k - 1)
    BY <1>2, <1>3, <2>1, <2>2
  <2> QED
    BY <1>5, <2>3, <2>4
<1> QED
  BY <1>6, <1>7

\* Instances are told with their arguments.
LEMMA InstancesTold ==
  ASSUME NEW held, NEW ts, Lists(held, ts), NEW start, NEW g, Says(g, held, start),
         NEW n \in DOMAIN ts, n # OttrTriple
  PROVE  InstanceFacts(g, n) = {InstanceTold(ts[n].body[k], k - 1) : k \in DOMAIN ts[n].body}
<1>1. \A x : x \in Objects(g, Named(n), "hasInstance") <=>
        \E i \in Own(held) : held[i].name = n
                             /\ \E k \in DOMAIN held[i].body : x = Bnode(InstanceStarts(held[i], start[i])[k])
  <2> TAKE x
  <2>1. x \in Objects(g, Named(n), "hasInstance") <=> <<Named(n), Vocab("hasInstance"), x>> \in g
    BY ObjectsAre DEF Says
  <2>2. <<Named(n), Vocab("hasInstance"), x>> \in g <=>
          \E i \in Own(held) : held[i].name = n
                               /\ SaysOf(held[i], start[i], InstanceStarts(held[i], start[i]), Vocab("hasInstance"), x)
    BY DEF Says
  <2>3. \A t, first, at : SaysOf(t, first, at, Vocab("hasInstance"), x) <=> \E k \in DOMAIN t.body : x = Bnode(at[k])
    BY VocabApart DEF SaysOf
  <2> QED
    BY <2>1, <2>2, <2>3
<1> DEFINE Facts(x) == <<Read(g, x, InstanceParts), ArgumentFacts(g, x)>>
<1>2. ASSUME NEW i \in Own(held), held[i].name = n, NEW k \in DOMAIN held[i].body
      PROVE  Facts(Bnode(InstanceStarts(held[i], start[i])[k])) = InstanceTold(ts[n].body[k], k - 1)
  <2>1. PICK t, first, at, m, inst, j : /\ t = held[i] /\ first = start[i] /\ at = InstanceStarts(t, first)
                                        /\ m = at[k] /\ inst = t.body[k] /\ j = k - 1
    OBVIOUS
  <2>2. t = ts[n]
    BY <1>2, <2>1 DEF Lists, Own
  <2>3. IsPart(m, OwnOf(inst, j, m), t, first, at)
    BY <1>2, <2>1 DEF IsPart, IsInstance
  <2>4. SameOf(g, OwnOf(inst, j, m), Bnode(m)) /\ Triples(g)
    BY <1>2, <2>1, <2>3 DEF Says
  <2>5. /\ Read(g, Bnode(m), InstanceParts) = InstanceTold(inst, j)[1]
        /\ Objects(g, Bnode(m), "hasArgument") = {Bnode(m + a) : a \in DOMAIN inst.args}
    BY <2>4, InstanceRead
  <2>6. ASSUME NEW a \in DOMAIN inst.args
        PROVE  Read(g, Bnode(m + a), ArgumentParts) = ArgumentTold(inst.args[a], a - 1)
    <3>1. PICK arg, l, c : arg = inst.args[a] /\ l = m + a /\ c = a - 1
      OBVIOUS
    <3>2. IsPart(l, DescribeArgument(arg, c, Bnode(l)), t, first, at)
      BY <1>2, <2>1, <2>6, <3>1 DEF IsPart, IsArgument
    <3>3. SameOf(g, DescribeArgument(arg, c, Bnode(l)), Bnode(l))
      BY <1>2, <2>1, <3>2 DEF Says
    <3>4. Read(g, Bnode(l), ArgumentParts) = ArgumentTold(arg, c)
      BY <2>4, <3>3, ArgumentRead
    <3> QED
      BY <3>1, <3>4
  <2>7. ArgumentFacts(g, Bnode(m)) = {ArgumentTold(inst.args[a], a - 1) : a \in DOMAIN inst.args}
    <3>1. \A r : r \in ArgumentFacts(g, Bnode(m)) <=> \E a \in DOMAIN inst.args : r = Read(g, Bnode(m + a), ArgumentParts)
      BY <2>5 DEF ArgumentFacts
    <3> QED
      BY <2>6, <3>1
  <2>8. InstanceTold(inst, j) = <<InstanceTold(inst, j)[1], {ArgumentTold(inst.args[a], a - 1) : a \in DOMAIN inst.args}>>
    BY DEF InstanceTold
  <2>9. Facts(Bnode(m)) = InstanceTold(inst, j)
    BY <2>5, <2>7, <2>8
  <2> HIDE DEF Facts
  <2> QED
    BY <2>1, <2>2, <2>9
<1>3. PICK i \in Own(held) : held[i].name = n
  BY DEF Lists, Own
<1>4. \A j \in Own(held) : held[j].name = n => DOMAIN held[j].body = DOMAIN ts[n].body
  BY DEF Lists, Own
<1>5. \A r : r \in InstanceFacts(g, n) <=> \E x \in Objects(g, Named(n), "hasInstance") : r = Facts(x)
  BY DEF InstanceFacts
<1> HIDE DEF Facts
<1>6. ASSUME NEW r \in InstanceFacts(g, n)
      PROVE  \E k \in DOMAIN ts[n].body : r = InstanceTold(ts[n].body[k], k - 1)
  <2>1. PICK x \in Objects(g, Named(n), "hasInstance") : r = Facts(x)
    BY <1>5
  <2>2. PICK j \in Own(held) : held[j].name = n
                               /\ \E k \in DOMAIN held[j].body : x = Bnode(InstanceStarts(held[j], start[j])[k])
    BY <1>1, <2>1
  <2>3. PICK k \in DOMAIN held[j].body : x = Bnode(InstanceStarts(held[j], start[j])[k])
    BY <2>2
  <2> QED
    BY <1>2, <1>4, <2>1, <2>2, <2>3
<1>7. ASSUME NEW k \in DOMAIN ts[n].body
      PROVE  InstanceTold(ts[n].body[k], k - 1) \in InstanceFacts(g, n)
  <2>1. PICK x : x = Bnode(InstanceStarts(held[i], start[i])[k])
    OBVIOUS
  <2>2. k \in DOMAIN held[i].body
    BY <1>3, <1>4
  <2>3. x \in Objects(g, Named(n), "hasInstance")
    BY <1>1, <1>3, <2>1, <2>2
  <2>4. Facts(x) = InstanceTold(ts[n].body[k], k - 1)
    BY <1>2, <1>3, <2>1, <2>2
  <2> QED
    BY <1>5, <2>3, <2>4
<1> QED
  BY <1>6, <1>7

\* The graph of a list of templates tells them all and no others.
LEMMA TemplatesTold ==
  ASSUME NEW held, NEW ts, Lists(held, ts)
  PROVE  Tells(TemplatesToTriples(held), ts)
<1>1. PICK g, start : g = TemplatesToTriples(held) /\ start = Starts(0, [i \in DOMAIN held |-> TemplateSize(held[i])])
  OBVIOUS
<1>2. Says(g, held, start)
  BY <1>1, TemplatesSay DEF Lists
<1>3. Described(g) = {Named(n) : n \in DOMAIN ts \ {OttrTriple}}
  <2>1. ASSUME NEW s \in Described(g)
        PROVE  \E n \in DOMAIN ts \ {OttrTriple} : s = Named(n)
    <3>1. PICK u \in g : u[1] = s /\ u[2] = RdfType /\ u[3] = Vocab("Template")
      BY DEF Described
    <3>2. <<s, RdfType, Vocab("Template")>> \in g
      BY <1>2, <3>1 DEF Says, Triples
    <3>3. PICK n : s = Named(n)
      BY <1>2, <3>1, <3>2 DEF Says
    <3>4. PICK i \in Own(held) : held[i].name = n
      BY <1>2, <3>2, <3>3 DEF Says
    <3> QED
      BY <3>3, <3>4 DEF Lists, Own
  <2>2. ASSUME NEW n \in DOMAIN ts \ {OttrTriple}
        PROVE  Named(n) \in Described(g)
    <3>1. PICK i \in Own(held) : held[i].name = n
      BY DEF Lists, Own
    <3>2. \A t, first, at : SaysOf(t, first, at, RdfType, Vocab("Template"))
      BY DEF SaysOf
    <3>3. <<Named(n), RdfType, Vocab("Template")>> \in g
      BY <1>2, <3>1, <3>2 DEF Says
    <3>4. PICK u : u = <<Named(n), RdfType, Vocab("Template")>>
      OBVIOUS
    <3>5. u \in g /\ u[1] = Named(n) /\ u[2] = RdfType /\ u[3] = Vocab("Template")
      BY <3>3, <3>4
    <3> QED
      BY <3>5 DEF Described
  <2> QED
    BY <2>1, <2>2
<1>4. \A n \in DOMAIN ts \ {OttrTriple} :
        /\ ParameterFacts(g, n) = {ParameterTold(ts[n].params[k], k - 1) : k \in DOMAIN ts[n].params}
        /\ InstanceFacts(g, n) = {InstanceTold(ts[n].body[k], k - 1) : k \in DOMAIN ts[n].body}
  BY <1>2, ParametersTold, InstancesTold
<1> QED
  BY <1>1, <1>3, <1>4 DEF Tells

-----------------------------------------------------------------------------
(* The templates that a model holds.                                       *)

\* A set of templates by their names, and what is known of their order.
Library(ts)     == IsFiniteSet(DOMAIN ts) /\ \A n \in DOMAIN ts : ts[n].name = n /\ IsTemplate(ts[n])
Held(ts, known) == Library(ts) /\ known \in Seq(DOMAIN ts)

\* Every order names all templates, and no others.
LEMMA OrdersAre ==
  ASSUME NEW ts, NEW known, Held(ts, known), NEW names \in Orders(ts, known)
  PROVE  names \in Seq(DOMAIN ts) /\ \A n \in DOMAIN ts : \E i \in DOMAIN names : names[i] = n
<1>1. PICK S : S = DOMAIN ts \ ToSet(known)
  OBVIOUS
<1>2. IsFiniteSet(S) /\ S \subseteq DOMAIN ts
  BY <1>1, FS_Subset DEF Held, Library
<1>3. PICK s \in SetToSeqs(S) : names = s \o known
  BY <1>1 DEF Orders
<1>4. PICK c : c = Cardinality(S)
  OBVIOUS
<1>5. c \in Nat
  BY <1>2, <1>4, FS_CardinalityType
<1>6. s \in [1..c -> S] /\ \A i, j \in 1..c : i # j => s[i] # s[j]
  BY <1>3, <1>4 DEF SetToSeqs
<1>7. s \in Injection(1..c, S)
  BY <1>6 DEF Injection, IsInjective
<1>8. IsFiniteSet(1..c) /\ Cardinality(1..c) = c
  BY <1>5, FS_Interval
<1>9. s \in Surjection(1..c, S)
  BY <1>2, <1>4, <1>7, <1>8, FS_Injection
<1>10. \A x \in S : \E i \in 1..c : s[i] = x
  BY <1>9 DEF Surjection
<1>11. s \in Seq(DOMAIN ts) /\ Len(s) = c
  BY <1>2, <1>5, <1>6
<1>12. known \in Seq(DOMAIN ts)
  BY DEF Held
<1>13. names \in Seq(DOMAIN ts) /\ Len(names) = c + Len(known)
       /\ \A i \in 1..Len(names) : names[i] = IF i <= c THEN s[i] ELSE known[i - c]
  <2>1. names \in Seq(DOMAIN ts)
    BY <1>3, <1>11, <1>12
  <2>2. Len(names) = c + Len(known) /\ \A i \in 1..Len(names) : names[i] = IF i <= c THEN s[i] ELSE known[i - c]
    <3>1. PICK T : T = DOMAIN ts
      OBVIOUS
    <3>2. s \in Seq(T) /\ known \in Seq(T)
      BY <1>11, <1>12, <3>1
    <3>3. /\ Len(s \o known) = Len(s) + Len(known)
          /\ \A i \in 1..Len(s) + Len(known) : (s \o known)[i] = IF i <= Len(s) THEN s[i] ELSE known[i - Len(s)]
      BY <3>2, ConcatProperties
    <3> QED
      BY <1>3, <1>11, <3>3
  <2> QED
    BY <2>1, <2>2
<1>14. ASSUME NEW n \in DOMAIN ts
       PROVE  \E i \in DOMAIN names : names[i] = n
  <2>1. CASE n \in S
    <3>1. PICK i \in 1..c : s[i] = n
      BY <1>10, <2>1
    <3>2. i \in DOMAIN names /\ names[i] = s[i]
      BY <1>5, <1>12, <1>13
    <3> QED
      BY <3>1, <3>2
  <2>2. CASE n \in ToSet(known)
    <3>1. PICK j \in DOMAIN known : known[j] = n
      BY <2>2 DEF ToSet
    <3>2. j \in 1..Len(known) /\ Len(known) \in Nat
      BY <1>12
    <3>3. PICK i : i = c + j
      OBVIOUS
    <3>4. i \in 1..Len(names) /\ ~(i <= c) /\ i - c = j
      BY <1>5, <1>13, <3>2, <3>3
    <3>5. names[i] = known[j] /\ i \in DOMAIN names
      BY <1>13, <3>4
    <3> QED
      BY <3>1, <3>5
  <2> QED
    BY <1>1, <2>1, <2>2
<1> QED
  BY <1>13, <1>14

\* So the graph made of them, in any order, tells them all.
LEMMA OrderTold ==
  ASSUME NEW ts, NEW known, Held(ts, known), NEW names \in Orders(ts, known)
  PROVE  Tells(TemplatesToTriples([i \in DOMAIN names |-> ts[names[i]]]), ts)
<1>1. PICK held : held = [i \in DOMAIN names |-> ts[names[i]]]
  OBVIOUS
<1>2. names \in Seq(DOMAIN ts) /\ \A n \in DOMAIN ts : \E i \in DOMAIN names : names[i] = n
  BY OrdersAre
<1>3. DOMAIN names = 1..Len(names) /\ Len(names) \in Nat /\ \A i \in DOMAIN names : names[i] \in DOMAIN ts
  BY <1>2
<1>4. DOMAIN held = 1..Len(names) /\ held \in [1..Len(names) -> ToSet(held)]
  BY <1>1, <1>3 DEF ToSet
<1>5. IsVector(held)
  BY <1>3, <1>4 DEF IsVector
<1>6. \A i \in DOMAIN held : held[i] = ts[names[i]] /\ names[i] \in DOMAIN ts
  BY <1>1, <1>3
<1>7. \A i \in DOMAIN held : held[i].name = names[i] /\ IsTemplate(held[i])
  BY <1>6 DEF Held, Library
<1>8. Lists(held, ts)
  BY <1>1, <1>2, <1>5, <1>6, <1>7 DEF Lists
<1> QED
  BY <1>1, <1>8, TemplatesTold

\* Templates that are added, in the order they come in.
AreTemplates(new) == IsVector(new) /\ \A i \in DOMAIN new : IsTemplate(new[i])

\* They are put to the others; the last one of a name stays.
LEMMA PutIs ==
  ASSUME NEW ts, Library(ts), NEW new, AreTemplates(new)
  PROVE  Library(Put(ts, new)) /\ DOMAIN Put(ts, new) = DOMAIN ts \cup {new[i].name : i \in DOMAIN new}
<1> DEFINE Of(n) == {i \in DOMAIN new : new[i].name = n}
<1>1. PICK put : put = Put(ts, new)
  OBVIOUS
<1>2. put = [n \in DOMAIN ts \cup {new[i].name : i \in DOMAIN new} |-> IF Of(n) = {} THEN ts[n] ELSE new[Highest(Of(n))]]
  BY <1>1 DEF Put
<1>3. DOMAIN put = DOMAIN ts \cup {new[i].name : i \in DOMAIN new}
  BY <1>2
<1>4. Len(new) \in Nat /\ DOMAIN new = 1..Len(new)
  BY DEF AreTemplates, IsVector
<1>5. ASSUME NEW n \in DOMAIN put
      PROVE  put[n].name = n /\ IsTemplate(put[n])
  <2>1. CASE Of(n) = {}
    <3>1. n \in DOMAIN ts /\ put[n] = ts[n]
      BY <1>2, <1>3, <2>1
    <3> QED
      BY <3>1 DEF Library
  <2>2. CASE Of(n) # {}
    <3>1. PICK T : T = Of(n)
      OBVIOUS
    <3>2. T \in SUBSET Nat /\ \A x \in T : x <= Len(new)
      BY <1>4, <3>1
    <3>3. Highest(T) \in T
      BY <1>4, <2>2, <3>1, <3>2, HighestIs
    <3>4. put[n] = new[Highest(T)]
      BY <1>2, <1>3, <2>2, <3>1
    <3> QED
      BY <3>1, <3>3, <3>4 DEF AreTemplates
  <2> QED
    BY <2>1, <2>2
<1>6. IsFiniteSet(DOMAIN put)
  <2>1. PICK T, f : T = {new[i].name : i \in DOMAIN new} /\ f = [i \in 1..Len(new) |-> new[i].name]
    OBVIOUS
  <2>2. f \in Surjection(1..Len(new), T)
    BY <1>4, <2>1 DEF Surjection
  <2>3. IsFiniteSet(1..Len(new))
    BY <1>4, FS_Interval
  <2>4. IsFiniteSet(T)
    BY <2>2, <2>3, FS_Surjection
  <2>5. IsFiniteSet(DOMAIN ts) /\ DOMAIN put = DOMAIN ts \cup T
    BY <1>3, <2>1 DEF Library
  <2>6. IsFiniteSet(DOMAIN ts \cup T)
    BY <2>4, <2>5, FS_Union
  <2> QED
    BY <2>5, <2>6
<1> QED
  BY <1>1, <1>3, <1>5, <1>6 DEF Library

\* The one that was moved comes last.
LEMMA MovedLastIs ==
  ASSUME NEW V, NEW known \in Seq(V), NEW n \in V
  PROVE  MovedLast(known, n) \in Seq(V)
<1> DEFINE at == {i \in DOMAIN known : known[i] = n}
<1>1. CASE at = {}
  BY <1>1 DEF MovedLast
<1>2. CASE at # {}
  <2>1. PICK i : i = CHOOSE k \in at : TRUE
    OBVIOUS
  <2>2. i \in at
    BY <1>2, <2>1
  <2>3. i \in 1..Len(known) /\ Len(known) \in Nat
    BY <2>2
  <2>4. MovedLast(known, n) = Append(RemoveAt(known, i), n)
    BY <1>2, <2>1 DEF MovedLast
  <2>5. SubSeq(known, 1, i - 1) \in Seq(V) /\ SubSeq(known, i + 1, Len(known)) \in Seq(V)
    BY <2>3
  <2>6. RemoveAt(known, i) \in Seq(V)
    BY <2>5 DEF RemoveAt
  <2> QED
    BY <2>4, <2>6
<1> QED
  BY <1>1, <1>2

\* Of the templates that are added, all come last.
LEMMA AllMovedLastIs ==
  ASSUME NEW V, NEW known \in Seq(V), NEW new, IsVector(new), \A i \in DOMAIN new : new[i].name \in V
  PROVE  AllMovedLast(known, new) \in Seq(V)
<1> DEFINE n == Len(new)
           next(x) == IF x[1] + 1 \in 1..n THEN MovedLast(x[2], new[x[1] + 1].name) ELSE x[2]
           step == [x \in Nat \X Seq(V) |-> next(x)]
           body(u) == [i \in 0..n |-> IF i = 0 THEN known ELSE MovedLast(u[i - 1], new[i].name)]
<1>1. n \in Nat /\ DOMAIN new = 1..n
  BY DEF IsVector
<1>2. step \in [Nat \X Seq(V) -> Seq(V)]
  <2> SUFFICES ASSUME NEW k \in Nat, NEW s \in Seq(V) PROVE next(<<k, s>>) \in Seq(V)
    OBVIOUS
  <2>1. CASE k + 1 \in 1..n
    <3>1. new[k + 1].name \in V
      BY <1>1, <2>1
    <3>2. MovedLast(s, new[k + 1].name) \in Seq(V)
      BY <3>1, MovedLastIs
    <3> QED
      BY <2>1, <3>2
  <2>2. CASE k + 1 \notin 1..n
    BY <2>2
  <2> QED
    BY <2>1, <2>2
<1>3. PICK f : Steps(Seq(V), known, step, f)
  <2> HIDE DEF step
  <2> QED
    BY <1>2, StepByStep
<1>4. f \in [Nat -> Seq(V)] /\ f[0] = known /\ \A k \in Nat : f[k + 1] = step[<<k, f[k]>>]
  BY <1>3 DEF Steps
<1> DEFINE g == [i \in 0..n |-> f[i]]
<1>5. g = body(g)
  <2>1. ASSUME NEW i \in 0..n
        PROVE  g[i] = IF i = 0 THEN known ELSE MovedLast(g[i - 1], new[i].name)
    <3>1. CASE i = 0
      BY <1>1, <1>4, <3>1
    <3>2. CASE i # 0
      <4>1. i - 1 \in Nat /\ i - 1 \in 0..n /\ (i - 1) + 1 = i /\ i \in 1..n
        BY <1>1, <3>2
      <4>2. f[i] = step[<<i - 1, f[i - 1]>>] /\ f[i - 1] \in Seq(V)
        <5>1. PICK j : j = i - 1
          OBVIOUS
        <5>2. j \in Nat /\ j + 1 = i
          BY <4>1, <5>1
        <5>3. f[j + 1] = step[<<j, f[j]>>] /\ f[j] \in Seq(V)
          <6> HIDE DEF step
          <6> QED
            BY <1>4, <5>2
        <5> HIDE DEF step
        <5> QED
          BY <5>1, <5>2, <5>3
      <4>3. step[<<i - 1, f[i - 1]>>] = MovedLast(f[i - 1], new[i].name)
        BY <4>1, <4>2
      <4> QED
        BY <3>2, <4>1, <4>2, <4>3
    <3> QED
      BY <3>1, <3>2
  <2> QED
    BY <2>1
<1>6. PICK moved : moved = CHOOSE u : u = body(u)
  OBVIOUS
<1>7. AllMovedLast(known, new) = moved[n]
  BY <1>6 DEF AllMovedLast
<1>8. moved = body(moved)
  <2> HIDE DEF body, g
  <2> QED
    BY <1>5, <1>6
<1>9. \A i \in 0..n : moved[i] \in Seq(V)
  <2> DEFINE Bad == {k \in 0..n : moved[k] \notin Seq(V)}
  <2> SUFFICES ASSUME Bad # {} PROVE FALSE
    OBVIOUS
  <2>1. PICK k \in Bad : \A m \in Bad : k <= m
    <3>1. Bad \in SUBSET Nat
      BY <1>1
    <3> HIDE DEF Bad
    <3> QED
      BY <3>1, LeastExists
  <2>2. k \in 0..n /\ moved[k] \notin Seq(V)
    BY <2>1
  <2>3. moved[k] = IF k = 0 THEN known ELSE MovedLast(moved[k - 1], new[k].name)
    BY <1>8, <2>2
  <2>4. k # 0
    BY <2>2, <2>3
  <2>5. k - 1 \in 0..n /\ k \in 1..n /\ ~(k <= k - 1)
    BY <1>1, <2>2, <2>4
  <2>6. moved[k - 1] \in Seq(V)
    BY <2>1, <2>5
  <2>7. new[k].name \in V
    BY <1>1, <2>5
  <2> QED
    BY <2>2, <2>3, <2>4, <2>6, <2>7, MovedLastIs
<1> QED
  BY <1>1, <1>7, <1>9

-----------------------------------------------------------------------------
(* Inference, one template at a time.                                      *)

\* The first of some uses is one of them (the loops of infer_template_types).
LEMMA FirstUse ==
  ASSUME NEW t, IsTemplate(t), NEW T \in SUBSET Uses(t), T # {}
  PROVE  (CHOOSE u \in T : \A w \in T : NotAfter(u, w)) \in T
<1>1. \A u \in T : u[1] \in Nat /\ u[2] \in Nat /\ u[3] \in Nat
  <2> TAKE u \in T
  <2>1. PICK i \in DOMAIN t.body : u \in {i} \X (DOMAIN t.body[i].args) \X (DOMAIN t.params)
    BY DEF Uses
  <2>2. \A s : IsVector(s) => DOMAIN s \subseteq Nat
    BY DEF IsVector
  <2>3. DOMAIN t.body \subseteq Nat /\ DOMAIN t.body[i].args \subseteq Nat /\ DOMAIN t.params \subseteq Nat
    BY <2>2 DEF IsTemplate
  <2> QED
    BY <2>1, <2>3
<1> DEFINE Firsts == {u[1] : u \in T}
<1>2. PICK a \in Firsts : \A x \in Firsts : a <= x
  <2>1. Firsts \in SUBSET Nat /\ Firsts # {}
    BY <1>1
  <2> HIDE DEF Firsts
  <2> QED
    BY <2>1, LeastExists
<1> DEFINE Seconds == {u[2] : u \in {v \in T : v[1] = a}}
<1>3. PICK b \in Seconds : \A x \in Seconds : b <= x
  <2>1. Seconds \in SUBSET Nat /\ Seconds # {}
    BY <1>1, <1>2
  <2> HIDE DEF Seconds
  <2> QED
    BY <2>1, LeastExists
<1> DEFINE Third == {u[3] : u \in {v \in T : v[1] = a /\ v[2] = b}}
<1>4. PICK c \in Third : \A x \in Third : c <= x
  <2>1. Third \in SUBSET Nat /\ Third # {}
    BY <1>1, <1>3
  <2> HIDE DEF Third
  <2> QED
    BY <2>1, LeastExists
<1>5. PICK u \in T : u[1] = a /\ u[2] = b /\ u[3] = c
  BY <1>4
<1>6. ASSUME NEW w \in T
      PROVE  NotAfter(u, w)
  <2>1. a <= w[1] /\ a \in Nat /\ w[1] \in Nat
    BY <1>1, <1>2, <1>5
  <2>2. w[1] = a => b <= w[2] /\ b \in Nat /\ w[2] \in Nat
    BY <1>1, <1>3, <1>5
  <2>3. w[1] = a /\ w[2] = b => c <= w[3]
    BY <1>4
  <2> QED
    BY <1>5, <2>1, <2>2, <2>3 DEF NotAfter
<1> QED
  BY <1>6

\* Two templates alike in all but the types of their parameters.
SameButTypes(t, s) ==
  /\ t.name = s.name
  /\ t.body = s.body
  /\ DOMAIN t.params = DOMAIN s.params
  /\ \A i \in DOMAIN s.params : /\ t.params[i].v = s.params[i].v
                                /\ t.params[i].optional = s.params[i].optional
                                /\ t.params[i].default = s.params[i].default
\* One parameter of a template with another type.
Retyped(t, k, type) == [t EXCEPT !.params[k].type = type]

\* That is again a template.
LEMMA RetypedIs ==
  ASSUME NEW t, IsTemplate(t), NEW k \in DOMAIN t.params, NEW type, NEW s, s = Retyped(t, k, type)
  PROVE  /\ IsTemplate(s) /\ SameButTypes(s, t)
         /\ s.params[k].type = type
         /\ \A i \in DOMAIN t.params : i # k => s.params[i] = t.params[i]
<1>1. PICK p : p = [t.params[k] EXCEPT !.type = type]
  OBVIOUS
<1>2. t.params[k] = [v |-> t.params[k].v, type |-> t.params[k].type, optional |-> t.params[k].optional, default |-> t.params[k].default]
  BY DEF IsTemplate, IsParam
<1>3. p = [v |-> t.params[k].v, type |-> type, optional |-> t.params[k].optional, default |-> t.params[k].default]
  BY <1>1, <1>2
<1>4. PICK ps : ps = [t.params EXCEPT ![k] = p]
  OBVIOUS
<1>5. t = [name |-> t.name, params |-> t.params, body |-> t.body]
  BY DEF IsTemplate, Template
<1>6. s = [t EXCEPT !.params = ps]
  BY <1>1, <1>4 DEF Retyped
<1>7. s = [name |-> t.name, params |-> ps, body |-> t.body]
  BY <1>5, <1>6
<1>8. s.name = t.name /\ s.params = ps /\ s.body = t.body
  BY <1>7
<1>9. IsVector(t.params) /\ DOMAIN ps = DOMAIN t.params /\ ps[k] = p /\ \A i \in DOMAIN t.params : i # k => ps[i] = t.params[i]
  BY <1>4 DEF IsTemplate
<1>10. IsVector(ps)
  <2>1. PICK n : n = Len(t.params) /\ n \in Nat /\ DOMAIN t.params = 1..n
    BY <1>9 DEF IsVector
  <2>2. ps \in [1..n -> ToSet(ps)]
    BY <1>4, <1>9, <2>1 DEF ToSet
  <2> QED
    BY <2>1, <2>2 DEF IsVector
<1>11. \A i \in DOMAIN ps : IsParam(ps[i])
  <2>1. IsParam(p)
    BY <1>3 DEF IsParam
  <2> QED
    BY <1>9, <2>1 DEF IsTemplate
<1>12. IsTemplate(s)
  BY <1>7, <1>8, <1>10, <1>11 DEF IsTemplate, Template
<1>13. SameButTypes(s, t)
  <2>1. p.v = t.params[k].v /\ p.optional = t.params[k].optional /\ p.default = t.params[k].default
    BY <1>3
  <2> QED
    BY <1>8, <1>9, <2>1 DEF SameButTypes
<1> QED
  BY <1>3, <1>8, <1>9, <1>12, <1>13

\* What one pass over a body may change: the type of one parameter, by a use
\* of it (infer_template_types).
LEMMA InferOne ==
  ASSUME NEW t, IsTemplate(t), NEW others, NEW r, r = InferTemplateTypes(t, others), r.ok
  PROVE  /\ IsTemplate(r.t) /\ SameButTypes(r.t, t)
         /\ \/ ~r.changed /\ r.t = t
            \/ /\ r.changed
               /\ \E u \in Uses(t) : /\ Has(others, t.body[u[1]].of)
                                     /\ Len(t.body[u[1]].args) = Len(others[t.body[u[1]].of].params)
                                     /\ TypeAfter(t, u, others) \notin {t.params[u[3]].type, Clash}
                                     /\ r.t = Retyped(t, u[3], TypeAfter(t, u, others))
<1> DEFINE callable == \A i \in DOMAIN t.body : /\ Has(others, t.body[i].of)
                                                /\ Len(t.body[i].args) = Len(others[t.body[i].of].params)
           news     == {u \in Uses(t) : TypeAfter(t, u, others) # t.params[u[3]].type}
           first    == CHOOSE u \in news : \A w \in news : NotAfter(u, w)
           type     == TypeAfter(t, first, others)
<1>1. ~Failed.ok
  BY DEF Failed
<1>2. callable
  BY <1>1, Zenon DEF InferTemplateTypes
<1>3. CASE news = {}
  <2>1. r = [ok |-> TRUE, t |-> t, changed |-> FALSE]
    BY <1>2, <1>3, Zenon DEF InferTemplateTypes
  <2>2. SameButTypes(t, t)
    BY DEF SameButTypes
  <2> QED
    BY <2>1, <2>2
<1>4. CASE news # {}
  <2>1. r = IF type = Clash THEN Failed
            ELSE [ok |-> TRUE, t |-> [t EXCEPT !.params[first[3]].type = type], changed |-> TRUE]
    BY <1>2, <1>4, Zenon DEF InferTemplateTypes
  <2>2. first \in news
    <3>1. news \in SUBSET Uses(t)
      OBVIOUS
    <3> HIDE DEF news
    <3> QED
      BY <1>4, <3>1, FirstUse
  <2>3. PICK u : u = first
    OBVIOUS
  <2>4. u \in Uses(t) /\ TypeAfter(t, u, others) # t.params[u[3]].type /\ u[1] \in DOMAIN t.body /\ u[3] \in DOMAIN t.params
    <3>1. u \in Uses(t) /\ TypeAfter(t, u, others) # t.params[u[3]].type
      BY <2>2, <2>3
    <3> QED
      BY <3>1 DEF Uses
  <2>5. PICK ty : ty = TypeAfter(t, u, others)
    OBVIOUS
  <2>6. ty # Clash /\ r = [ok |-> TRUE, t |-> Retyped(t, u[3], ty), changed |-> TRUE]
    BY <1>1, <2>1, <2>3, <2>5 DEF Retyped
  <2>7. IsTemplate(r.t) /\ SameButTypes(r.t, t)
    BY <2>4, <2>6, RetypedIs
  <2> QED
    BY <1>2, <2>4, <2>5, <2>6, <2>7
<1> QED
  BY <1>3, <1>4

-----------------------------------------------------------------------------
(* The types that templates give.                                          *)

\* They are found step by step.
LEMMA SourcesAre ==
  ASSUME NEW lib
  PROVE  /\ Sources(lib)[0] = Declared(lib)
         /\ \A n \in Nat : Sources(lib)[n + 1] = Deeper(lib, Sources(lib)[n])
<1> DEFINE Upto(n, g) == /\ g[0] = Declared(lib)
                         /\ \A k \in 0..(n - 1) : g[k + 1] = Deeper(lib, g[k])
           Missing == {n \in Nat : ~ \E g : Upto(n, g)}
           body(u) == [n \in Nat |-> IF n = 0 THEN Declared(lib) ELSE Deeper(lib, u[n - 1])]
<1>1. \A n \in Nat : \E g : Upto(n, g)
  <2> SUFFICES ASSUME Missing # {} PROVE FALSE
    OBVIOUS
  <2>1. PICK m \in Missing : \A k \in Missing : m <= k
    <3>1. Missing \in SUBSET Nat
      OBVIOUS
    <3> HIDE DEF Missing
    <3> QED
      BY <3>1, LeastExists
  <2>2. m \in Nat /\ ~ \E g : Upto(m, g)
    BY <2>1
  <2>3. CASE m = 0
    <3>1. Upto(0, [k \in 0..0 |-> Declared(lib)])
      OBVIOUS
    <3> QED
      BY <2>2, <2>3, <3>1
  <2>4. CASE m # 0
    <3>1. m - 1 \in Nat /\ m - 1 \notin Missing
      <4>1. m - 1 \in Nat /\ ~(m <= m - 1)
        BY <2>2, <2>4
      <4> QED
        BY <2>1, <4>1
    <3>2. PICK g : Upto(m - 1, g)
      BY <3>1
    <3> DEFINE h == [k \in 0..m |-> IF k = m THEN Deeper(lib, g[m - 1]) ELSE g[k]]
    <3>3. h[0] = Declared(lib)
      BY <2>2, <2>4, <3>2
    <3>4. \A k \in 0..(m - 1) : h[k + 1] = Deeper(lib, h[k])
      <4> TAKE k \in 0..(m - 1)
      <4>1. k \in 0..m /\ k + 1 \in 0..m /\ k # m
        BY <2>2
      <4>2. h[k] = g[k]
        BY <4>1
      <4>3. CASE k + 1 = m
        <5>1. k = m - 1 /\ h[m] = Deeper(lib, g[m - 1])
          BY <2>2, <4>1, <4>3
        <5> HIDE DEF h
        <5> QED
          BY <4>2, <4>3, <5>1
      <4>4. CASE k + 1 # m
        <5>1. k \in 0..((m - 1) - 1)
          BY <2>2, <4>4
        <5>2. h[k + 1] = g[k + 1]
          BY <4>1, <4>4
        <5> HIDE DEF h
        <5> QED
          BY <3>2, <4>2, <5>1, <5>2
      <4> QED
        BY <4>3, <4>4
    <3> HIDE DEF h
    <3>5. Upto(m, h)
      BY <3>3, <3>4
    <3> QED
      BY <2>2, <3>5
  <2> QED
    BY <2>3, <2>4
<1>2. ASSUME NEW n \in Nat, NEW g, Upto(n, g), NEW h, Upto(n + 1, h)
      PROVE  g[n] = h[n]
  <2> DEFINE Apart == {k \in 0..n : g[k] # h[k]}
  <2>1. CASE Apart = {}
    BY <2>1
  <2>2. CASE Apart # {}
    <3>1. PICK k \in Apart : \A j \in Apart : k <= j
      <4>1. Apart \in SUBSET Nat
        OBVIOUS
      <4> HIDE DEF Apart
      <4> QED
        BY <2>2, <4>1, LeastExists
    <3>2. k \in 0..n /\ g[k] # h[k] /\ k # 0
      BY <1>2, <3>1
    <3>3. k - 1 \in 0..n /\ k - 1 \in 0..(n - 1) /\ k - 1 \in 0..((n + 1) - 1) /\ (k - 1) + 1 = k /\ ~(k <= k - 1)
      BY <3>2
    <3>4. g[k - 1] = h[k - 1]
      BY <3>1, <3>3
    <3>5. g[k] = Deeper(lib, g[k - 1]) /\ h[k] = Deeper(lib, h[k - 1])
      BY <1>2, <3>3
    <3> QED
      BY <3>2, <3>4, <3>5
  <2> QED
    BY <2>1, <2>2
<1> DEFINE pick(n) == CHOOSE g : Upto(n, g)
           f == [n \in Nat |-> pick(n)[n]]
<1>3. \A n \in Nat : Upto(n, pick(n))
  <2> HIDE DEF Upto
  <2> QED
    BY <1>1
<1>4. f[0] = Declared(lib)
  <2>1. Upto(0, pick(0))
    BY <1>3
  <2> HIDE DEF pick
  <2> QED
    BY <2>1
<1>5. \A n \in Nat : f[n + 1] = Deeper(lib, f[n])
  <2> TAKE n \in Nat
  <2>1. Upto(n, pick(n)) /\ Upto(n + 1, pick(n + 1))
    <3> HIDE DEF Upto, pick
    <3> QED
      BY <1>3
  <2>2. pick(n)[n] = pick(n + 1)[n]
    <3> HIDE DEF pick, Upto
    <3> QED
      BY <1>2, <2>1
  <2>3. pick(n + 1)[n + 1] = Deeper(lib, pick(n + 1)[n])
    <3>1. n \in 0..((n + 1) - 1)
      OBVIOUS
    <3> HIDE DEF pick
    <3> QED
      BY <2>1, <3>1
  <2>4. f[n] = pick(n)[n] /\ f[n + 1] = pick(n + 1)[n + 1]
    <3> HIDE DEF pick
    <3> QED
      OBVIOUS
  <2> HIDE DEF f, pick
  <2> QED
    BY <2>2, <2>3, <2>4
<1>6. f = body(f)
  <2>1. ASSUME NEW n \in Nat
        PROVE  f[n] = (IF n = 0 THEN Declared(lib) ELSE Deeper(lib, f[n - 1]))
    <3>1. CASE n = 0
      BY <1>4, <3>1
    <3>2. CASE n # 0
      <4>1. n - 1 \in Nat /\ (n - 1) + 1 = n
        BY <3>2
      <4>2. f[(n - 1) + 1] = Deeper(lib, f[n - 1])
        <5> HIDE DEF f
        <5> QED
          BY <1>5, <4>1
      <4> HIDE DEF f
      <4> QED
        BY <3>2, <4>1, <4>2
    <3> QED
      BY <3>1, <3>2
  <2>2. f = [n \in Nat |-> f[n]]
    <3> HIDE DEF pick
    <3> QED
      OBVIOUS
  <2> HIDE DEF f
  <2> QED
    BY <2>1, <2>2
<1>7. Sources(lib) = CHOOSE u : u = body(u)
  BY DEF Sources
<1>8. PICK s : s = Sources(lib)
  OBVIOUS
<1>9. s = body(s)
  <2> HIDE DEF body, f
  <2> QED
    BY <1>6, <1>7, <1>8
<1>10. s[0] = Declared(lib)
  BY <1>9
<1>11. ASSUME NEW n \in Nat
       PROVE  s[n + 1] = Deeper(lib, s[n])
  <2>1. n + 1 \in Nat /\ n + 1 # 0 /\ (n + 1) - 1 = n
    OBVIOUS
  <2>2. s[n + 1] = Deeper(lib, s[(n + 1) - 1])
    BY <1>9, <2>1
  <2> QED
    BY <2>1, <2>2
<1> QED
  BY <1>8, <1>10, <1>11

\* What can be found from more templates and more types is more.
LEMMA DeeperRises ==
  ASSUME NEW a, NEW b, a \subseteq b, NEW F, NEW G, F \subseteq G
  PROVE  /\ Declared(a) \subseteq Declared(b)
         /\ PassedOn(a, F) \subseteq PassedOn(b, G)
         /\ Joined(F) \subseteq Joined(G)
         /\ Deeper(a, F) \subseteq Deeper(b, G)
<1>1. Declared(a) \subseteq Declared(b)
  BY DEF Declared
<1>2. PassedOn(a, F) \subseteq PassedOn(b, G)
  <2> SUFFICES ASSUME NEW x \in PassedOn(a, F) PROVE x \in PassedOn(b, G)
    OBVIOUS
  <2>1. PICK t \in a : \E u \in Uses(t) : \E c \in a : \E f \in F :
          /\ c.name = t.body[u[1]].of /\ u[2] \in DOMAIN c.params /\ f[1] = c.name /\ f[2] = u[2]
          /\ x = <<t.name, u[3], PassedAs(t.body[u[1]].args[u[2]], c.params[u[2]], f[3])>>
    BY DEF PassedOn
  <2>2. t \in b /\ \A c \in a : c \in b
    OBVIOUS
  <2> QED
    BY <2>1, <2>2 DEF PassedOn
<1>3. \A H, K : H \subseteq K => Joined(H) \subseteq Joined(K)
  BY DEF Joined
<1>4. Deeper(a, F) \subseteq Deeper(b, G)
  <2>1. PICK H, K : H = F \cup PassedOn(a, F) /\ K = G \cup PassedOn(b, G)
    OBVIOUS
  <2>2. Deeper(a, F) = H \cup Joined(H) /\ Deeper(b, G) = K \cup Joined(K)
    BY <2>1 DEF Deeper
  <2>3. H \subseteq K
    BY <1>2, <2>1
  <2> QED
    BY <1>3, <2>2, <2>3
<1> QED
  BY <1>1, <1>2, <1>3, <1>4

\* After more steps, and from more templates, no type is lost.
LEMMA SourcesRise ==
  ASSUME NEW a, NEW b, a \subseteq b, NEW n \in Nat
  PROVE  Sources(a)[n] \subseteq Sources(b)[n] /\ Sources(a)[n] \subseteq Sources(a)[n + 1]
<1>1. PICK p, q : p = Sources(a) /\ q = Sources(b)
  OBVIOUS
<1>2. /\ p[0] = Declared(a) /\ \A m \in Nat : p[m + 1] = Deeper(a, p[m])
      /\ q[0] = Declared(b) /\ \A m \in Nat : q[m + 1] = Deeper(b, q[m])
  BY <1>1, SourcesAre
<1> DEFINE Bad == {m \in Nat : ~(p[m] \subseteq q[m])}
<1>3. CASE Bad # {}
  <2>1. PICK m \in Bad : \A k \in Bad : m <= k
    <3>1. Bad \in SUBSET Nat
      OBVIOUS
    <3> HIDE DEF Bad
    <3> QED
      BY <1>3, <3>1, LeastExists
  <2>2. m \in Nat /\ ~(p[m] \subseteq q[m])
    BY <2>1
  <2>3. m # 0
    <3>1. {} \subseteq {}
      OBVIOUS
    <3>2. Declared(a) \subseteq Declared(b)
      BY <3>1, DeeperRises
    <3> QED
      BY <1>2, <2>2, <3>2
  <2>4. m - 1 \in Nat /\ (m - 1) + 1 = m /\ ~(m <= m - 1)
    BY <2>2, <2>3
  <2>5. p[m - 1] \subseteq q[m - 1]
    BY <2>1, <2>4
  <2>6. p[m] = Deeper(a, p[m - 1]) /\ q[m] = Deeper(b, q[m - 1])
    BY <1>2, <2>4
  <2>7. PICK F, G : F = p[m - 1] /\ G = q[m - 1]
    OBVIOUS
  <2>8. F \subseteq G
    BY <2>5, <2>7
  <2>9. Deeper(a, F) \subseteq Deeper(b, G)
    BY <2>8, DeeperRises
  <2> QED
    BY <2>2, <2>6, <2>7, <2>9
<1>4. CASE Bad = {}
  <2>1. p[n] \subseteq q[n]
    BY <1>4
  <2>2. PICK F : F = p[n] /\ F \subseteq F
    OBVIOUS
  <2>3. F \subseteq Deeper(a, F)
    BY <2>2 DEF Deeper
  <2> QED
    BY <1>1, <1>2, <2>1, <2>2, <2>3
<1> QED
  BY <1>3, <1>4

-----------------------------------------------------------------------------
(* GraphTells.                                                             *)

\* An inference that is under way has only templates to go to that are there.
FineTyping(x, names) ==
  x.on => /\ x = [on |-> TRUE, unseen |-> x.unseen, seen |-> x.seen, todo |-> x.todo, next |-> x.next, call |-> x.call]
          /\ x.unseen \subseteq names /\ x.todo \subseteq names /\ x.next \subseteq names
          /\ x.seen \in Seq(names)
\* What is held is a library, at every moment of an inference.
HeldInv == Held(templates, order) /\ FineTyping(typing, DOMAIN templates)

\* The inductive invariant: what is held is a library, told before or not.
GraphInv ==
  /\ HeldInv
  /\ IsVector(told)
  /\ told = <<>> => graph = {}
  /\ GraphTells

\* ottr:Triple is a template, alone and behind those of a text.
LEMMA TripleIsTemplate ==
  /\ AreTemplates(<<TripleTemplate>>)
  /\ \A doc : AreTemplates(doc) => AreTemplates(FromDocuments(doc))
<1>1. IsTemplate(TripleTemplate)
  <2>1. PICK a, b, c : /\ TripleTemplate = Template(OttrTriple, <<a, b, c>>, <<>>)
                        /\ IsParam(a) /\ IsParam(b) /\ IsParam(c)
    <3>1. \A v, ty : IsParam(Param(v, ty))
      BY DEF IsParam, Param
    <3> QED
      BY <3>1 DEF TripleTemplate
  <2>2. PICK ps : ps = <<a, b, c>>
    OBVIOUS
  <2>3. IsVector(ps) /\ \A i \in DOMAIN ps : IsParam(ps[i])
    BY <2>1, <2>2 DEF IsVector, ToSet
  <2>4. TripleTemplate.params = ps /\ TripleTemplate.body = <<>> /\ TripleTemplate.name = OttrTriple
    BY <2>1, <2>2 DEF Template
  <2>5. IsVector(<<>>)
    BY DEF IsVector
  <2> QED
    BY <2>1, <2>2, <2>3, <2>4, <2>5 DEF IsTemplate
<1>2. \A t : IsVector(<<t>>)
  BY DEF IsVector, ToSet
<1>3. AreTemplates(<<TripleTemplate>>)
  BY <1>1, <1>2 DEF AreTemplates
<1>4. ASSUME NEW doc, AreTemplates(doc)
      PROVE  AreTemplates(FromDocuments(doc))
  <2>1. PICK all, T : all = Append(doc, TripleTemplate) /\ T = ToSet(doc) \cup {TripleTemplate}
    OBVIOUS
  <2>2. doc \in Seq(T)
    BY <1>4, <2>1 DEF AreTemplates, IsVector
  <2>3. all \in Seq(T) /\ Len(all) = Len(doc) + 1 /\ Len(doc) \in Nat
        /\ \A i \in 1..Len(doc) : all[i] = doc[i]
    BY <2>1, <2>2
  <2>4. all[Len(doc) + 1] = TripleTemplate
    BY <2>1, <2>2
  <2>5. \A i \in DOMAIN all : IsTemplate(all[i])
    BY <1>1, <1>4, <2>2, <2>3, <2>4 DEF AreTemplates
  <2>6. IsVector(all)
    <3>1. all \in [1..Len(all) -> ToSet(all)] /\ Len(all) \in Nat
      BY <2>3 DEF ToSet
    <3> QED
      BY <3>1 DEF IsVector
  <2>7. FromDocuments(doc) = all
    <3>1. \A x, S : x \in S => \A s \in Seq(S) : s \o <<x>> = Append(s, x)
      BY AppendIsConcat
    <3> QED
      BY <2>1, <2>2, <3>1 DEF FromDocuments
  <2> QED
    BY <2>5, <2>6, <2>7 DEF AreTemplates
<1> QED
  BY <1>3, <1>4

\* The template made for a table is one.
LEMMA DefaultIsTemplate ==
  ASSUME NEW d \in Defaults
  PROVE  AreTemplates(<<DefaultTemplate(d)>>) /\ DefaultTemplate(d).name = DefaultName
<1>1. PICK cols, V : cols = d.columns /\ V = ToSet(cols)
  OBVIOUS
<1>2. cols \in Seq(V) /\ d.pk \in V
  BY <1>1, TemplatesAssumption DEF IsVector
<1>3. PICK k, rest : k = (CHOOSE i \in DOMAIN cols : cols[i] = d.pk) /\ rest = RemoveAt(cols, k)
  OBVIOUS
<1>4. k \in DOMAIN cols
  BY <1>1, <1>2, <1>3 DEF ToSet
<1>5. rest \in Seq(V)
  <2>1. k \in 1..Len(cols) /\ Len(cols) \in Nat
    BY <1>2, <1>4
  <2>2. SubSeq(cols, 1, k - 1) \in Seq(V) /\ SubSeq(cols, k + 1, Len(cols)) \in Seq(V)
    BY <1>2, <2>1
  <2> QED
    BY <1>3, <2>2 DEF RemoveAt
<1> DEFINE t == DefaultTemplate(d)
<1>6. t.name = DefaultName /\ DOMAIN t.params = DOMAIN cols /\ DOMAIN t.body = DOMAIN rest
      /\ t.params = [i \in DOMAIN cols |-> t.params[i]] /\ t.body = [i \in DOMAIN rest |-> t.body[i]]
  BY <1>1, <1>3 DEF DefaultTemplate, Template
<1>7. \A i \in DOMAIN rest : \E a, b, c : t.body[i].args = <<a, b, c>>
  BY <1>1, <1>3 DEF DefaultTemplate, Template, Instance
<1>13. \A i \in DOMAIN t.params : IsParam(t.params[i])
  <2> TAKE i \in DOMAIN t.params
  <2>1. PICK v, ty, b : /\ v = cols[i]
                        /\ ty = (IF cols[i] \in {d.pk} \cup d.fks THEN Basic("ottr:IRI") ELSE ParameterType(d.table, cols[i]))
                        /\ b = (\E j \in DOMAIN d.table.rows : IsNull(d.table.rows[j][cols[i]]))
    OBVIOUS
  <2>2. i \in DOMAIN cols
    BY <1>6
  <2>3. t.params[i] = [Param(v, ty) EXCEPT !.optional = b]
    BY <1>1, <2>1, <2>2 DEF DefaultTemplate, Template
  <2>4. PICK q : q = Param(v, ty)
    OBVIOUS
  <2>5. PICK z : q = [v |-> v, type |-> ty, optional |-> FALSE, default |-> z]
    BY <2>4 DEF Param
  <2>6. PICK p : p = t.params[i]
    OBVIOUS
  <2>7. p = [q EXCEPT !.optional = b]
    BY <2>3, <2>4, <2>6
  <2>8. p = [v |-> v, type |-> ty, optional |-> b, default |-> z]
    BY <2>5, <2>7
  <2>9. IsParam(p)
    BY <2>8 DEF IsParam
  <2> QED
    BY <2>6, <2>9
<1>14. t = Template(t.name, t.params, t.body)
  BY DEF DefaultTemplate, Template
<1> HIDE DEF t
<1>8. \A a, b, c : IsVector(<<a, b, c>>)
  BY DEF IsVector, ToSet
<1>9. IsVector(t.params)
  <2>1. PICK n : n = Len(cols)
    OBVIOUS
  <2>2. n \in Nat /\ DOMAIN cols = 1..n
    BY <1>2, <2>1
  <2>3. t.params \in [1..n -> ToSet(t.params)]
    BY <1>6, <2>2 DEF ToSet
  <2> QED
    BY <2>2, <2>3 DEF IsVector
<1>10. IsVector(t.body)
  <2>1. PICK n : n = Len(rest)
    OBVIOUS
  <2>2. n \in Nat /\ DOMAIN rest = 1..n
    BY <1>5, <2>1
  <2>3. t.body \in [1..n -> ToSet(t.body)]
    BY <1>6, <2>2 DEF ToSet
  <2> QED
    BY <2>2, <2>3 DEF IsVector
<1>11. IsTemplate(t)
  <2>1. ASSUME NEW i \in DOMAIN t.body
        PROVE  IsVector(t.body[i].args)
    <3>1. PICK a, b, c : t.body[i].args = <<a, b, c>>
      BY <1>6, <1>7
    <3>2. IsVector(<<a, b, c>>)
      BY <1>8
    <3> QED
      BY <3>1, <3>2, Zenon
  <2> QED
    BY <1>9, <1>10, <1>13, <1>14, <2>1, Zenon DEF IsTemplate
<1>12. IsVector(<<t>>)
  BY DEF IsVector, ToSet
<1> QED
  BY <1>6, <1>11, <1>12 DEF AreTemplates, t

\* The first templates, and those that are left.
LEMMA StartHeld ==
  Held(Start, <<OttrTriple>>) /\ Held(<<>>, <<>>)
<1>1. Held(<<>>, <<>>)
  BY FS_EmptySet DEF Held, Library
<1>2. Library(Start) /\ DOMAIN Start = {TripleTemplate.name}
  <2>1. PICK new : new = <<TripleTemplate>>
    OBVIOUS
  <2>2. Library(<<>>) /\ AreTemplates(new)
    BY <1>1, <2>1, TripleIsTemplate DEF Held
  <2>3. Start = Put(<<>>, new)
    BY <2>1 DEF Start, OfTemplates
  <2>4. {new[i].name : i \in DOMAIN new} = {TripleTemplate.name} /\ DOMAIN <<>> = {}
    BY <2>1
  <2> QED
    BY <2>2, <2>3, <2>4, PutIs
<1>3. TripleTemplate.name = OttrTriple
  BY DEF TripleTemplate, Template
<1> QED
  BY <1>1, <1>2, <1>3 DEF Held

\* Adding templates.
LEMMA AddedHeld ==
  ASSUME NEW ts, NEW known, Held(ts, known), NEW new, AreTemplates(new)
  PROVE  Held(Put(ts, new), AllMovedLast(known, new))
<1>1. PICK V : V = DOMAIN Put(ts, new)
  OBVIOUS
<1>2. Library(Put(ts, new)) /\ V = DOMAIN ts \cup {new[i].name : i \in DOMAIN new}
  BY <1>1, PutIs DEF Held
<1>3. known \in Seq(V)
  BY <1>2 DEF Held
<1>4. IsVector(new) /\ \A i \in DOMAIN new : new[i].name \in V
  BY <1>2 DEF AreTemplates
<1>5. AllMovedLast(known, new) \in Seq(V)
  BY <1>3, <1>4, AllMovedLastIs
<1> QED
  BY <1>1, <1>2, <1>5 DEF Held

\* A pass over one template keeps the library, and all of it but types.
LEMMA InferKeeps ==
  ASSUME HeldInv, NEW n \in DOMAIN templates, NEW a, NEW b, Infer(n, a, b), ~LoseTemplates
  PROVE  /\ Library(templates') /\ DOMAIN templates' = DOMAIN templates
         /\ \A m \in DOMAIN templates : SameButTypes(templates'[m], templates[m])
         /\ typing' \in {a, b}
         /\ UNCHANGED <<order, inferred, triples, counter, job, graph, added, last, named, told, calls>>
<1>1. PICK r : r = InferTemplateTypes(templates[n], Without(templates, n))
  OBVIOUS
<1>2. /\ r.ok
      /\ templates' = [templates EXCEPT ![n] = r.t]
      /\ typing' \in {a, b}
      /\ UNCHANGED <<order, inferred, triples, counter, job, graph, added, last, named, told, calls>>
  BY <1>1 DEF Infer
<1>3. Library(templates)
  BY DEF HeldInv, Held
<1>4. IsTemplate(r.t) /\ SameButTypes(r.t, templates[n])
  BY <1>1, <1>2, <1>3, InferOne DEF Library
<1>5. DOMAIN templates' = DOMAIN templates /\ \A m \in DOMAIN templates : templates'[m] = IF m = n THEN r.t ELSE templates[m]
  BY <1>2
<1>6. \A m \in DOMAIN templates : SameButTypes(templates'[m], templates[m])
  BY <1>4, <1>5 DEF SameButTypes
<1>7. \A m \in DOMAIN templates : templates'[m].name = m /\ IsTemplate(templates'[m])
  <2> TAKE m \in DOMAIN templates
  <2>1. templates[m].name = m /\ IsTemplate(templates[m])
    BY <1>3 DEF Library
  <2>2. templates'[m].name = m
    BY <1>6, <2>1 DEF SameButTypes
  <2> QED
    BY <1>4, <1>5, <2>1, <2>2
<1>8. Library(templates')
  BY <1>3, <1>5, <1>7 DEF Library
<1> QED
  BY <1>2, <1>5, <1>6, <1>8

\* A step of an inference is such a pass, and goes on with templates that are
\* there.
LEMMA InferSteps ==
  ASSUME HeldInv, InferFirst \/ InferAgain
  PROVE  \E n \in DOMAIN templates : \E a, b : /\ Infer(n, a, b)
                                              /\ FineTyping(a, DOMAIN templates) /\ FineTyping(b, DOMAIN templates)
                                              /\ a.on /\ b.on /\ a.call = typing.call /\ b.call = typing.call
<1>1. PICK D, x : D = DOMAIN templates /\ x = typing
  OBVIOUS
<1>2. /\ x.on
      /\ x = [on |-> TRUE, unseen |-> x.unseen, seen |-> x.seen, todo |-> x.todo, next |-> x.next, call |-> x.call]
      /\ x.unseen \subseteq D /\ x.todo \subseteq D /\ x.next \subseteq D
      /\ x.seen \in Seq(D)
  BY <1>1 DEF HeldInv, FineTyping, InferFirst, InferAgain
<1>3. ASSUME NEW n \in x.unseen, FirstUnseen(n)
      PROVE  \E a, b : /\ Infer(n, a, b) /\ FineTyping(a, D) /\ FineTyping(b, D)
                       /\ a.on /\ b.on /\ a.call = x.call /\ b.call = x.call
  <2>1. PICK a, b : a = [x EXCEPT !.unseen = @ \ {n}] /\ b = [a EXCEPT !.todo = @ \cup {n}]
    OBVIOUS
  <2>2. Infer(n, a, b)
    BY <1>1, <1>3, <2>1 DEF FirstUnseen
  <2>3. a = [on |-> TRUE, unseen |-> x.unseen \ {n}, seen |-> x.seen, todo |-> x.todo, next |-> x.next, call |-> x.call]
    BY <1>2, <2>1
  <2>6. PICK y : y = x.todo \cup {n}
    OBVIOUS
  <2>7. a.todo = x.todo
    BY <2>3
  <2>8. b = [a EXCEPT !.todo = y]
    BY <2>1, <2>6, <2>7
  <2>9. b = [on |-> TRUE, unseen |-> x.unseen \ {n}, seen |-> x.seen, todo |-> y, next |-> x.next, call |-> x.call]
    BY <2>3, <2>8
  <2>4. b = [on |-> TRUE, unseen |-> x.unseen \ {n}, seen |-> x.seen, todo |-> x.todo \cup {n}, next |-> x.next, call |-> x.call]
    BY <2>6, <2>9
  <2>5. FineTyping(a, D) /\ FineTyping(b, D)
    BY <1>2, <1>3, <2>3, <2>4 DEF FineTyping
  <2> QED
    BY <2>2, <2>3, <2>4, <2>5
<1>4. ASSUME x.seen # <<>>, FirstSeen
      PROVE  \E n \in D : \E a, b : /\ Infer(n, a, b) /\ FineTyping(a, D) /\ FineTyping(b, D)
                                    /\ a.on /\ b.on /\ a.call = x.call /\ b.call = x.call
  <2>1. PICK n, a, b : n = Head(x.seen) /\ a = [x EXCEPT !.seen = Tail(@)] /\ b = [a EXCEPT !.todo = @ \cup {n}]
    OBVIOUS
  <2>2. Infer(n, a, b)
    BY <1>1, <1>4, <2>1 DEF FirstSeen
  <2>3. a = [on |-> TRUE, unseen |-> x.unseen, seen |-> Tail(x.seen), todo |-> x.todo, next |-> x.next, call |-> x.call]
    BY <1>2, <2>1
  <2>7. PICK y : y = x.todo \cup {n}
    OBVIOUS
  <2>8. a.todo = x.todo
    BY <2>3
  <2>9. b = [a EXCEPT !.todo = y]
    BY <2>1, <2>7, <2>8
  <2>10. b = [on |-> TRUE, unseen |-> x.unseen, seen |-> Tail(x.seen), todo |-> y, next |-> x.next, call |-> x.call]
    BY <2>3, <2>9
  <2>4. b = [on |-> TRUE, unseen |-> x.unseen, seen |-> Tail(x.seen), todo |-> x.todo \cup {n}, next |-> x.next, call |-> x.call]
    BY <2>7, <2>10
  <2>5. n \in D /\ Tail(x.seen) \in Seq(D)
    BY <1>2, <1>4, <2>1
  <2>6. FineTyping(a, D) /\ FineTyping(b, D)
    BY <1>2, <2>3, <2>4, <2>5 DEF FineTyping
  <2> QED
    BY <2>2, <2>3, <2>4, <2>5, <2>6
<1>5. ASSUME NEW n \in x.todo, Infer(n, Round(x.todo \ {n}, x.next), Round(x.todo \ {n}, x.next \cup Affected(templates, n)))
      PROVE  \E a, b : /\ Infer(n, a, b) /\ FineTyping(a, D) /\ FineTyping(b, D)
                       /\ a.on /\ b.on /\ a.call = x.call /\ b.call = x.call
  <2>1. ASSUME NEW todo, NEW next, todo \subseteq D, next \subseteq D
        PROVE  FineTyping(Round(todo, next), D) /\ Round(todo, next).on /\ Round(todo, next).call = x.call
    <3>1. PICK y, z, w : y = Round(todo, next) /\ z = (IF todo = {} THEN next ELSE todo) /\ w = (IF todo = {} THEN {} ELSE next)
      OBVIOUS
    <3>2. y = [x EXCEPT !.todo = z, !.next = w]
      BY <1>1, <3>1 DEF Round
    <3>3. y = [on |-> TRUE, unseen |-> x.unseen, seen |-> x.seen, todo |-> z, next |-> w, call |-> x.call]
      BY <1>2, <3>2
    <3>4. z \subseteq D /\ w \subseteq D
      BY <2>1, <3>1
    <3>5. FineTyping(y, D) /\ y.on /\ y.call = x.call
      BY <1>2, <3>3, <3>4 DEF FineTyping
    <3> QED
      BY <3>1, <3>5
  <2>2. Affected(templates, n) \subseteq D
    BY <1>1 DEF Affected
  <2>3. PICK a, b : a = Round(x.todo \ {n}, x.next) /\ b = Round(x.todo \ {n}, x.next \cup Affected(templates, n))
    OBVIOUS
  <2>4. FineTyping(a, D) /\ a.on /\ a.call = x.call
    BY <1>2, <2>1, <2>3
  <2>5. FineTyping(b, D) /\ b.on /\ b.call = x.call
    BY <1>2, <2>1, <2>2, <2>3
  <2> QED
    BY <1>5, <2>3, <2>4, <2>5
<1>6. CASE InferFirst
  <2>1. \/ \E n \in x.unseen : FirstUnseen(n)
        \/ x.seen # <<>> /\ FirstSeen
    BY <1>1, <1>6 DEF InferFirst
  <2> QED
    BY <1>1, <1>2, <1>3, <1>4, <2>1
<1>7. CASE InferAgain
  <2>1. PICK n \in x.todo : Infer(n, Round(x.todo \ {n}, x.next), Round(x.todo \ {n}, x.next \cup Affected(templates, n)))
    BY <1>1, <1>7 DEF InferAgain
  <2> QED
    BY <1>1, <1>2, <1>5, <2>1
<1> QED
  BY <1>6, <1>7

\* The invariant holds at first.
LEMMA GraphInit ==
  Init => GraphInv
<1> HAVE Init
<1>1. Held(templates, order)
  BY StartHeld DEF Init
<1>2. told = <<>> /\ graph = {} /\ typing = NoTyping
  BY DEF Init
<1>3. IsVector(<<>>) /\ Len(<<>>) = 0
  BY DEF IsVector
<1>4. \A names : FineTyping(NoTyping, names)
  BY DEF FineTyping, NoTyping
<1> QED
  BY <1>1, <1>2, <1>3, <1>4 DEF GraphInv, GraphTells, HeldInv

\* What expands a library starts from one.
LEMMA ExpandHeld ==
  ASSUME NEW ts, NEW known, Held(ts, known), NEW call, Expand(ts, known, call)
  PROVE  HeldInv' /\ UNCHANGED <<graph, told>>
<1>1. templates' = ts /\ order' = known /\ UNCHANGED <<graph, told>>
  BY DEF Expand
<1>2. FineTyping(typing', DOMAIN ts)
  <2>1. CASE inferred
    BY <2>1 DEF Expand, NoTyping, FineTyping
  <2>2. CASE ~inferred
    <3>1. PICK un : un = DOMAIN ts \ ToSet(known)
      OBVIOUS
    <3>2. typing' = [on |-> TRUE, unseen |-> un, seen |-> known, todo |-> {}, next |-> {}, call |-> call]
      BY <2>2, <3>1 DEF Expand, Typing
    <3>3. known \in Seq(DOMAIN ts) /\ un \subseteq DOMAIN ts
      BY <3>1 DEF Held
    <3> QED
      BY <3>2, <3>3 DEF FineTyping
  <2> QED
    BY <2>1, <2>2
<1> QED
  BY <1>1, <1>2 DEF HeldInv

\* Every step holds a library.
LEMMA HeldNext ==
  HeldInv /\ [Next]_vars => HeldInv'
<1> SUFFICES ASSUME HeldInv, [Next]_vars PROVE HeldInv'
  OBVIOUS
<1>0. Held(templates, order) /\ Library(templates)
  BY DEF HeldInv, Held
<1>1. ASSUME NEW new, AreTemplates(new), Called, AddAll(new)
      PROVE  HeldInv'
  <2>1. Held(templates', order') /\ typing' = typing /\ ~typing.on
    BY <1>0, <1>1, AddedHeld DEF AddAll, Called
  <2> QED
    BY <2>1 DEF HeldInv, FineTyping
<1>2. ASSUME NEW doc \in Documents, AddTemplatesFromString(doc)
      PROVE  HeldInv'
  <2>1. AreTemplates(doc)
    BY TemplatesAssumption DEF AreTemplates
  <2>2. AreTemplates(FromDocuments(doc))
    BY <2>1, TripleIsTemplate
  <2> QED
    BY <1>1, <1>2, <2>2 DEF AddTemplatesFromString
<1>3. ASSUME NEW t \in Singles, AddTemplate(t)
      PROVE  HeldInv'
  <2>1. AreTemplates(<<t>>)
    <3>1. IsTemplate(t)
      BY TemplatesAssumption
    <3>2. IsVector(<<t>>)
      BY DEF IsVector, ToSet
    <3> QED
      BY <3>1, <3>2 DEF AreTemplates
  <2> QED
    BY <1>1, <1>3, <2>1 DEF AddTemplate
<1>4. ASSUME LoseTemplates PROVE HeldInv'
  <2>1. templates' = <<>> /\ order' = <<>> /\ typing' = NoTyping
    BY <1>4 DEF LoseTemplates
  <2> QED
    BY <2>1, StartHeld DEF HeldInv, FineTyping, NoTyping
<1>5. ASSUME NEW call \in Calls, Map(call)
      PROVE  HeldInv'
  BY <1>0, <1>5, ExpandHeld DEF Map
<1>6. ASSUME NEW d \in Defaults, MapDefault(d)
      PROVE  HeldInv'
  <2>1. PICK ts, known, new : ts = Put(templates, new) /\ known = Append(order, DefaultName) /\ new = <<DefaultTemplate(d)>>
    OBVIOUS
  <2>2. \E call : Expand(ts, known, call)
    BY <1>6, <2>1 DEF MapDefault
  <2>3. AreTemplates(new) /\ {new[i].name : i \in DOMAIN new} = {DefaultName}
    BY <2>1, DefaultIsTemplate
  <2>7. Library(templates) /\ AreTemplates(new)
    BY <1>0, <2>3 DEF Held
  <2>8. Library(Put(templates, new)) /\ DOMAIN Put(templates, new) = DOMAIN templates \cup {new[i].name : i \in DOMAIN new}
    BY <2>7, PutIs
  <2>4. Library(ts) /\ DOMAIN ts = DOMAIN templates \cup {new[i].name : i \in DOMAIN new}
    BY <2>1, <2>8
  <2>5. order \in Seq(DOMAIN ts) /\ known \in Seq(DOMAIN ts)
    BY <1>0, <2>1, <2>3, <2>4 DEF Held
  <2>6. Held(ts, known)
    BY <2>4, <2>5 DEF Held
  <2> QED
    BY <2>2, <2>6, ExpandHeld
<1>7. ASSUME InferFirst \/ InferAgain PROVE HeldInv'
  <2>0. PICK n \in DOMAIN templates :
          \E a, b : Infer(n, a, b) /\ FineTyping(a, DOMAIN templates) /\ FineTyping(b, DOMAIN templates)
    BY <1>7, InferSteps
  <2>1. PICK a, b : Infer(n, a, b) /\ FineTyping(a, DOMAIN templates) /\ FineTyping(b, DOMAIN templates)
    BY <2>0
  <2>2. CASE ~LoseTemplates
    <3>1. Library(templates') /\ DOMAIN templates' = DOMAIN templates /\ typing' \in {a, b} /\ order' = order
      BY <2>1, <2>2, InferKeeps
    <3>2. Held(templates', order')
      BY <1>0, <3>1 DEF Held
    <3>3. FineTyping(typing', DOMAIN templates')
      BY <2>1, <3>1
    <3> QED
      BY <3>2, <3>3 DEF HeldInv
  <2> QED
    BY <1>4, <2>2
<1>8. ASSUME InferDone PROVE HeldInv'
  <2>1. templates' = templates /\ order' = <<>> /\ typing' = NoTyping
    BY <1>8 DEF InferDone
  <2> QED
    BY <1>0, <2>1 DEF HeldInv, Held, FineTyping, NoTyping
<1>9. ASSUME Reload PROVE HeldInv'
  <2>1. templates' = Start /\ order' = <<OttrTriple>> /\ typing' = typing /\ ~typing.on
    BY <1>9 DEF Reload, Called
  <2> QED
    BY <2>1, StartHeld DEF HeldInv, FineTyping
<1>10. ASSUME Proceed \/ Finish \/ TemplatesToGraph \/ UNCHANGED vars
       PROVE  HeldInv'
  <2>1. UNCHANGED <<templates, order, typing>>
    BY <1>10 DEF Proceed, Finish, TemplatesToGraph, vars
  <2> QED
    BY <2>1 DEF HeldInv
<1> QED
  BY <1>2, <1>3, <1>5, <1>6, <1>7, <1>8, <1>9, <1>10 DEF Next

\* Every step keeps it.
LEMMA GraphNext ==
  GraphInv /\ [Next]_vars => GraphInv'
<1> SUFFICES ASSUME GraphInv, [Next]_vars PROVE GraphInv'
  OBVIOUS
<1>1. HeldInv /\ HeldInv'
  BY HeldNext DEF GraphInv
<1>2. CASE UNCHANGED <<graph, told>>
  BY <1>1, <1>2 DEF GraphInv, GraphTells
<1>3. ASSUME TemplatesToGraph PROVE GraphInv'
  <2>0. Held(templates, order)
    BY <1>1 DEF HeldInv
  <2>1. PICK names \in Orders(templates, order) :
          graph' = graph \cup TemplatesToTriples([i \in DOMAIN names |-> templates[names[i]]])
    BY <1>3 DEF TemplatesToGraph
  <2>2. told' = Append(told, templates)
    BY <1>3 DEF TemplatesToGraph
  <2>3. told \in Seq(ToSet(told)) /\ Len(told) \in Nat
    BY DEF GraphInv, IsVector
  <2>4. told' \in Seq(ToSet(told) \cup {templates}) /\ Len(told') = Len(told) + 1 /\ told'[Len(told) + 1] = templates
    BY <2>2, <2>3
  <2>5. IsVector(told') /\ told' # <<>>
    <3>1. Len(told') \in Nat /\ told' \in [1..Len(told') -> ToSet(told')]
      BY <2>3, <2>4 DEF ToSet
    <3> QED
      BY <2>3, <2>4, <3>1 DEF IsVector
  <2>6. ASSUME Len(told') = 1 PROVE Tells(graph', told'[1])
    <3>1. Len(told) = 0
      BY <2>3, <2>4, <2>6
    <3>2. told = <<>> /\ told'[1] = templates
      BY <2>3, <2>4, <3>1
    <3>3. graph' = TemplatesToTriples([i \in DOMAIN names |-> templates[names[i]]])
      BY <2>1, <3>2 DEF GraphInv
    <3> QED
      BY <2>0, <3>2, <3>3, OrderTold
  <2> QED
    BY <1>1, <2>5, <2>6 DEF GraphInv, GraphTells
<1>4. ASSUME InferFirst \/ InferAgain PROVE UNCHANGED <<graph, told>>
  <2>1. PICK n, a, b : Infer(n, a, b)
    BY <1>1, <1>4, InferSteps
  <2> QED
    BY <2>1 DEF Infer, LoseTemplates
<1>5. ASSUME \/ \E doc \in Documents : AddTemplatesFromString(doc)
             \/ \E t \in Singles : AddTemplate(t)
             \/ \E call \in Calls : Map(call)
             \/ \E d \in Defaults : MapDefault(d)
             \/ InferDone \/ Proceed \/ Finish \/ Reload \/ UNCHANGED vars
      PROVE  UNCHANGED <<graph, told>>
  BY <1>5 DEF AddTemplatesFromString, AddTemplate, AddAll, Map, MapDefault, Expand, InferDone, Proceed, Finish, Reload, vars
<1> QED
  BY <1>2, <1>3, <1>4, <1>5 DEF Next

\* The graph of the templates tells them all.
THEOREM GraphCorrect ==
  Spec => []GraphTells
<1>1. Init => GraphInv
  BY GraphInit
<1>2. GraphInv /\ [Next]_vars => GraphInv'
  BY GraphNext
<1>3. GraphInv => GraphTells
  BY DEF GraphInv
<1> QED
  BY <1>1, <1>2, <1>3, PTL DEF Spec

-----------------------------------------------------------------------------
(* Finite sets.                                                            *)

\* A finite set of numbers has a bound.
LEMMA FiniteBound ==
  ASSUME NEW T \in SUBSET Nat, IsFiniteSet(T)
  PROVE  \E top \in Nat : \A x \in T : x <= top
<1> DEFINE Bounded(S) == \E top \in Nat : \A x \in S : x <= top
           Fin == FiniteSubsetsOf(T)
           R   == StrictSubsetOrdering(T)
           Bad == {S \in Fin : ~Bounded(S)}
<1> SUFFICES ASSUME Bad # {} PROVE FALSE
  <2>1. T \in Fin
    BY DEF FiniteSubsetsOf
  <2> QED
    BY <2>1
<1>1. IsWellFoundedOn(R, Fin)
  BY FS_StrictSubsetOrderingWellFounded
<1>2. PICK S \in Bad : \A U \in Bad : <<U, S>> \notin R
  <2>1. Bad \subseteq Fin
    OBVIOUS
  <2> HIDE DEF Bad, Fin, R
  <2> QED
    BY <1>1, <2>1, WFMin, Zenon
<1>3. S \in SUBSET T /\ IsFiniteSet(S) /\ ~Bounded(S)
  BY <1>2 DEF FiniteSubsetsOf
<1>4. PICK x \in S : TRUE
  BY <1>3
<1>5. PICK U : U = S \ {x}
  OBVIOUS
<1>6. U \in Fin /\ <<U, S>> \in R
  <2>1. IsFiniteSet(U) /\ U \in SUBSET T /\ U \subseteq S /\ U # S
    BY <1>3, <1>4, <1>5, FS_Subset
  <2> QED
    BY <1>3, <2>1 DEF FiniteSubsetsOf, StrictSubsetOrdering
<1>7. Bounded(U)
  <2> HIDE DEF R, Bounded
  <2> QED
    BY <1>2, <1>6
<1>8. PICK top \in Nat : \A y \in U : y <= top
  BY <1>7
<1>9. x \in Nat
  BY <1>3, <1>4
<1>10. PICK new \in Nat : top <= new /\ x <= new
  BY <1>8, <1>9
<1>11. \A y \in S : y <= new
  <2> TAKE y \in S
  <2>1. y \in Nat
    BY <1>3
  <2>2. CASE y = x
    BY <1>10, <2>2
  <2>3. CASE y # x
    <3>1. y <= top
      BY <1>5, <1>8, <2>3
    <3> QED
      BY <1>10, <2>1, <3>1
  <2> QED
    BY <2>2, <2>3
<1> QED
  BY <1>3, <1>11

\* So the highest of finitely many is one of them and above them all.
LEMMA FiniteHighest ==
  ASSUME NEW T \in SUBSET Nat, IsFiniteSet(T), T # {}
  PROVE  Highest(T) \in T /\ \A x \in T : x <= Highest(T)
<1>1. PICK top \in Nat : \A x \in T : x <= top
  BY FiniteBound
<1> QED
  BY <1>1, HighestIs

\* The values of a function on a finite set.
LEMMA FiniteRange ==
  ASSUME NEW S, IsFiniteSet(S), NEW f, DOMAIN f = S
  PROVE  IsFiniteSet({f[x] : x \in S})
<1> DEFINE T == {f[x] : x \in S}
           g == [x \in S |-> f[x]]
<1>1. g \in Surjection(S, T)
  BY DEF Surjection
<1> QED
  BY <1>1, FS_Surjection

\* The union of finitely many finite sets.
LEMMA FiniteUnion ==
  ASSUME NEW S, IsFiniteSet(S), NEW f, DOMAIN f = S, \A x \in S : IsFiniteSet(f[x])
  PROVE  IsFiniteSet(UNION {f[x] : x \in S})
<1>1. PICK T : T = {f[x] : x \in S}
  OBVIOUS
<1>2. IsFiniteSet(T)
  BY <1>1, FiniteRange
<1>3. \A x \in T : IsFiniteSet(x)
  BY <1>1
<1>4. IsFiniteSet(UNION T)
  BY <1>2, <1>3, FS_UNION
<1> QED
  BY <1>1, <1>4

\* There are finitely many functions from one finite set to another.
LEMMA FiniteFunctions ==
  ASSUME NEW A, IsFiniteSet(A), NEW B, IsFiniteSet(B)
  PROVE  IsFiniteSet([A -> B])
<1>1. PICK P : P = SUBSET (A \X B)
  OBVIOUS
<1>2. IsFiniteSet(P)
  <2>1. PICK Q : Q = A \X B
    OBVIOUS
  <2>2. IsFiniteSet(Q)
    BY <2>1, FS_Product
  <2> QED
    BY <1>1, <2>1, <2>2, FS_SUBSET
<1> DEFINE graph_of(f) == {p \in A \X B : p[2] = f[p[1]]}
           g == [f \in [A -> B] |-> graph_of(f)]
<1>3. g \in [[A -> B] -> P]
  BY <1>1
<1>4. ASSUME NEW f \in [A -> B], NEW h \in [A -> B], g[f] = g[h]
      PROVE  f = h
  <2>1. graph_of(f) = graph_of(h)
    BY <1>4
  <2>2. \A a \in A : f[a] = h[a]
    <3> TAKE a \in A
    <3>1. PICK p : p = <<a, f[a]>>
      OBVIOUS
    <3>2. p \in A \X B /\ p[1] = a /\ p[2] = f[a]
      BY <3>1
    <3>3. p \in graph_of(f)
      BY <3>2
    <3>4. p \in graph_of(h)
      <4> HIDE DEF graph_of
      <4> QED
        BY <2>1, <3>3
    <3> QED
      BY <3>2, <3>4
  <2> QED
    BY <2>2
<1> HIDE DEF g
<1>5. g \in Injection([A -> B], P)
  <2>1. DOMAIN g = [A -> B]
    BY <1>3
  <2> QED
    BY <1>3, <1>4, <2>1 DEF Injection, IsInjective
<1> QED
  BY <1>2, <1>5, FS_Injection

\* A finite set as a list (SetToSeq).
LEMMA SetToSeqIs ==
  ASSUME NEW S, IsFiniteSet(S)
  PROVE  Cardinality(S) \in Nat /\ SetToSeq(S) \in [1..Cardinality(S) -> S]
<1>1. Cardinality(S) \in Nat /\ Bijection(1..Cardinality(S), S) # {}
  BY FS_CardinalityType DEF ExistsBijection
<1>2. PICK f : f \in Bijection(1..Cardinality(S), S)
  BY <1>1
<1>3. f \in [1..Cardinality(S) -> S] /\ IsInjective(f)
  BY <1>2 DEF Bijection, Injection
<1> QED
  BY <1>1, <1>3, Zenon DEF SetToSeq

-----------------------------------------------------------------------------
(* The values in the rows of a frame.                                      *)

\* Of a type and a value: do tables or constants hold it?
CONSTANT Given(_, _)
IsGiven(m, v) == IsNull(v) \/ Given(m, v)

\* What is assumed of them: lists hold given values, and a blank node that is
\* given has no name of those that a mapping makes.
GivenAreOthers ==
  \A m, v : Given(m, v) =>
    /\ m.k = "Nested" => IsVector(Items(v)) /\ \A i \in DOMAIN Items(v) : IsGiven(m.of, Items(v)[i])
    /\ m.k # "Nested" /\ m.of = "Blank" => v.v[1] \notin {"c", "l"}

\* A constant that holds no blank node and has one type has a given value.
ConstantIsGiven(c) == ~HasBlankNode(c) /\ Consistent(c) => IsGiven(TypeOf(c), ValueOf(c))
DefaultIsGiven(p)  == NoDefaultFor(p) \/ ConstantIsGiven(p.default)
ArgumentIsGiven(a) == a.t.k = "const" => ConstantIsGiven(a.t.c)
ConstantsAreGiven(t) ==
  /\ \A i \in DOMAIN t.params : DefaultIsGiven(t.params[i])
  /\ \A i \in DOMAIN t.body : \A j \in DOMAIN t.body[i].args : ArgumentIsGiven(t.body[i].args[j])

\* A blank node of a mapping, numbered from lo and below hi.
IsBlankOf(m, v, lo, hi) ==
  m = Flat("Blank") /\ \E label, layer, num : \E n \in Nat :
    v = Raw(<<"c", label, layer, num, n>>) /\ lo <= n /\ n < hi
Fine(m, v, lo, hi) == IsGiven(m, v) \/ IsBlankOf(m, v, lo, hi)

\* A row has the columns of dyn, and all rows have.
FineRow(dyn, row, lo, hi) ==
  DOMAIN row = DOMAIN dyn /\ \A n \in DOMAIN dyn : Fine(dyn[n], row[n], lo, hi)
FineRows(dyn, rows, lo, hi) ==
  IsVector(rows) /\ \A r \in DOMAIN rows : FineRow(dyn, rows[r], lo, hi)

\* A frame that was made.
FineFrame(fr, lo, hi) ==
  /\ DOMAIN fr = {"ok", "skip", "table", "rows", "dyn", "static", "counter"}
  /\ fr.ok /\ ~fr.skip /\ (~fr.table => DOMAIN fr.dyn = {})
  /\ FineRows(fr.dyn, fr.rows, lo, hi)
  /\ \A n \in DOMAIN fr.static : ConstantIsGiven(fr.static[n])
  /\ fr.counter \in Nat /\ lo <= fr.counter /\ fr.counter <= hi

\* What is fine stays so while the numbers grow.
LEMMA FineGrows ==
  ASSUME NEW m, NEW v, NEW lo \in Nat, NEW hi \in Nat, NEW top \in Nat, hi <= top, Fine(m, v, lo, hi)
  PROVE  Fine(m, v, lo, top)
<1>1. CASE IsGiven(m, v)
  BY <1>1 DEF Fine
<1>2. CASE IsBlankOf(m, v, lo, hi)
  <2>1. PICK label, layer, num : \E n \in Nat : v = Raw(<<"c", label, layer, num, n>>) /\ lo <= n /\ n < hi
    BY <1>2 DEF IsBlankOf
  <2>2. PICK n \in Nat : v = Raw(<<"c", label, layer, num, n>>) /\ lo <= n /\ n < hi
    BY <2>1
  <2>3. n < top
    BY <2>2
  <2>4. IsBlankOf(m, v, lo, top)
    BY <1>2, <2>2, <2>3 DEF IsBlankOf
  <2> QED
    BY <2>4 DEF Fine
<1> QED
  BY <1>1, <1>2 DEF Fine

LEMMA FrameGrows ==
  ASSUME NEW fr, NEW lo \in Nat, NEW hi \in Nat, NEW top \in Nat, hi <= top, FineFrame(fr, lo, hi)
  PROVE  FineFrame(fr, lo, top)
<1>1. fr.counter \in Nat /\ fr.counter <= top
  BY DEF FineFrame
<1>2. FineRows(fr.dyn, fr.rows, lo, top)
  <2>1. FineRows(fr.dyn, fr.rows, lo, hi)
    BY DEF FineFrame
  <2> QED
    BY <2>1, FineGrows DEF FineRows, FineRow
<1> QED
  BY <1>1, <1>2 DEF FineFrame

\* What a list of fine values holds: given values, finitely many.
LEMMA ItemsAreFine ==
  ASSUME GivenAreOthers, NEW m, m.k = "Nested", NEW v, NEW lo, NEW hi, Fine(m, v, lo, hi)
  PROVE  IsVector(Items(v)) /\ \A i \in DOMAIN Items(v) : IsGiven(m.of, Items(v)[i])
<1>1. ~IsBlankOf(m, v, lo, hi)
  BY DEF IsBlankOf, Flat
<1>2. CASE IsNull(v)
  <2>1. Items(v) = <<Null>>
    BY <1>2 DEF Items
  <2>2. IsVector(<<Null>>) /\ DOMAIN <<Null>> = {1} /\ <<Null>>[1] = Null
    BY DEF IsVector, ToSet
  <2>3. IsNull(Null)
    BY DEF IsNull, Null
  <2> QED
    BY <2>1, <2>2, <2>3 DEF IsGiven
<1>3. CASE ~IsNull(v)
  <2>1. Given(m, v)
    BY <1>1, <1>3 DEF Fine, IsGiven
  <2> QED
    BY <2>1 DEF GivenAreOthers
<1> QED
  BY <1>2, <1>3

\* Rows whose lists are exploded are fine.
LEMMA ExplodedFine ==
  ASSUME GivenAreOthers, NEW dyn, NEW rows, NEW lo, NEW hi, FineRows(dyn, rows, lo, hi), NEW le,
         NEW cols, IsFiniteSet(cols), cols \subseteq DOMAIN dyn, \A n \in cols : dyn[n].k = "Nested",
         NEW new, new = [n \in DOMAIN dyn |-> IF n \in cols THEN dyn[n].of ELSE dyn[n]]
  PROVE  FineRows(new, Exploded(rows, le, cols), lo, hi)
<1> DEFINE of == [r \in DOMAIN rows |-> {<<r, pick>> : pick \in RowPicks(rows[r], le, cols)}]
           made == UNION {of[r] : r \in DOMAIN rows}
           kept == {m \in made : le = "zipMin" => \A c \in cols : ~IsNull(AtPick(rows[m[1]], m[2])[c])}
           list == SetToSeq(kept)
           out == [k \in DOMAIN list |-> AtPick(rows[list[k][1]], list[k][2])]
<1>1. Exploded(rows, le, cols) = out
  <2>1. UNION {{<<r, pick>> : pick \in RowPicks(rows[r], le, cols)} : r \in DOMAIN rows} = made
    OBVIOUS
  <2> QED
    BY <2>1 DEF Exploded
<1>2. Len(rows) \in Nat /\ DOMAIN rows = 1..Len(rows)
  BY DEF FineRows, IsVector
<1>3. ASSUME NEW r \in DOMAIN rows, NEW c \in cols
      PROVE  IsVector(Items(rows[r][c])) /\ \A i \in DOMAIN Items(rows[r][c]) : IsGiven(dyn[c].of, Items(rows[r][c])[i])
  <2>1. Fine(dyn[c], rows[r][c], lo, hi) /\ dyn[c].k = "Nested"
    BY DEF FineRows, FineRow
  <2> QED
    BY <2>1, ItemsAreFine
<1>4. ASSUME NEW r \in DOMAIN rows
      PROVE  /\ IsFiniteSet(RowPicks(rows[r], le, cols))
             /\ \A pick \in RowPicks(rows[r], le, cols) : DOMAIN pick = cols
             /\ \A pick \in RowPicks(rows[r], le, cols) : \A c \in cols : pick[c] \in DOMAIN Items(rows[r][c])
  <2> DEFINE at == [c \in cols |-> DOMAIN Items(rows[r][c])]
             all == UNION {at[c] : c \in cols}
  <2>1. \A c \in cols : IsFiniteSet(at[c])
    <3> TAKE c \in cols
    <3>1. IsVector(Items(rows[r][c]))
      BY <1>3
    <3>2. Len(Items(rows[r][c])) \in Nat /\ at[c] = 1..Len(Items(rows[r][c]))
      BY <3>1 DEF IsVector
    <3> QED
      BY <3>2, FS_Interval
  <2>2. DOMAIN at = cols
    OBVIOUS
  <2>3. RowPicks(rows[r], le, cols) \subseteq [cols -> all]
        /\ \A pick \in RowPicks(rows[r], le, cols) : \A c \in cols : pick[c] \in at[c]
    BY DEF RowPicks
  <2>4. IsFiniteSet(all)
    <3> HIDE DEF at
    <3> QED
      BY <2>1, <2>2, FiniteUnion
  <2>5. IsFiniteSet([cols -> all])
    <3> HIDE DEF all, at
    <3> QED
      BY <2>4, FiniteFunctions
  <2>6. IsFiniteSet(RowPicks(rows[r], le, cols))
    <3> HIDE DEF all, at
    <3> QED
      BY <2>3, <2>5, FS_Subset
  <2>7. \A c \in cols : at[c] = DOMAIN Items(rows[r][c])
    OBVIOUS
  <2> HIDE DEF all, at
  <2> QED
    BY <2>3, <2>6, <2>7
<1>5. \A r \in DOMAIN rows : IsFiniteSet(of[r])
  <2> TAKE r \in DOMAIN rows
  <2>1. PICK P, g : P = RowPicks(rows[r], le, cols) /\ g = [pick \in P |-> <<r, pick>>]
    OBVIOUS
  <2>2. IsFiniteSet(P) /\ DOMAIN g = P
    BY <1>4, <2>1
  <2>3. IsFiniteSet({g[pick] : pick \in P})
    BY <2>2, FiniteRange
  <2>4. of[r] = {g[pick] : pick \in P}
    BY <2>1
  <2> QED
    BY <2>3, <2>4
<1>6. IsFiniteSet(made)
  <2>1. DOMAIN of = DOMAIN rows /\ IsFiniteSet(DOMAIN rows)
    BY <1>2, FS_Interval
  <2> HIDE DEF of
  <2> QED
    BY <1>5, <2>1, FiniteUnion
<1>7. \A m \in made : m[1] \in DOMAIN rows /\ m[2] \in RowPicks(rows[m[1]], le, cols)
  OBVIOUS
<1>8. IsFiniteSet(kept)
  <2> HIDE DEF made
  <2> QED
    BY <1>6, FS_Subset
<1>9. kept \subseteq made
  OBVIOUS
<1>10. Cardinality(kept) \in Nat /\ list \in [1..Cardinality(kept) -> kept]
  <2> HIDE DEF kept
  <2> QED
    BY <1>8, SetToSeqIs
<1> HIDE DEF list, kept, made
<1>11. IsVector(out)
  <2>1. PICK c : c = Cardinality(kept)
    OBVIOUS
  <2>2. c \in Nat /\ DOMAIN out = 1..c
    BY <1>10, <2>1
  <2>3. out \in [1..c -> ToSet(out)]
    BY <2>2 DEF ToSet
  <2> HIDE DEF out
  <2> QED
    BY <2>2, <2>3 DEF IsVector
<1>12. ASSUME NEW r \in DOMAIN rows, NEW pick \in RowPicks(rows[r], le, cols)
       PROVE  FineRow(new, AtPick(rows[r], pick), lo, hi)
  <2>1. DOMAIN rows[r] = DOMAIN dyn /\ \A n \in DOMAIN dyn : Fine(dyn[n], rows[r][n], lo, hi)
    BY DEF FineRows, FineRow
  <2>2. DOMAIN pick = cols /\ \A c \in cols : pick[c] \in DOMAIN Items(rows[r][c])
    BY <1>4
  <2>3. PICK row : row = AtPick(rows[r], pick)
    OBVIOUS
  <2>4. row = [n \in DOMAIN dyn |-> IF n \in cols THEN Items(rows[r][n])[pick[n]] ELSE rows[r][n]]
    BY <2>1, <2>2, <2>3 DEF AtPick, Has
  <2>5. \A n \in DOMAIN dyn : Fine(new[n], row[n], lo, hi)
    <3> TAKE n \in DOMAIN dyn
    <3>1. CASE n \in cols
      <4>1. new[n] = dyn[n].of /\ row[n] = Items(rows[r][n])[pick[n]]
        BY <2>4, <3>1
      <4>2. IsGiven(new[n], row[n])
        BY <1>3, <2>2, <3>1, <4>1
      <4> QED
        BY <4>2 DEF Fine
    <3>2. CASE n \notin cols
      BY <2>1, <2>4, <3>2
    <3> QED
      BY <3>1, <3>2
  <2> QED
    BY <2>3, <2>4, <2>5 DEF FineRow
<1>13. \A k \in DOMAIN out : FineRow(new, out[k], lo, hi)
  <2> TAKE k \in DOMAIN out
  <2>1. PICK m : m = list[k]
    OBVIOUS
  <2>2. m \in made /\ out[k] = AtPick(rows[m[1]], m[2])
    BY <1>9, <1>10, <2>1
  <2> QED
    BY <1>7, <1>12, <2>2
<1> HIDE DEF out
<1> QED
  BY <1>1, <1>11, <1>13 DEF FineRows

\* What is made of a list, one by one, is a list.
LEMMA VectorLike ==
  ASSUME NEW s, IsVector(s), NEW t, t = [i \in DOMAIN s |-> t[i]]
  PROVE  IsVector(t) /\ DOMAIN t = DOMAIN s
<1>1. PICK n : n = Len(s)
  OBVIOUS
<1>2. n \in Nat /\ DOMAIN s = 1..n
  BY <1>1 DEF IsVector
<1>3. DOMAIN t = 1..n
  BY <1>2
<1>4. t \in [1..n -> ToSet(t)]
  BY <1>2, <1>3 DEF ToSet
<1> QED
  BY <1>2, <1>3, <1>4 DEF IsVector

\* Filling nulls keeps a frame fine.
LEMMA FilledFine ==
  ASSUME NEW fr, NEW lo, NEW hi, fr.ok => FineFrame(fr, lo, hi),
         NEW ps, \A p \in ps : ~NoDefaultFor(p) /\ DefaultIsGiven(p),
         NEW out, out = FillNullsWithDefaults(fr, ps), out.ok
  PROVE  FineFrame(out, lo, hi) /\ out.counter = fr.counter
<1> DEFINE plain == {p \in ps : ~HasBlankNode(p.default)}
           cols  == {p.v : p \in plain}
           DefaultOf(n) == (CHOOSE p \in plain : p.v = n).default
           Filled(n, v) == IF n \in cols /\ (IsNull(v) \/ fr.dyn[n] = Flat("None")) THEN ValueOf(DefaultOf(n)) ELSE v
           rows == [r \in DOMAIN fr.rows |-> [n \in DOMAIN fr.rows[r] |-> Filled(n, fr.rows[r][n])]]
           dyn  == [n \in DOMAIN fr.dyn |-> IF n \in cols THEN TypeOf(DefaultOf(n)) ELSE fr.dyn[n]]
<1>1. fr.ok /\ (\A p \in ps : DefaultFits(fr, p)) /\ out = [fr EXCEPT !.rows = rows, !.dyn = dyn]
  BY DEF FillNullsWithDefaults, Failed
<1>2. FineFrame(fr, lo, hi)
  BY <1>1
<1>3. /\ DOMAIN out = {"ok", "skip", "table", "rows", "dyn", "static", "counter"}
      /\ out.ok /\ ~out.skip /\ out.table = fr.table /\ out.rows = rows /\ out.dyn = dyn
      /\ out.static = fr.static /\ out.counter = fr.counter
  BY <1>1, <1>2 DEF FineFrame
<1>4. \A n \in cols : /\ IsGiven(TypeOf(DefaultOf(n)), ValueOf(DefaultOf(n)))
                      /\ fr.dyn[n] \in {Flat("None"), TypeOf(DefaultOf(n))}
  <2> TAKE n \in cols
  <2>1. PICK p \in plain : p.v = n /\ DefaultOf(n) = p.default
    OBVIOUS
  <2>2. Consistent(p.default) /\ fr.dyn[n] \in {Flat("None"), TypeOf(p.default)}
    BY <1>1, <2>1 DEF DefaultFits
  <2>3. ConstantIsGiven(p.default) /\ ~HasBlankNode(p.default)
    BY <2>1 DEF DefaultIsGiven
  <2> HIDE DEF DefaultOf
  <2> QED
    BY <2>1, <2>2, <2>3 DEF ConstantIsGiven
<1> HIDE DEF DefaultOf, cols
<1>5. ASSUME NEW r \in DOMAIN fr.rows
      PROVE  FineRow(dyn, rows[r], lo, hi)
  <2>1. DOMAIN fr.rows[r] = DOMAIN fr.dyn /\ \A n \in DOMAIN fr.dyn : Fine(fr.dyn[n], fr.rows[r][n], lo, hi)
    BY <1>2 DEF FineFrame, FineRows, FineRow
  <2>2. DOMAIN rows[r] = DOMAIN dyn /\ \A n \in DOMAIN dyn : rows[r][n] = Filled(n, fr.rows[r][n])
    BY <2>1
  <2>3. ASSUME NEW n \in DOMAIN dyn
        PROVE  Fine(dyn[n], rows[r][n], lo, hi)
    <3>1. Fine(fr.dyn[n], fr.rows[r][n], lo, hi) /\ rows[r][n] = Filled(n, fr.rows[r][n])
          /\ dyn[n] = IF n \in cols THEN TypeOf(DefaultOf(n)) ELSE fr.dyn[n]
      BY <2>1, <2>2
    <3> HIDE DEF rows, dyn
    <3>2. CASE n \notin cols
      BY <3>1, <3>2
    <3>3. CASE n \in cols /\ (IsNull(fr.rows[r][n]) \/ fr.dyn[n] = Flat("None"))
      BY <1>4, <3>1, <3>3 DEF Fine
    <3>4. CASE n \in cols /\ ~IsNull(fr.rows[r][n]) /\ fr.dyn[n] # Flat("None")
      BY <1>4, <3>1, <3>4
    <3> QED
      BY <3>2, <3>3, <3>4
  <2> HIDE DEF rows, dyn
  <2> QED
    BY <2>2, <2>3 DEF FineRow
<1>6. IsVector(rows) /\ DOMAIN rows = DOMAIN fr.rows
  <2>1. IsVector(fr.rows)
    BY <1>2 DEF FineFrame, FineRows
  <2>2. rows = [r \in DOMAIN fr.rows |-> rows[r]]
    OBVIOUS
  <2> HIDE DEF rows
  <2> QED
    BY <2>1, <2>2, VectorLike
<1>7. DOMAIN dyn = DOMAIN fr.dyn
  OBVIOUS
<1>8. FineRows(dyn, rows, lo, hi)
  <2> HIDE DEF rows, dyn
  <2> QED
    BY <1>5, <1>6 DEF FineRows
<1> HIDE DEF rows, dyn
<1> QED
  BY <1>2, <1>3, <1>7, <1>8 DEF FineFrame

\* So do the defaults of the template that is mapped.
LEMMA WithDefaultsFine ==
  ASSUME NEW fr, NEW lo, NEW hi, FineFrame(fr, lo, hi),
         NEW params, \A i \in DOMAIN params : DefaultIsGiven(params[i]),
         NEW out, out = WithDefaults(fr, params), out.ok
  PROVE  FineFrame(out, lo, hi)
<1> DEFINE ps      == {p \in ToSet(params) : ~NoDefaultFor(p)}
           missing == {p \in ps : ~Has(fr.dyn, p.v)}
           DefaultOf(n) == (CHOOSE p \in missing : p.v = n).default
           static  == [n \in {p.v : p \in missing} |-> DefaultOf(n)]
           fixed   == [fr EXCEPT !.static = static]
<1>1. out = FillNullsWithDefaults(fixed, ps \ missing)
  BY DEF WithDefaults
<1>2. \A p \in ps : ~NoDefaultFor(p) /\ DefaultIsGiven(p)
  BY DEF ToSet
<1>3. \A n \in DOMAIN static : ConstantIsGiven(static[n])
  <2> TAKE n \in DOMAIN static
  <2>1. PICK p \in missing : p.v = n /\ DefaultOf(n) = p.default
    OBVIOUS
  <2>2. static[n] = p.default
    BY <2>1
  <2>3. p \in ps
    OBVIOUS
  <2> HIDE DEF ps, static
  <2> QED
    BY <1>2, <2>2, <2>3 DEF DefaultIsGiven
<1> HIDE DEF static
<1>4. FineFrame(fixed, lo, hi)
  BY <1>3 DEF FineFrame
<1>5. PICK rest, it : rest = ps \ missing /\ it = fixed
  OBVIOUS
<1>6. \A p \in rest : ~NoDefaultFor(p) /\ DefaultIsGiven(p)
  BY <1>2, <1>5
<1> HIDE DEF ps, missing, fixed
<1> QED
  BY <1>1, <1>4, <1>5, <1>6, FilledFine

\* Expanding lists keeps a frame fine.
LEMMA ExpandedFine ==
  ASSUME GivenAreOthers, NEW fr, NEW lo, NEW hi, FineFrame(fr, lo, hi),
         NEW le, NEW cols, IsFiniteSet(cols), NEW out, out = ExpandLists(fr, le, cols), out.ok
  PROVE  FineFrame(out, lo, hi) /\ out.counter = fr.counter
<1>1. CASE le = "none" \/ cols = {}
  BY <1>1 DEF ExpandLists
<1>2. CASE ~(le = "none" \/ cols = {})
  <2>1. ~Failed.ok
    BY DEF Failed
  <2> DEFINE dyn == [n \in DOMAIN fr.dyn |-> IF n \in cols THEN fr.dyn[n].of ELSE fr.dyn[n]]
             rows == Exploded(fr.rows, le, cols)
  <2>2. /\ \A n \in cols : Has(fr.dyn, n) /\ fr.dyn[n].k = "Nested"
        /\ out = [fr EXCEPT !.dyn = dyn, !.rows = rows]
    BY <1>2, <2>1, Zenon DEF ExpandLists
  <2>3. cols \subseteq DOMAIN fr.dyn /\ \A n \in cols : fr.dyn[n].k = "Nested"
    BY <2>2 DEF Has
  <2>4. PICK dyn0, rows0, new : dyn0 = fr.dyn /\ rows0 = fr.rows /\ new = dyn
    OBVIOUS
  <2>5. FineRows(dyn0, rows0, lo, hi)
    BY <2>4 DEF FineFrame
  <2>6. FineRows(new, Exploded(rows0, le, cols), lo, hi)
    BY <2>3, <2>4, <2>5, ExplodedFine
  <2>7. DOMAIN dyn = DOMAIN fr.dyn
    OBVIOUS
  <2>8. FineRows(dyn, rows, lo, hi)
    BY <2>4, <2>6
  <2> HIDE DEF dyn, rows
  <2>9. /\ DOMAIN out = {"ok", "skip", "table", "rows", "dyn", "static", "counter"}
        /\ out.ok /\ ~out.skip /\ out.table = fr.table /\ out.rows = rows /\ out.dyn = dyn
        /\ out.static = fr.static /\ out.counter = fr.counter
    BY <2>2 DEF FineFrame
  <2> QED
    BY <2>7, <2>8, <2>9 DEF FineFrame
<1> QED
  BY <1>1, <1>2

\* What is known of an argument by the way it is passed on.
LEMMA KindTells ==
  ASSUME NEW a, NEW p, NEW calling, NEW fr, NEW kind, kind = ArgumentKind(a, p, calling, fr)
  PROVE  /\ kind = "column" => Has(fr.dyn, a.t.n)
         /\ kind = "expand" =>
              \/ a.t.k = "const" /\ ~HasBlankNode(a.t.c) /\ Consistent(a.t.c)
              \/ /\ a.t.k # "const" /\ Has(fr.static, a.t.n)
                 /\ ~HasBlankNode(fr.static[a.t.n]) /\ Consistent(fr.static[a.t.n])
         /\ kind = "static" => a.t.k = "const" \/ Has(fr.static, a.t.n)
         /\ kind = "default" => ~NoDefaultFor(p)
<1>1. CASE a.t.k = "list"
  BY <1>1 DEF ArgumentKind
<1>2. CASE a.t.k = "const"
  BY <1>2 DEF ArgumentKind
<1>3. CASE a.t.k # "list" /\ a.t.k # "const"
  <2>1. CASE Has(fr.dyn, a.t.n)
    BY <1>3, <2>1 DEF ArgumentKind
  <2>2. CASE ~Has(fr.dyn, a.t.n) /\ Has(fr.static, a.t.n)
    BY <1>3, <2>2 DEF ArgumentKind
  <2>3. CASE ~Has(fr.dyn, a.t.n) /\ ~Has(fr.static, a.t.n)
    BY <1>3, <2>3 DEF ArgumentKind
  <2> QED
    BY <2>1, <2>2, <2>3
<1> QED
  BY <1>1, <1>2, <1>3

\* What an instance passes to its template is fine: its blank nodes have the
\* numbers from lo, one for each row, and it counts them.
LEMMA RemappedFine ==
  ASSUME GivenAreOthers, NEW lo \in Nat, NEW hi \in Nat, NEW fr, FineFrame(fr, lo, hi),
         NEW h, h = (IF fr.table THEN Len(fr.rows) ELSE 1), NEW layer, NEW num,
         NEW inst, IsVector(inst.args), \A j \in DOMAIN inst.args : ArgumentIsGiven(inst.args[j]),
         NEW params, \A i \in DOMAIN params : DefaultIsGiven(params[i]), NEW calling,
         NEW made, made = CreateRemapped(lo, layer, num, inst, params, calling, fr, h), made.ok, ~made.skip
  PROVE  /\ made.counter \in Nat /\ lo <= made.counter
         /\ \A top \in Nat : hi <= top /\ made.counter <= top => FineFrame(made, lo, top)
<1> DEFINE as      == inst.args
           kind    == [i \in DOMAIN as \cap DOMAIN params |-> ArgumentKind(as[i], params[i], calling, fr)]
           Is(ks)  == {i \in DOMAIN kind : kind[i] \in ks}
           Names(is)     == {params[i].v : i \in is}
           Source(is, n) == CHOOSE i \in is : params[i].v = n
           stops   == Is({"skip", "fail"})
           columns == Is({"column", "blank", "expand"})
           fixed   == Is({"static", "default"})
           Const(i) == CASE kind[i] = "default" -> params[i].default
                         [] kind[i] # "default" /\ as[i].t.k = "const" -> as[i].t.c
                         [] OTHER -> fr.static[as[i].t.n]
           Value(i, r) == CASE kind[i] = "column" -> fr.rows[r][as[i].t.n]
                            [] kind[i] = "blank"  -> Raw(BlankName(as[i].t.c.v, layer, num, lo + r - 1))
                            [] kind[i] = "expand" -> ValueOf(Const(i))
           Mct(i)  == CASE kind[i] = "column" -> fr.dyn[as[i].t.n]
                        [] kind[i] = "blank"  -> Flat("Blank")
                        [] kind[i] = "expand" -> TypeOf(Const(i))
           height  == CASE Is({"column", "blank"}) # {} -> h
                        [] Is({"column", "blank"}) = {} /\ columns # {} -> 1
                        [] OTHER -> 0
           count   == lo + IF Is({"blank"}) = {} THEN 0 ELSE h
           rows    == [r \in 1..height |-> [n \in Names(columns) |-> Value(Source(columns, n), r)]]
           dyn     == [n \in Names(columns) |-> Mct(Source(columns, n))]
           static  == [n \in Names(fixed) |-> Const(Source(fixed, n))]
           frame   == [ok |-> TRUE, skip |-> FALSE, table |-> TRUE, rows |-> rows, dyn |-> dyn, static |-> static,
                       counter |-> count]
           cols    == Names({i \in DOMAIN kind : as[i].expand})
           expanded == ExpandLists(frame, inst.expander, cols)
           filled  == {p \in ToSet(params) : Has(fr.dyn, p.v) /\ ~NoDefaultFor(p)}
<1>1. stops = {} /\ made = FillNullsWithDefaults(expanded, filled)
  <2>1. ~Failed.ok /\ Skipped.skip
    BY DEF Failed, Skipped
  <2>2. made = CASE stops = {} -> FillNullsWithDefaults(expanded, filled)
                 [] stops # {} /\ kind[CHOOSE i \in stops : \A j \in stops : i <= j] = "skip" -> Skipped
                 [] OTHER -> Failed
    BY DEF CreateRemapped
  <2> HIDE DEF stops, expanded, filled, kind
  <2> QED
    BY <2>1, <2>2
<1>2. h \in Nat
  BY DEF FineFrame, FineRows, IsVector
<1>3. count \in Nat /\ lo <= count
  <2> HIDE DEF kind
  <2> QED
    BY <1>2
<1>4. ASSUME NEW i \in DOMAIN kind
      PROVE  /\ kind[i] = ArgumentKind(as[i], params[i], calling, fr)
             /\ ArgumentIsGiven(as[i]) /\ DefaultIsGiven(params[i]) /\ params[i] \in ToSet(params)
  BY DEF ToSet
<1>5. ASSUME NEW i \in DOMAIN kind
      PROVE  /\ kind[i] = "column" => Has(fr.dyn, as[i].t.n)
             /\ kind[i] = "expand" =>
                  \/ as[i].t.k = "const" /\ ~HasBlankNode(as[i].t.c) /\ Consistent(as[i].t.c)
                  \/ /\ as[i].t.k # "const" /\ Has(fr.static, as[i].t.n)
                     /\ ~HasBlankNode(fr.static[as[i].t.n]) /\ Consistent(fr.static[as[i].t.n])
             /\ kind[i] = "static" => as[i].t.k = "const" \/ Has(fr.static, as[i].t.n)
             /\ kind[i] = "default" => ~NoDefaultFor(params[i])
  <2>1. PICK a, p, k : a = as[i] /\ p = params[i] /\ k = kind[i]
    OBVIOUS
  <2>2. k = ArgumentKind(a, p, calling, fr)
    BY <1>4, <2>1
  <2> HIDE DEF kind
  <2> QED
    BY <2>1, <2>2, KindTells
<1> HIDE DEF kind
<1>6. ASSUME NEW i \in DOMAIN kind, kind[i] \in {"static", "default"}
      PROVE  ConstantIsGiven(Const(i))
  <2>1. CASE kind[i] = "default"
    <3>1. DefaultIsGiven(params[i]) /\ ~NoDefaultFor(params[i])
      BY <1>4, <1>5, <2>1
    <3>2. Const(i) = params[i].default
      BY <2>1
    <3> QED
      BY <3>1, <3>2 DEF DefaultIsGiven
  <2>2. CASE kind[i] = "static" /\ as[i].t.k = "const"
    <3>1. ArgumentIsGiven(as[i])
      BY <1>4
    <3>2. Const(i) = as[i].t.c
      BY <2>2
    <3> QED
      BY <2>2, <3>1, <3>2 DEF ArgumentIsGiven
  <2>3. CASE kind[i] = "static" /\ as[i].t.k # "const"
    <3>1. as[i].t.n \in DOMAIN fr.static
      BY <1>5, <2>3 DEF Has
    <3>2. Const(i) = fr.static[as[i].t.n]
      BY <2>3
    <3> QED
      BY <3>1, <3>2 DEF FineFrame
  <2> QED
    BY <1>6, <2>1, <2>2, <2>3
<1>7. ASSUME NEW i \in DOMAIN kind, kind[i] = "expand"
      PROVE  IsGiven(TypeOf(Const(i)), ValueOf(Const(i)))
  <2>1. CASE as[i].t.k = "const"
    <3>1. ArgumentIsGiven(as[i]) /\ ~HasBlankNode(as[i].t.c) /\ Consistent(as[i].t.c)
      BY <1>4, <1>5, <1>7, <2>1
    <3>2. Const(i) = as[i].t.c
      BY <1>7, <2>1
    <3> QED
      BY <2>1, <3>1, <3>2 DEF ArgumentIsGiven, ConstantIsGiven
  <2>2. CASE as[i].t.k # "const"
    <3>1. as[i].t.n \in DOMAIN fr.static /\ ~HasBlankNode(fr.static[as[i].t.n]) /\ Consistent(fr.static[as[i].t.n])
      BY <1>5, <1>7, <2>2 DEF Has
    <3>2. Const(i) = fr.static[as[i].t.n]
      BY <1>7, <2>2
    <3> QED
      BY <3>1, <3>2 DEF FineFrame, ConstantIsGiven
  <2> QED
    BY <2>1, <2>2
<1>8. ASSUME NEW top \in Nat, hi <= top, count <= top
      PROVE  FineFrame(frame, lo, top)
  <2>1. ASSUME NEW i \in columns, NEW r \in 1..height
        PROVE  Fine(Mct(i), Value(i, r), lo, top)
    <3>1. CASE kind[i] = "column"
      <4>1. as[i].t.n \in DOMAIN fr.dyn
        BY <1>5, <3>1 DEF Has
      <4>2. height = h
        BY <3>1
      <4>3. h = Len(fr.rows) /\ DOMAIN fr.rows = 1..Len(fr.rows)
        BY <4>1 DEF FineFrame, FineRows, IsVector
      <4>4. r \in DOMAIN fr.rows
        BY <2>1, <4>2, <4>3
      <4>5. Fine(fr.dyn[as[i].t.n], fr.rows[r][as[i].t.n], lo, hi)
        BY <4>1, <4>4 DEF FineFrame, FineRows, FineRow
      <4>6. Fine(fr.dyn[as[i].t.n], fr.rows[r][as[i].t.n], lo, top)
        BY <1>8, <4>5, FineGrows
      <4>7. Mct(i) = fr.dyn[as[i].t.n] /\ Value(i, r) = fr.rows[r][as[i].t.n]
        BY <3>1
      <4> QED
        BY <4>6, <4>7
    <3>2. CASE kind[i] = "blank"
      <4>1. height = h /\ count = lo + h
        BY <3>2
      <4>2. PICK n : n = lo + r - 1
        OBVIOUS
      <4>3. r \in Nat /\ 1 <= r /\ r <= h
        BY <1>2, <2>1, <4>1
      <4>4. n \in Nat /\ lo <= n /\ n < top
        BY <1>2, <1>8, <4>1, <4>2, <4>3
      <4>5. Mct(i) = Flat("Blank") /\ Value(i, r) = Raw(<<"c", as[i].t.c.v, layer, num, n>>)
        BY <3>2, <4>2 DEF BlankName
      <4> HIDE DEF Mct, Value
      <4> QED
        BY <4>4, <4>5 DEF Fine, IsBlankOf
    <3>3. CASE kind[i] = "expand"
      <4>1. Mct(i) = TypeOf(Const(i)) /\ Value(i, r) = ValueOf(Const(i))
        BY <3>3
      <4> HIDE DEF Mct, Value, Const
      <4> QED
        BY <1>7, <3>3, <4>1 DEF Fine
    <3> QED
      BY <3>1, <3>2, <3>3
  <2>2. \A n \in Names(columns) : Source(columns, n) \in columns
    OBVIOUS
  <2>3. \A n \in Names(fixed) : Source(fixed, n) \in fixed
    OBVIOUS
  <2>4. height \in Nat
    BY <1>2
  <2> HIDE DEF Mct, Value, Const, columns, fixed, Source, height
  <2>5. \A n \in DOMAIN static : ConstantIsGiven(static[n])
    <3> TAKE n \in DOMAIN static
    <3>1. PICK i : i = Source(fixed, n)
      OBVIOUS
    <3>2. i \in fixed /\ static[n] = Const(i)
      BY <2>3, <3>1
    <3>3. i \in DOMAIN kind /\ kind[i] \in {"static", "default"}
      BY <3>2 DEF fixed
    <3> QED
      BY <1>6, <3>2, <3>3
  <2>6. \A r \in 1..height : FineRow(dyn, rows[r], lo, top)
    <3> TAKE r \in 1..height
    <3>1. \A n \in Names(columns) : rows[r][n] = Value(Source(columns, n), r) /\ dyn[n] = Mct(Source(columns, n))
      OBVIOUS
    <3>2. DOMAIN rows[r] = Names(columns) /\ DOMAIN dyn = Names(columns)
      OBVIOUS
    <3> HIDE DEF rows, dyn, Names
    <3> QED
      BY <2>1, <2>2, <3>1, <3>2 DEF FineRow
  <2>7. DOMAIN rows = 1..height
    OBVIOUS
  <2> HIDE DEF rows, dyn, static
  <2>8. IsVector(rows)
    <3>1. PICK n : n = height
      OBVIOUS
    <3>2. n \in Nat /\ DOMAIN rows = 1..n
      BY <2>4, <2>7, <3>1
    <3>3. rows = [r \in 1..n |-> rows[r]]
      BY <1>2, <3>2 DEF rows
    <3>4. rows \in [1..n -> ToSet(rows)]
      BY <3>2, <3>3 DEF ToSet
    <3> QED
      BY <3>2, <3>4 DEF IsVector
  <2>9. FineRows(dyn, rows, lo, top)
    BY <2>6, <2>7, <2>8 DEF FineRows
  <2>10. /\ DOMAIN frame = {"ok", "skip", "table", "rows", "dyn", "static", "counter"}
         /\ frame.ok /\ ~frame.skip /\ frame.table /\ frame.rows = rows /\ frame.dyn = dyn
         /\ frame.static = static /\ frame.counter = count
    OBVIOUS
  <2> HIDE DEF frame, count
  <2> QED
    BY <1>3, <1>8, <2>5, <2>9, <2>10 DEF FineFrame
<1>9. IsFiniteSet(cols)
  <2>1. IsFiniteSet(DOMAIN as)
    <3>1. Len(as) \in Nat /\ DOMAIN as = 1..Len(as)
      BY DEF IsVector
    <3> QED
      BY <3>1, FS_Interval
  <2>2. DOMAIN kind \subseteq DOMAIN as
    BY DEF kind
  <2>3. PICK S : S = {i \in DOMAIN kind : as[i].expand}
    OBVIOUS
  <2>4. IsFiniteSet(S)
    BY <2>1, <2>2, <2>3, FS_Subset
  <2>5. PICK f : f = [i \in S |-> params[i].v]
    OBVIOUS
  <2>6. IsFiniteSet({f[i] : i \in S})
    BY <2>4, <2>5, FiniteRange
  <2>7. cols = {f[i] : i \in S}
    BY <2>3, <2>5
  <2> QED
    BY <2>6, <2>7
<1>10. \A p \in filled : ~NoDefaultFor(p) /\ DefaultIsGiven(p)
  BY DEF ToSet
<1> HIDE DEF frame, count, cols, filled
<1>11. ASSUME NEW top \in Nat, hi <= top, count <= top
       PROVE  FineFrame(made, lo, top) /\ made.counter = count
  <2>1. FineFrame(frame, lo, top)
    BY <1>8, <1>11
  <2>2. PICK f, c, ps, le, out :
          f = frame /\ c = cols /\ ps = filled /\ le = inst.expander /\ out = ExpandLists(f, le, c)
    OBVIOUS
  <2>3. made = FillNullsWithDefaults(out, ps)
    BY <1>1, <2>2
  <2>4. FineFrame(f, lo, top) /\ IsFiniteSet(c)
    BY <1>9, <2>1, <2>2
  <2>5. out.ok => FineFrame(out, lo, top) /\ out.counter = f.counter
    BY <2>2, <2>4, ExpandedFine
  <2>6. \A p \in ps : ~NoDefaultFor(p) /\ DefaultIsGiven(p)
    BY <1>10, <2>2
  <2>7. FineFrame(made, lo, top) /\ made.counter = out.counter
    BY <2>3, <2>5, <2>6, FilledFine
  <2>8. out.ok
    BY <2>3 DEF FillNullsWithDefaults, Failed
  <2>9. f.counter = count
    BY <2>2 DEF frame
  <2> QED
    BY <2>5, <2>7, <2>8, <2>9
<1>12. made.counter = count
  <2>1. PICK c : c = count
    OBVIOUS
  <2>2. PICK top \in Nat : hi <= top /\ c <= top
    BY <1>3, <2>1
  <2> QED
    BY <1>11, <2>1, <2>2
<1> QED
  BY <1>3, <1>11, <1>12

-----------------------------------------------------------------------------
(* The triples.                                                            *)

\* A blank node that a mapping named has a number from lo and below hi.
Numbered(x, lo, hi) ==
  x.type = "Blank" /\ x.v[1] \in {"c", "l"} => NumberOf(x.v) \in Nat /\ lo <= NumberOf(x.v) /\ NumberOf(x.v) < hi

\* The terms of fine values, IRIs, and the nodes of lists.
LEMMA TermNumbered ==
  ASSUME GivenAreOthers, NEW m, m.k # "Nested", NEW v, NEW lo \in Nat, NEW hi \in Nat, NEW top \in Nat, hi <= top,
         Fine(m, v, lo, hi), NEW x, x = Term(m, v), x # Null
  PROVE  Numbered(x, lo, top)
<1>1. ~IsNull(v) /\ x.type = m.of /\ x.v = v.v
  BY DEF Term
<1>2. CASE IsGiven(m, v)
  <2>1. Given(m, v)
    BY <1>1, <1>2 DEF IsGiven
  <2>2. m.of = "Blank" => v.v[1] \notin {"c", "l"}
    BY <2>1 DEF GivenAreOthers
  <2> QED
    BY <1>1, <2>2 DEF Numbered
<1>3. CASE IsBlankOf(m, v, lo, hi)
  <2>1. PICK label, layer, num : \E n \in Nat : v = Raw(<<"c", label, layer, num, n>>) /\ lo <= n /\ n < hi
    BY <1>3 DEF IsBlankOf
  <2>2. PICK n \in Nat : v = Raw(<<"c", label, layer, num, n>>) /\ lo <= n /\ n < hi
    BY <2>1
  <2>3. x.v = <<"c", label, layer, num, n>>
    BY <1>1, <2>2 DEF Raw
  <2>4. NumberOf(x.v) = n
    BY <2>3 DEF NumberOf
  <2>5. n < top
    BY <2>2
  <2> QED
    BY <2>2, <2>4, <2>5 DEF Numbered
<1> QED
  BY <1>2, <1>3 DEF Fine

LEMMA IriNumbered ==
  ASSUME NEW v, NEW lo, NEW hi
  PROVE  Numbered(IriTerm(v), lo, hi)
BY DEF Numbered, IriTerm

LEMMA NodeNumbered ==
  ASSUME NEW i, NEW n \in Nat, NEW pos, NEW lo \in Nat, NEW hi \in Nat, lo <= n, n < hi
  PROVE  Numbered(ListNode(i, n, pos), lo, hi)
<1>1. PICK v : v = <<"l", i, n, pos>>
  OBVIOUS
<1>2. NumberOf(v) = n
  BY <1>1 DEF NumberOf
<1>3. ListNode(i, n, pos).v = v
  BY <1>1 DEF ListNode
<1> QED
  BY <1>2, <1>3 DEF Numbered

\* All terms of a triple, but for nulls.
TripleNumbered(t, lo, hi) == \A x \in {t[1], t[2], t[3]} : x # Null => Numbered(x, lo, hi)

\* The triples of a list.
LEMMA ListNumbered ==
  ASSUME GivenAreOthers, NEW i, NEW n \in Nat, NEW lo \in Nat, NEW hi \in Nat, lo <= n, n < hi,
         NEW m, m.k # "Nested", NEW items, \A j \in DOMAIN items : IsGiven(m, items[j])
  PROVE  \A t \in CreateListTriples(i, n, m, items) : TripleNumbered(t, lo, hi)
<1> TAKE t \in CreateListTriples(i, n, m, items)
<1>1. \A pos : Numbered(ListNode(i, n, pos), lo, hi)
  BY NodeNumbered
<1>2. Numbered(RdfFirst, lo, hi) /\ Numbered(RdfRest, lo, hi) /\ Numbered(RdfNil, lo, hi)
  BY IriNumbered DEF RdfFirst, RdfRest, RdfNil
<1>3. ASSUME NEW j \in DOMAIN items, Term(m, items[j]) # Null
      PROVE  Numbered(Term(m, items[j]), lo, hi)
  <2>1. PICK v, x : v = items[j] /\ x = Term(m, v)
    OBVIOUS
  <2>2. Fine(m, v, lo, hi)
    BY <2>1 DEF Fine
  <2>3. x # Null /\ hi <= hi
    BY <1>3, <2>1
  <2>4. Numbered(x, lo, hi)
    BY <2>1, <2>2, <2>3, TermNumbered
  <2> QED
    BY <2>1, <2>4
<1> DEFINE Nd(j) == ListNode(i, n, Cardinality({a \in 1..j : ~IsNull(items[a])}) - 1)
<1>4. CASE \E j \in DOMAIN items : t = <<Nd(j), RdfFirst, Term(m, items[j])>>
  <2>1. PICK j \in DOMAIN items : t = <<Nd(j), RdfFirst, Term(m, items[j])>>
    BY <1>4
  <2>2. t[1] = Nd(j) /\ t[2] = RdfFirst /\ t[3] = Term(m, items[j])
    BY <2>1
  <2>3. Numbered(Nd(j), lo, hi)
    BY <1>1
  <2> HIDE DEF Nd
  <2> QED
    BY <1>2, <1>3, <2>2, <2>3 DEF TripleNumbered
<1>5. CASE \E j \in DOMAIN items : t = <<Nd(j), RdfRest, IF j = Len(items) THEN RdfNil ELSE Nd(j + 1)>>
  <2>1. PICK j \in DOMAIN items : t = <<Nd(j), RdfRest, IF j = Len(items) THEN RdfNil ELSE Nd(j + 1)>>
    BY <1>5
  <2>2. t[1] = Nd(j) /\ t[2] = RdfRest /\ t[3] \in {RdfNil, Nd(j + 1)}
    BY <2>1
  <2>3. Numbered(Nd(j), lo, hi) /\ Numbered(Nd(j + 1), lo, hi)
    BY <1>1
  <2> HIDE DEF Nd
  <2> QED
    BY <1>2, <2>2, <2>3 DEF TripleNumbered
<1> QED
  BY <1>4, <1>5 DEF CreateListTriples

\* The triples of a frame, whose lists are numbered from the counter that the
\* expansion ended with.
LEMMA CreatedNumbered ==
  ASSUME GivenAreOthers, NEW lo \in Nat, NEW hi \in Nat, lo <= hi, NEW fr, FineFrame(fr, lo, hi), NEW i,
         NEW made, made = CreateTriples(i, hi, fr), made.ok
  PROVE  /\ made.counter \in Nat /\ hi <= made.counter
         /\ \A t \in made.triples : TripleNumbered(t, lo, made.counter)
<1> DEFINE dummy == IF DOMAIN fr.dyn = {} /\ fr.rows = <<>> THEN <<[n \in {} |-> Null]>> ELSE fr.rows
           moved == DOMAIN fr.static \ {"predicate"}
           dyn   == [n \in moved \cup DOMAIN fr.dyn |-> IF n \in moved THEN TypeOf(fr.static[n]) ELSE fr.dyn[n]]
           Of(n, r) == IF n \in moved THEN ValueOf(fr.static[n]) ELSE dummy[r][n]
           Nd(n, k, r) ==
             IF dyn[n].k = "Nested" THEN ListNode(k, hi + r - 1, 0) ELSE Term(dyn[n], Of(n, r))
           Predicate(r) == IF Has(fr.static, "predicate") THEN IriTerm(fr.static["predicate"].v)
                           ELSE LET v == dummy[r]["predicate"] IN IF IsNull(v) THEN Null ELSE IriTerm(v.v)
           Lists0(n, k) == IF dyn[n].k # "Nested" THEN {}
                           ELSE UNION {CreateListTriples(k, hi + r - 1, dyn[n].of, Items(Of(n, r))) : r \in DOMAIN dummy}
           Deep(n)     == dyn[n].k = "Nested" /\ dyn[n].of.k = "Nested"
           ends  == {<<Nd("subject", i, r), Predicate(r), Nd("object", i + 1, r)>> : r \in DOMAIN dummy}
           count == hi + IF "Nested" \in {dyn["subject"].k, dyn["object"].k} THEN Len(dummy) ELSE 0
<1>1. /\ \A n \in moved : ~HasBlankNode(fr.static[n]) /\ Consistent(fr.static[n])
      /\ {"subject", "object"} \subseteq DOMAIN dyn
      /\ ~Deep("subject") /\ ~Deep("object")
      /\ made.triples = ends \cup Lists0("subject", i) \cup Lists0("object", i + 1)
      /\ made.counter = count
  <2> DEFINE bad == \/ Has(fr.static, "predicate") /\ fr.static["predicate"].k # "iri"
                    \/ \E n \in moved : HasBlankNode(fr.static[n]) \/ ~Consistent(fr.static[n])
                    \/ ~({"subject", "object"} \subseteq DOMAIN dyn)
                    \/ ~Has(fr.static, "predicate") /\ ~Has(dyn, "predicate")
                    \/ Deep("subject") \/ Deep("object")
             good == [ok |-> TRUE, triples |-> ends \cup Lists0("subject", i) \cup Lists0("object", i + 1), counter |-> count]
  <2>1. made = IF bad THEN Failed ELSE good
    BY Zenon DEF CreateTriples
  <2>2. ~Failed.ok
    BY DEF Failed
  <2>3. ~bad /\ made = good
    <3> HIDE DEF bad, good
    <3> QED
      BY <2>1, <2>2
  <2>4. good.triples = ends \cup Lists0("subject", i) \cup Lists0("object", i + 1) /\ good.counter = count
    OBVIOUS
  <2> HIDE DEF good, ends, count, Lists0, dyn, Deep, moved
  <2> QED
    BY <2>3, <2>4
<1>2. Len(dummy) \in Nat /\ DOMAIN dummy = 1..Len(dummy)
  <2>1. IsVector(fr.rows)
    BY DEF FineFrame, FineRows
  <2>2. Len(fr.rows) \in Nat /\ DOMAIN fr.rows = 1..Len(fr.rows)
    BY <2>1 DEF IsVector
  <2>3. \A x : Len(<<x>>) = 1 /\ DOMAIN <<x>> = 1..1
    OBVIOUS
  <2>4. CASE DOMAIN fr.dyn = {} /\ fr.rows = <<>>
    <3>1. PICK x : dummy = <<x>>
      BY <2>4
    <3> HIDE DEF dummy
    <3> QED
      BY <2>3, <3>1
  <2>5. CASE ~(DOMAIN fr.dyn = {} /\ fr.rows = <<>>)
    <3>1. dummy = fr.rows
      BY <2>5
    <3> QED
      BY <2>2, <3>1
  <2> QED
    BY <2>4, <2>5
<1> HIDE DEF dummy
<1>3. count \in Nat /\ hi <= count
  <2> HIDE DEF dyn
  <2> QED
    BY <1>2
<1>4. ASSUME NEW n \in DOMAIN dyn, NEW r \in DOMAIN dummy
      PROVE  Fine(dyn[n], Of(n, r), lo, hi)
  <2>1. CASE n \in moved
    <3>1. ConstantIsGiven(fr.static[n]) /\ ~HasBlankNode(fr.static[n]) /\ Consistent(fr.static[n])
      BY <1>1, <2>1 DEF FineFrame
    <3>2. dyn[n] = TypeOf(fr.static[n]) /\ Of(n, r) = ValueOf(fr.static[n])
      BY <2>1
    <3> QED
      BY <3>1, <3>2 DEF ConstantIsGiven, Fine
  <2>2. CASE n \notin moved
    <3>1. n \in DOMAIN fr.dyn /\ dyn[n] = fr.dyn[n] /\ Of(n, r) = dummy[r][n]
      BY <1>4, <2>2
    <3>2. dummy = fr.rows
      BY <3>1 DEF dummy
    <3>3. Fine(fr.dyn[n], fr.rows[r][n], lo, hi)
      BY <3>1, <3>2 DEF FineFrame, FineRows, FineRow
    <3> QED
      BY <3>1, <3>2, <3>3
  <2> QED
    BY <2>1, <2>2
<1> HIDE DEF dyn, Of, moved
<1>5. ASSUME NEW n \in {"subject", "object"}, dyn[n].k = "Nested", NEW r \in DOMAIN dummy
      PROVE  hi + r - 1 \in Nat /\ lo <= hi + r - 1 /\ hi + r - 1 < count
  <2>1. count = hi + Len(dummy)
    BY <1>5
  <2>2. PICK len : len = Len(dummy)
    OBVIOUS
  <2>3. len \in Nat /\ r \in 1..len /\ count = hi + len
    BY <1>2, <1>5, <2>1, <2>2
  <2> HIDE DEF count
  <2> QED
    BY <2>3
<1>6. ASSUME NEW n \in {"subject", "object"}, NEW k, NEW r \in DOMAIN dummy, Nd(n, k, r) # Null
      PROVE  Numbered(Nd(n, k, r), lo, count)
  <2>1. CASE dyn[n].k = "Nested"
    <3>1. PICK at : at = hi + r - 1
      OBVIOUS
    <3>2. at \in Nat /\ lo <= at /\ at < count
      BY <1>5, <2>1, <3>1
    <3>3. Nd(n, k, r) = ListNode(k, at, 0)
      BY <2>1, <3>1
    <3> HIDE DEF Nd, count
    <3> QED
      BY <1>3, <3>2, <3>3, NodeNumbered
  <2>2. CASE dyn[n].k # "Nested"
    <3>1. PICK m, v, x, top : m = dyn[n] /\ v = Of(n, r) /\ x = Nd(n, k, r) /\ top = count
      OBVIOUS
    <3>2. x = Term(m, v) /\ m.k # "Nested" /\ x # Null
      BY <1>6, <2>2, <3>1
    <3>3. Fine(m, v, lo, hi)
      BY <1>1, <1>4, <3>1
    <3>4. top \in Nat /\ hi <= top
      BY <1>3, <3>1
    <3>5. Numbered(x, lo, top)
      BY <3>2, <3>3, <3>4, TermNumbered
    <3> QED
      BY <3>1, <3>5
  <2> QED
    BY <2>1, <2>2
<1>7. ASSUME NEW t \in ends
      PROVE  TripleNumbered(t, lo, count)
  <2>1. PICK r \in DOMAIN dummy : t = <<Nd("subject", i, r), Predicate(r), Nd("object", i + 1, r)>>
    OBVIOUS
  <2>2. PICK s, p, o : s = Nd("subject", i, r) /\ p = Predicate(r) /\ o = Nd("object", i + 1, r)
    OBVIOUS
  <2>3. t[1] = s /\ t[2] = p /\ t[3] = o
    BY <2>1, <2>2
  <2>4. p # Null => Numbered(p, lo, count)
    <3>1. p = Null \/ \E v : p = IriTerm(v)
      BY <2>2
    <3> HIDE DEF count
    <3> QED
      BY <3>1, IriNumbered
  <2>5. (s # Null => Numbered(s, lo, count)) /\ (o # Null => Numbered(o, lo, count))
    BY <1>6, <2>2
  <2> HIDE DEF count
  <2> QED
    BY <2>3, <2>4, <2>5 DEF TripleNumbered
<1>8. ASSUME NEW n \in {"subject", "object"}, NEW k, NEW t \in Lists0(n, k), ~Deep(n)
      PROVE  TripleNumbered(t, lo, count)
  <2>1. dyn[n].k = "Nested" /\ \E r \in DOMAIN dummy : t \in CreateListTriples(k, hi + r - 1, dyn[n].of, Items(Of(n, r)))
    BY <1>8
  <2>2. PICK r \in DOMAIN dummy : t \in CreateListTriples(k, hi + r - 1, dyn[n].of, Items(Of(n, r)))
    BY <2>1
  <2>3. PICK at, m, v, items, top : at = hi + r - 1 /\ m = dyn[n] /\ v = Of(n, r) /\ items = Items(v) /\ top = count
    OBVIOUS
  <2>4. at \in Nat /\ lo <= at /\ at < top /\ top \in Nat
    BY <1>3, <1>5, <2>1, <2>3
  <2>5. m.k = "Nested" /\ m.of.k # "Nested"
    BY <1>8, <2>1, <2>3
  <2>6. Fine(m, v, lo, hi)
    BY <1>1, <1>4, <2>3
  <2>7. \A j \in DOMAIN items : IsGiven(m.of, items[j])
    BY <2>3, <2>5, <2>6, ItemsAreFine
  <2>8. PICK of : of = m.of
    OBVIOUS
  <2>9. \A u \in CreateListTriples(k, at, of, items) : TripleNumbered(u, lo, top)
    <3>1. of.k # "Nested" /\ \A j \in DOMAIN items : IsGiven(of, items[j])
      BY <2>5, <2>7, <2>8
    <3> QED
      BY <2>4, <3>1, ListNumbered
  <2>10. t \in CreateListTriples(k, at, of, items)
    BY <2>2, <2>3, <2>8
  <2> QED
    BY <2>3, <2>9, <2>10
<1> HIDE DEF ends, Lists0, count, Deep
<1> QED
  BY <1>1, <1>3, <1>7, <1>8

\* A sequence of some set is a list of it.
LEMMA SeqIsVector ==
  ASSUME NEW S, NEW u \in Seq(S)
  PROVE  IsVector(u) /\ \A i \in DOMAIN u : u[i] \in S
<1>1. Len(u) \in Nat /\ u \in [1..Len(u) -> S]
  OBVIOUS
<1>2. u \in [1..Len(u) -> ToSet(u)]
  BY <1>1 DEF ToSet
<1> QED
  BY <1>1, <1>2 DEF IsVector

\* Lists joined, shortened and lengthened.
LEMMA JoinedIs ==
  ASSUME NEW s, IsVector(s), NEW t, IsVector(t), NEW u, u = s \o t
  PROVE  IsVector(u) /\ \A i \in DOMAIN u : u[i] \in ToSet(s) \cup ToSet(t)
<1>1. PICK S : S = ToSet(s) \cup ToSet(t)
  OBVIOUS
<1>2. s \in Seq(S) /\ t \in Seq(S)
  BY <1>1 DEF IsVector
<1>3. u \in Seq(S)
  BY <1>2
<1> QED
  BY <1>1, <1>3, SeqIsVector

LEMMA TailIs ==
  ASSUME NEW s, IsVector(s), s # <<>>, NEW u, u = Tail(s)
  PROVE  IsVector(u) /\ (\A i \in DOMAIN u : u[i] \in ToSet(s)) /\ Head(s) \in ToSet(s)
<1>1. PICK S : S = ToSet(s)
  OBVIOUS
<1>2. s \in Seq(S)
  BY <1>1 DEF IsVector
<1>3. u \in Seq(S) /\ Head(s) \in S
  BY <1>2
<1> QED
  BY <1>1, <1>3, SeqIsVector

LEMMA AppendedIs ==
  ASSUME NEW s, IsVector(s), NEW x, NEW u, u = Append(s, x)
  PROVE  IsVector(u) /\ \A i \in DOMAIN u : u[i] \in ToSet(s) \cup {x}
<1>1. PICK S : S = ToSet(s) \cup {x}
  OBVIOUS
<1>2. s \in Seq(S) /\ x \in S
  BY <1>1 DEF IsVector
<1>3. u \in Seq(S)
  BY <1>2
<1> QED
  BY <1>1, <1>3, SeqIsVector

\* The highest of a number and the counters of finitely many.
LEMMA HighestCounter ==
  ASSUME NEW n \in Nat, NEW S, IsFiniteSet(S), NEW made, S \subseteq DOMAIN made, \A i \in S : made[i].counter \in Nat,
         NEW c, c = Highest({n} \cup {made[i].counter : i \in S})
  PROVE  c \in Nat /\ n <= c /\ \A i \in S : made[i].counter <= c
<1>1. PICK f, R, T : f = [i \in S |-> made[i].counter] /\ R = {f[i] : i \in S} /\ T = {n} \cup R
  OBVIOUS
<1>2. IsFiniteSet(R)
  BY <1>1, FiniteRange
<1>3. IsFiniteSet(T)
  <2>1. IsFiniteSet({n})
    BY FS_Singleton
  <2> QED
    BY <1>1, <1>2, <2>1, FS_Union
<1>4. T \in SUBSET Nat /\ T # {} /\ n \in T
  BY <1>1
<1>5. Highest(T) \in T /\ \A x \in T : x <= Highest(T)
  BY <1>3, <1>4, FiniteHighest
<1>6. R = {made[i].counter : i \in S}
  BY <1>1
<1>7. c = Highest(T)
  BY <1>1, <1>6
<1>8. \A i \in S : made[i].counter \in T
  BY <1>1, <1>6
<1> QED
  BY <1>4, <1>5, <1>7, <1>8

\* All triples of a mapping: no nulls, and blank nodes with numbers from lo.
LEMMA ResultsNumbered ==
  ASSUME GivenAreOthers, NEW lo \in Nat, NEW hi \in Nat, lo <= hi,
         NEW frames, IsVector(frames), \A i \in DOMAIN frames : FineFrame(frames[i], lo, hi),
         NEW made, made = ProcessResults(frames, hi), made.ok
  PROVE  /\ made.counter \in Nat /\ hi <= made.counter
         /\ \A x \in BlanksIn(made.triples) :
              NumberOf(x.v) \in Nat /\ lo <= NumberOf(x.v) /\ NumberOf(x.v) < made.counter
<1>1. PICK each : each = [i \in DOMAIN frames |-> CreateTriples(2 * (i - 1), hi, frames[i])]
  OBVIOUS
<1>2. PICK top : top = Highest({hi} \cup {each[i].counter : i \in DOMAIN each})
  OBVIOUS
<1>3. PICK all : all = {t \in UNION {each[i].triples : i \in DOMAIN each} : Null \notin {t[1], t[2], t[3]}}
  OBVIOUS
<1>4. (\A i \in DOMAIN each : each[i].ok) /\ made.counter = top /\ made.triples = all
  <2>1. made = IF \E i \in DOMAIN each : ~each[i].ok THEN Failed ELSE [ok |-> TRUE, counter |-> top, triples |-> all]
    BY <1>1, <1>2, <1>3 DEF ProcessResults
  <2>2. ~Failed.ok
    BY DEF Failed
  <2> QED
    BY <2>1, <2>2
<1>5. DOMAIN each = DOMAIN frames
  BY <1>1
<1>6. ASSUME NEW i \in DOMAIN each
      PROVE  /\ each[i].counter \in Nat /\ hi <= each[i].counter
             /\ \A t \in each[i].triples : TripleNumbered(t, lo, each[i].counter)
  <2>1. PICK e, k, fr : e = each[i] /\ k = 2 * (i - 1) /\ fr = frames[i]
    OBVIOUS
  <2>2. e = CreateTriples(k, hi, fr) /\ e.ok /\ FineFrame(fr, lo, hi)
    BY <1>1, <1>4, <1>5, <2>1
  <2>3. e.counter \in Nat /\ hi <= e.counter /\ \A t \in e.triples : TripleNumbered(t, lo, e.counter)
    BY <2>2, CreatedNumbered
  <2> QED
    BY <2>1, <2>3
<1>7. top \in Nat /\ hi <= top /\ \A i \in DOMAIN each : each[i].counter <= top
  <2>1. Len(frames) \in Nat /\ DOMAIN frames = 1..Len(frames)
    BY DEF IsVector
  <2>2. IsFiniteSet(DOMAIN each)
    BY <1>5, <2>1, FS_Interval
  <2>3. PICK S : S = DOMAIN each
    OBVIOUS
  <2>4. IsFiniteSet(S) /\ S \subseteq DOMAIN each /\ (\A i \in S : each[i].counter \in Nat)
        /\ top = Highest({hi} \cup {each[i].counter : i \in S})
    BY <1>2, <1>6, <2>2, <2>3
  <2> QED
    BY <2>3, <2>4, HighestCounter
<1>8. ASSUME NEW x \in BlanksIn(all)
      PROVE  NumberOf(x.v) \in Nat /\ lo <= NumberOf(x.v) /\ NumberOf(x.v) < top
  <2>1. x.type = "Blank" /\ x.v[1] \in {"c", "l"} /\ \E t \in all : x \in {t[1], t[2], t[3]}
    BY DEF BlanksIn
  <2>2. PICK t \in all : x \in {t[1], t[2], t[3]}
    BY <2>1
  <2>3. x # Null /\ \E i \in DOMAIN each : t \in each[i].triples
    BY <1>3, <2>2
  <2>4. PICK i \in DOMAIN each : t \in each[i].triples
    BY <2>3
  <2>5. TripleNumbered(t, lo, each[i].counter)
    BY <1>6, <2>4
  <2>6. Numbered(x, lo, each[i].counter)
    BY <2>2, <2>3, <2>5 DEF TripleNumbered
  <2>7. PICK n, c : n = NumberOf(x.v) /\ c = each[i].counter
    OBVIOUS
  <2>8. n \in Nat /\ lo <= n /\ n < c
    BY <2>1, <2>6, <2>7 DEF Numbered
  <2>9. c \in Nat /\ c <= top
    BY <1>6, <1>7, <2>7
  <2>10. n < top
    BY <1>7, <2>8, <2>9
  <2> QED
    BY <2>7, <2>8, <2>10
<1> QED
  BY <1>4, <1>7, <1>8

-----------------------------------------------------------------------------
(* BlanksApart.                                                            *)

\* What is assumed of the templates and tables of the calls: they hold given
\* values, and the check of a table leaves it its columns.
TablesMapped == {call.table : call \in Calls} \cup {KeysAsStrings(d) : d \in Defaults}
CallsGiveOthers ==
  /\ GivenAreOthers
  /\ \A doc \in Documents : \A i \in DOMAIN doc : ConstantsAreGiven(doc[i])
  /\ \A t \in Singles : ConstantsAreGiven(t)
  /\ \A d \in Defaults : \A c \in ToSet(d.columns) : ConstantIsGiven(IriConst(<<"default", c>>))
  /\ \A table \in TablesMapped : \A params, iris, valid :
       IsVector(params) /\ valid = Checked(table, params, iris) /\ valid.ok =>
         /\ IsVector(valid.rows)
         /\ \A r \in DOMAIN valid.rows : /\ DOMAIN valid.rows[r] = DOMAIN valid.dyn
                                         /\ \A n \in DOMAIN valid.dyn : IsGiven(valid.dyn[n], valid.rows[r][n])
         /\ table = NoTable => DOMAIN valid.dyn = {}

\* All templates that are held have given constants.
HeldGiven(ts) == \A n \in DOMAIN ts : ConstantsAreGiven(ts[n])

\* A mapping that is under way: what is to be expanded and what came of it is
\* fine, with blank nodes numbered from the counter of the model.
NodeFine(node, ts, lo, hi) == node.frame.skip \/ (Has(ts, node.name) /\ FineFrame(node.frame, lo, hi))
JobFine(j, ts, lo) ==
  /\ DOMAIN j = {"on", "todo", "frames", "counter", "name", "table", "valid"}
  /\ j.counter \in Nat /\ lo <= j.counter
  /\ IsVector(j.todo) /\ \A i \in DOMAIN j.todo : NodeFine(j.todo[i], ts, lo, j.counter)
  /\ IsVector(j.frames) /\ \A i \in DOMAIN j.frames : FineFrame(j.frames[i], lo, j.counter)

\* The inductive invariant: the counter has passed all that was named.
BlanksInv ==
  /\ HeldGiven(templates)
  /\ counter \in Nat
  /\ job.on => JobFine(job, templates, counter)
  /\ typing.on => ~job.on /\ typing.call.table \in TablesMapped
  /\ IsVector(named)
  /\ \A i \in DOMAIN named : \A x \in named[i] : NumberOf(x.v) \in Nat /\ NumberOf(x.v) < counter
  /\ BlanksApart

\* The template for a triple, and one made for a table.
LEMMA TripleIsGiven ==
  ConstantsAreGiven(TripleTemplate)
<1>1. TripleTemplate.body = <<>> /\ \E a, b, c :
        /\ TripleTemplate.params = <<Param("subject", a), Param("predicate", b), Param("object", c)>>
  BY DEF TripleTemplate, Template
<1>2. \A v, ty : NoDefaultFor(Param(v, ty))
  BY DEF NoDefaultFor, Param
<1>3. PICK a, b, c : TripleTemplate.params = <<a, b, c>> /\ NoDefaultFor(a) /\ NoDefaultFor(b) /\ NoDefaultFor(c)
  BY <1>1, <1>2
<1>4. \A i \in DOMAIN <<a, b, c>> : NoDefaultFor(<<a, b, c>>[i])
  BY <1>3
<1> QED
  BY <1>1, <1>3, <1>4 DEF ConstantsAreGiven, DefaultIsGiven

LEMMA DefaultHasGiven ==
  ASSUME NEW d, NEW V, V = ToSet(d.columns), d.columns \in Seq(V), d.pk \in V,
         \A c \in V : ConstantIsGiven(IriConst(<<"default", c>>))
  PROVE  ConstantsAreGiven(DefaultTemplate(d))
<1>1. PICK cols, k, rest : /\ cols = d.columns /\ k = (CHOOSE i \in DOMAIN cols : cols[i] = d.pk)
                           /\ rest = RemoveAt(cols, k)
  OBVIOUS
<1>2. k \in DOMAIN cols /\ cols \in Seq(V)
  BY <1>1 DEF ToSet
<1>3. rest \in Seq(V)
  <2>1. k \in 1..Len(cols) /\ Len(cols) \in Nat
    BY <1>2
  <2>2. SubSeq(cols, 1, k - 1) \in Seq(V) /\ SubSeq(cols, k + 1, Len(cols)) \in Seq(V)
    BY <1>2, <2>1
  <2> QED
    BY <1>1, <2>2 DEF RemoveAt
<1> DEFINE t == DefaultTemplate(d)
<1>4. DOMAIN t.params = DOMAIN cols /\ DOMAIN t.body = DOMAIN rest
  BY <1>1 DEF DefaultTemplate, Template
<1>5. \A i \in DOMAIN cols : \E p, b : t.params[i] = [p EXCEPT !.optional = b] /\ \E v, ty : p = Param(v, ty)
  BY <1>1 DEF DefaultTemplate, Template
<1>6. \A i \in DOMAIN rest :
        \E b : \/ t.body[i].args = <<Arg(VarTerm(d.pk)), Arg(DefaultPredicate(rest[i])), Arg(VarTerm(b))>>
               \/ t.body[i].args = <<Arg(VarTerm(d.pk)), Arg(DefaultPredicate(rest[i])), Expanded(VarTerm(b))>>
  BY <1>1 DEF DefaultTemplate, Template, Instance
<1> HIDE DEF t
<1>7. \A i \in DOMAIN t.params : DefaultIsGiven(t.params[i])
  <2> TAKE i \in DOMAIN t.params
  <2>1. PICK p, b : t.params[i] = [p EXCEPT !.optional = b] /\ \E v, ty : p = Param(v, ty)
    BY <1>4, <1>5
  <2>2. PICK v, ty : p = Param(v, ty)
    BY <2>1
  <2>3. t.params[i].default = NoDefault
    BY <2>1, <2>2 DEF Param
  <2> QED
    BY <2>3 DEF DefaultIsGiven, NoDefaultFor
<1>8. \A n : ArgumentIsGiven(Arg(VarTerm(n))) /\ ArgumentIsGiven(Expanded(VarTerm(n)))
  BY DEF ArgumentIsGiven, Arg, Expanded, VarTerm
<1>9. \A c \in V : ArgumentIsGiven(Arg(DefaultPredicate(c)))
  BY DEF ArgumentIsGiven, Arg, DefaultPredicate, ConstTerm
<1>10. ASSUME NEW i \in DOMAIN t.body, NEW j \in DOMAIN t.body[i].args
       PROVE  ArgumentIsGiven(t.body[i].args[j])
  <2>1. rest[i] \in V
    BY <1>3, <1>4
  <2>2. PICK a, b, c : t.body[i].args = <<a, b, c>> /\ ArgumentIsGiven(a) /\ ArgumentIsGiven(b) /\ ArgumentIsGiven(c)
    <3>1. PICK n : \/ t.body[i].args = <<Arg(VarTerm(d.pk)), Arg(DefaultPredicate(rest[i])), Arg(VarTerm(n))>>
                   \/ t.body[i].args = <<Arg(VarTerm(d.pk)), Arg(DefaultPredicate(rest[i])), Expanded(VarTerm(n))>>
      BY <1>4, <1>6
    <3> QED
      BY <1>8, <1>9, <2>1, <3>1
  <2>3. j \in {1, 2, 3}
    <3>1. DOMAIN <<a, b, c>> = {1, 2, 3}
      OBVIOUS
    <3> QED
      BY <2>2, <3>1
  <2> QED
    BY <2>2, <2>3
<1> QED
  BY <1>7, <1>10 DEF ConstantsAreGiven, t

\* Adding templates.
LEMMA PutGiven ==
  ASSUME NEW ts, HeldGiven(ts), NEW new, IsVector(new), \A i \in DOMAIN new : ConstantsAreGiven(new[i])
  PROVE  HeldGiven(Put(ts, new))
<1> DEFINE Of(n) == {i \in DOMAIN new : new[i].name = n}
<1>1. PICK put : put = Put(ts, new)
  OBVIOUS
<1>2. put = [n \in DOMAIN ts \cup {new[i].name : i \in DOMAIN new} |-> IF Of(n) = {} THEN ts[n] ELSE new[Highest(Of(n))]]
  BY <1>1 DEF Put
<1>3. DOMAIN put = DOMAIN ts \cup {new[i].name : i \in DOMAIN new}
  BY <1>2
<1>4. Len(new) \in Nat /\ DOMAIN new = 1..Len(new)
  BY DEF IsVector
<1>5. ASSUME NEW n \in DOMAIN put
      PROVE  ConstantsAreGiven(put[n])
  <2>1. CASE Of(n) = {}
    <3>1. n \in DOMAIN ts /\ put[n] = ts[n]
      BY <1>2, <1>3, <2>1
    <3> QED
      BY <3>1 DEF HeldGiven
  <2>2. CASE Of(n) # {}
    <3>1. PICK T : T = Of(n)
      OBVIOUS
    <3>2. T \in SUBSET Nat /\ \A x \in T : x <= Len(new)
      BY <1>4, <3>1
    <3>3. Highest(T) \in T
      BY <1>4, <2>2, <3>1, <3>2, HighestIs
    <3>4. put[n] = new[Highest(T)]
      BY <1>2, <1>3, <2>2, <3>1
    <3> QED
      BY <3>1, <3>3, <3>4
  <2> QED
    BY <2>1, <2>2
<1> QED
  BY <1>1, <1>5 DEF HeldGiven

\* The first templates, and those that are left.
LEMMA StartGiven ==
  HeldGiven(Start) /\ HeldGiven(<<>>)
<1>1. HeldGiven(<<>>)
  BY DEF HeldGiven
<1>2. PICK new : new = <<TripleTemplate>>
  OBVIOUS
<1>3. IsVector(new) /\ \A i \in DOMAIN new : ConstantsAreGiven(new[i])
  <2>1. IsVector(new)
    BY <1>2, TripleIsTemplate DEF AreTemplates
  <2>2. DOMAIN new = {1} /\ new[1] = TripleTemplate
    BY <1>2
  <2> QED
    BY <2>1, <2>2, TripleIsGiven
<1>4. HeldGiven(Put(<<>>, new))
  BY <1>1, <1>3, PutGiven
<1> QED
  BY <1>1, <1>2, <1>4 DEF Start, OfTemplates

\* Inference.
LEMMA InferredGiven ==
  ASSUME NEW ts, HeldGiven(ts), NEW new, DOMAIN new = DOMAIN ts, \A n \in DOMAIN ts : SameButTypes(new[n], ts[n])
  PROVE  HeldGiven(new)
<1>1. \A s, t : SameButTypes(t, s) /\ ConstantsAreGiven(s) => ConstantsAreGiven(t)
  BY DEF SameButTypes, ConstantsAreGiven, DefaultIsGiven, NoDefaultFor
<1> QED
  BY <1>1 DEF HeldGiven

\* What a mapping starts with.
LEMMA BegunFine ==
  ASSUME CallsGiveOthers, counter \in Nat, NEW ts, Library(ts), HeldGiven(ts), NEW call,
         call.table \in TablesMapped, NEW j, j = Begun(ts, call), j.on
  PROVE  JobFine(j, ts, counter)
<1>0. PICK name, table, iris : name = call.name /\ table = call.table /\ iris = call.iris
  OBVIOUS
<1>1. PICK params, valid : params = ts[name].params /\ valid = Checked(table, params, iris)
  OBVIOUS
<1>2. PICK plain : plain = [ok |-> TRUE, skip |-> FALSE, table |-> table # NoTable, rows |-> valid.rows,
                            dyn |-> valid.dyn, static |-> <<>>, counter |-> counter]
  OBVIOUS
<1>3. PICK frame : frame = WithDefaults(plain, params)
  OBVIOUS
<1>4. /\ Has(ts, name) /\ valid.ok /\ frame.ok
      /\ j = [on |-> TRUE, todo |-> <<Node(0, 0, name, frame)>>, frames |-> <<>>, counter |-> counter,
              name |-> name, table |-> table, valid |-> valid]
  <2>1. ~NoJob.on
    BY DEF NoJob
  <2> QED
    BY <1>0, <1>1, <1>2, <1>3, <2>1 DEF Begun
<1>5. name \in DOMAIN ts
  BY <1>4 DEF Has
<1>6. IsVector(params) /\ \A i \in DOMAIN params : DefaultIsGiven(params[i])
  BY <1>1, <1>5 DEF Library, IsTemplate, HeldGiven, ConstantsAreGiven
<1>7. /\ IsVector(valid.rows)
      /\ \A r \in DOMAIN valid.rows : /\ DOMAIN valid.rows[r] = DOMAIN valid.dyn
                                      /\ \A n \in DOMAIN valid.dyn : IsGiven(valid.dyn[n], valid.rows[r][n])
      /\ table = NoTable => DOMAIN valid.dyn = {}
  BY <1>0, <1>1, <1>4, <1>6 DEF CallsGiveOthers
<1>8. FineFrame(plain, counter, counter)
  <2>1. FineRows(valid.dyn, valid.rows, counter, counter)
    BY <1>7 DEF FineRows, FineRow, Fine
  <2>2. DOMAIN <<>> = {}
    OBVIOUS
  <2>3. /\ DOMAIN plain = {"ok", "skip", "table", "rows", "dyn", "static", "counter"}
        /\ plain.ok /\ ~plain.skip /\ plain.table = (table # NoTable) /\ plain.rows = valid.rows
        /\ plain.dyn = valid.dyn /\ plain.static = <<>> /\ plain.counter = counter
    BY <1>2
  <2>4. ~plain.table => DOMAIN plain.dyn = {}
    BY <1>7, <2>3
  <2> QED
    BY <2>1, <2>2, <2>3, <2>4 DEF FineFrame
<1>9. FineFrame(frame, counter, counter)
  <2>1. PICK c : c = counter
    OBVIOUS
  <2>2. FineFrame(plain, c, c)
    BY <1>8, <2>1
  <2>3. FineFrame(frame, c, c)
    BY <1>3, <1>4, <1>6, <2>2, WithDefaultsFine
  <2> QED
    BY <2>1, <2>3
<1>10. PICK node : node = Node(0, 0, name, frame)
  OBVIOUS
<1>11. NodeFine(node, ts, counter, counter)
  BY <1>4, <1>9, <1>10 DEF NodeFine, Node
<1>12. IsVector(<<node>>) /\ DOMAIN <<node>> = {1} /\ <<node>>[1] = node /\ IsVector(<<>>) /\ DOMAIN <<>> = {}
  BY DEF IsVector, ToSet
<1>13. /\ DOMAIN j = {"on", "todo", "frames", "counter", "name", "table", "valid"}
       /\ j.todo = <<node>> /\ j.frames = <<>> /\ j.counter = counter
  BY <1>4, <1>10
<1> QED
  BY <1>11, <1>12, <1>13 DEF JobFine

\* One instance further.
LEMMA DescendedFine ==
  ASSUME GivenAreOthers, counter \in Nat, Library(templates), HeldGiven(templates), JobFine(job, templates, counter),
         job.todo # <<>>, NEW node, node = Head(job.todo), ~node.frame.skip, ~Fails(node), ~Reached(node)
  PROVE  JobFine(Descended(node), templates, counter)
<1>1. PICK lo, hi, ts : lo = counter /\ hi = job.counter /\ ts = templates
  OBVIOUS
<1>2. lo \in Nat /\ hi \in Nat /\ lo <= hi
  BY <1>1 DEF JobFine
<1>3. PICK rest : rest = Tail(job.todo)
  OBVIOUS
<1>4. IsVector(rest) /\ (\A i \in DOMAIN rest : rest[i] \in ToSet(job.todo)) /\ node \in ToSet(job.todo)
  BY <1>3, TailIs DEF JobFine
<1>5. \A x \in ToSet(job.todo) : NodeFine(x, ts, lo, hi)
  BY <1>1 DEF JobFine, ToSet
<1>6. node.name \in DOMAIN ts /\ FineFrame(node.frame, lo, hi)
  BY <1>4, <1>5 DEF NodeFine, Has
<1>7. PICK t, fr, h, layer, num, name : /\ t = ts[node.name] /\ fr = node.frame
                                        /\ h = (IF fr.table THEN Len(fr.rows) ELSE 1)
                                        /\ layer = node.layer /\ num = node.num /\ name = node.name
  OBVIOUS
<1>8. PICK made : made = Children(node)
  OBVIOUS
<1>9. DOMAIN made = DOMAIN t.body /\ \A i \in DOMAIN t.body :
        made[i] = IF Has(ts, t.body[i].of)
                  THEN CreateRemapped(lo, layer, num, t.body[i], ts[t.body[i].of].params, t.params, fr, h)
                  ELSE Failed
  BY <1>1, <1>7, <1>8 DEF Children, RemapInstances
<1>10. \A i \in DOMAIN made : made[i].ok
  <2>1. node.name # OttrTriple
    BY DEF Fails, Reached
  <2> QED
    BY <1>8, <2>1 DEF Fails
<1>11. ASSUME NEW i \in DOMAIN made
       PROVE  /\ Has(ts, t.body[i].of)
              /\ ~made[i].skip =>
                   /\ made[i].counter \in Nat /\ lo <= made[i].counter
                   /\ \A top \in Nat : hi <= top /\ made[i].counter <= top => FineFrame(made[i], lo, top)
  <2>1. PICK m, inst, of : m = made[i] /\ inst = t.body[i] /\ of = inst.of
    OBVIOUS
  <2>2. Has(ts, of) /\ m.ok
    <3>1. ~Failed.ok
      BY DEF Failed
    <3> QED
      BY <1>9, <1>10, <2>1, <3>1
  <2>3. PICK params, calling : params = ts[of].params /\ calling = t.params
    OBVIOUS
  <2>4. m = CreateRemapped(lo, layer, num, inst, params, calling, fr, h)
    BY <1>9, <2>1, <2>2, <2>3
  <2>5. IsVector(inst.args) /\ \A j \in DOMAIN inst.args : ArgumentIsGiven(inst.args[j])
    <3>1. IsTemplate(t) /\ ConstantsAreGiven(t)
      BY <1>1, <1>6, <1>7 DEF Library, HeldGiven
    <3>2. i \in DOMAIN t.body
      BY <1>9
    <3> QED
      BY <2>1, <3>1, <3>2 DEF IsTemplate, ConstantsAreGiven
  <2>6. \A k \in DOMAIN params : DefaultIsGiven(params[k])
    BY <1>1, <2>2, <2>3 DEF Has, HeldGiven, ConstantsAreGiven
  <2>7. ASSUME ~m.skip
        PROVE  /\ m.counter \in Nat /\ lo <= m.counter
               /\ \A top \in Nat : hi <= top /\ m.counter <= top => FineFrame(m, lo, top)
    <3>1. FineFrame(fr, lo, hi) /\ h = (IF fr.table THEN Len(fr.rows) ELSE 1) /\ lo \in Nat /\ hi \in Nat
      BY <1>2, <1>6, <1>7
    <3>2. m.ok /\ ~m.skip
      BY <2>2, <2>7
    <3> QED
      BY <2>4, <2>5, <2>6, <3>1, <3>2, RemappedFine
  <2> QED
    BY <2>1, <2>2, <2>7
<1>12. PICK top : top = Gathered(hi, made)
  OBVIOUS
<1>13. top \in Nat /\ hi <= top /\ \A i \in DOMAIN made : ~made[i].skip => made[i].counter <= top
  <2>1. PICK S : S = {i \in DOMAIN made : ~made[i].skip}
    OBVIOUS
  <2>2. IsFiniteSet(DOMAIN made)
    <3>1. IsVector(t.body)
      BY <1>1, <1>6, <1>7 DEF Library, IsTemplate
    <3>2. Len(t.body) \in Nat /\ DOMAIN made = 1..Len(t.body)
      BY <1>9, <3>1 DEF IsVector
    <3> QED
      BY <3>2, FS_Interval
  <2>3. IsFiniteSet(S) /\ S \subseteq DOMAIN made
    BY <2>1, <2>2, FS_Subset
  <2>4. \A i \in S : made[i].counter \in Nat
    BY <1>11, <2>1
  <2>5. top = Highest({hi} \cup {made[i].counter : i \in S})
    BY <1>12, <2>1 DEF Gathered
  <2>6. top \in Nat /\ hi <= top /\ \A i \in S : made[i].counter <= top
    BY <1>2, <2>3, <2>4, <2>5, HighestCounter
  <2> QED
    BY <2>1, <2>6
<1>14. PICK new : new = [i \in DOMAIN made |-> Node(layer + 1, i - 1, t.body[i].of, made[i])]
  OBVIOUS
<1>15. IsVector(new)
  <2>1. PICK body : body = t.body
    OBVIOUS
  <2>2. IsVector(body)
    BY <1>1, <1>6, <1>7, <2>1 DEF Library, IsTemplate
  <2>3. DOMAIN new = DOMAIN body /\ new = [i \in DOMAIN body |-> new[i]]
    BY <1>9, <1>14, <2>1
  <2> QED
    BY <2>2, <2>3, VectorLike
<1>16. \A x \in ToSet(new) : NodeFine(x, ts, lo, top)
  <2> TAKE x \in ToSet(new)
  <2>1. PICK i \in DOMAIN made : x = Node(layer + 1, i - 1, t.body[i].of, made[i])
    BY <1>14 DEF ToSet
  <2>2. x.name = t.body[i].of /\ x.frame = made[i]
    BY <2>1 DEF Node
  <2>3. ~made[i].skip => FineFrame(made[i], lo, top)
    BY <1>11, <1>13
  <2> QED
    BY <1>11, <2>2, <2>3 DEF NodeFine
<1>17. \A x \in ToSet(job.todo) : NodeFine(x, ts, lo, top)
  <2> TAKE x \in ToSet(job.todo)
  <2>1. PICK f : f = x.frame
    OBVIOUS
  <2>2. f.skip \/ (Has(ts, x.name) /\ FineFrame(f, lo, hi))
    BY <1>5, <2>1 DEF NodeFine
  <2>3. FineFrame(f, lo, hi) => FineFrame(f, lo, top)
    BY <1>2, <1>13, FrameGrows
  <2> QED
    BY <2>1, <2>2, <2>3 DEF NodeFine
<1>18. PICK todo : todo = new \o rest
  OBVIOUS
<1>19. IsVector(todo) /\ \A i \in DOMAIN todo : todo[i] \in ToSet(new) \cup ToSet(rest)
  BY <1>4, <1>15, <1>18, JoinedIs
<1>20. \A i \in DOMAIN todo : NodeFine(todo[i], ts, lo, top)
  <2>1. ToSet(rest) \subseteq ToSet(job.todo)
    BY <1>4 DEF ToSet
  <2> QED
    BY <1>16, <1>17, <1>19, <2>1
<1>21. PICK frames : frames = job.frames
  OBVIOUS
<1>22. IsVector(frames) /\ \A i \in DOMAIN frames : FineFrame(frames[i], lo, top)
  <2>1. IsVector(frames) /\ \A i \in DOMAIN frames : FineFrame(frames[i], lo, hi)
    BY <1>1, <1>21 DEF JobFine
  <2>2. \A f : FineFrame(f, lo, hi) => FineFrame(f, lo, top)
    BY <1>2, <1>13, FrameGrows
  <2> QED
    BY <2>1, <2>2
<1>23. Descended(node) = [job EXCEPT !.todo = todo, !.counter = top]
  BY <1>1, <1>3, <1>7, <1>8, <1>12, <1>14, <1>18 DEF Descended
<1>24. PICK j : j = Descended(node)
  OBVIOUS
<1>25. /\ DOMAIN j = {"on", "todo", "frames", "counter", "name", "table", "valid"}
       /\ j.todo = todo /\ j.frames = frames /\ j.counter = top
  BY <1>21, <1>23, <1>24 DEF JobFine
<1>26. lo <= top
  BY <1>2, <1>13
<1>27. JobFine(j, ts, lo)
  BY <1>13, <1>19, <1>20, <1>22, <1>25, <1>26 DEF JobFine
<1> QED
  BY <1>1, <1>24, <1>27

\* A step of a mapping.
LEMMA ProceedFine ==
  ASSUME GivenAreOthers, Library(templates), BlanksInv, Proceed
  PROVE  BlanksInv'
<1>1. UNCHANGED <<templates, counter, named, typing>> /\ job.on /\ job.todo # <<>> /\ counter \in Nat
      /\ JobFine(job, templates, counter) /\ HeldGiven(templates) /\ ~typing.on
  BY DEF Proceed, BlanksInv
<1>2. PICK node : node = Head(job.todo)
  OBVIOUS
<1>3. PICK rest : rest = Tail(job.todo)
  OBVIOUS
<1>4. /\ IsVector(rest) /\ \A i \in DOMAIN rest : NodeFine(rest[i], templates, counter, job.counter)
      /\ NodeFine(node, templates, counter, job.counter)
  <2>1. IsVector(rest) /\ (\A i \in DOMAIN rest : rest[i] \in ToSet(job.todo)) /\ node \in ToSet(job.todo)
    BY <1>1, <1>2, <1>3, TailIs DEF JobFine
  <2>2. \A x \in ToSet(job.todo) : NodeFine(x, templates, counter, job.counter)
    BY <1>1 DEF JobFine, ToSet
  <2> QED
    BY <2>1, <2>2
<1>5. CASE node.frame.skip
  <2>1. job' = [job EXCEPT !.todo = rest]
    BY <1>2, <1>3, <1>5 DEF Proceed
  <2>2. JobFine(job', templates, counter)
    BY <1>1, <1>4, <2>1 DEF JobFine
  <2> QED
    BY <1>1, <2>2 DEF BlanksInv, BlanksApart
<1>6. CASE ~node.frame.skip /\ Fails(node)
  <2>1. job' = NoJob
    BY <1>2, <1>6 DEF Proceed
  <2>2. ~job'.on
    BY <2>1 DEF NoJob
  <2> QED
    BY <1>1, <2>2 DEF BlanksInv, BlanksApart
<1>7. CASE ~node.frame.skip /\ ~Fails(node) /\ Reached(node)
  <2>1. PICK frames : frames = Append(job.frames, node.frame)
    OBVIOUS
  <2>2. job' = [job EXCEPT !.todo = rest, !.frames = frames]
    BY <1>2, <1>3, <1>7, <2>1 DEF Proceed
  <2>3. FineFrame(node.frame, counter, job.counter)
    BY <1>4, <1>7 DEF NodeFine
  <2>4. IsVector(frames) /\ \A i \in DOMAIN frames : frames[i] \in ToSet(job.frames) \cup {node.frame}
    <3>1. PICK f, x : f = job.frames /\ x = node.frame
      OBVIOUS
    <3>2. IsVector(f) /\ frames = Append(f, x)
      BY <1>1, <2>1, <3>1 DEF JobFine
    <3>3. IsVector(frames) /\ \A i \in DOMAIN frames : frames[i] \in ToSet(f) \cup {x}
      BY <3>2, AppendedIs
    <3> QED
      BY <3>1, <3>3
  <2>5. \A i \in DOMAIN frames : FineFrame(frames[i], counter, job.counter)
    <3>1. \A x \in ToSet(job.frames) : FineFrame(x, counter, job.counter)
      BY <1>1 DEF JobFine, ToSet
    <3> QED
      BY <2>3, <2>4, <3>1
  <2>6. JobFine(job', templates, counter)
    BY <1>1, <1>4, <2>2, <2>4, <2>5 DEF JobFine
  <2> QED
    BY <1>1, <2>6 DEF BlanksInv, BlanksApart
<1>8. CASE ~node.frame.skip /\ ~Fails(node) /\ ~Reached(node)
  <2>1. job' = Descended(node)
    BY <1>2, <1>8 DEF Proceed
  <2>2. JobFine(Descended(node), templates, counter)
    BY <1>1, <1>2, <1>8, DescendedFine
  <2> QED
    BY <1>1, <2>1, <2>2 DEF BlanksInv, BlanksApart
<1> QED
  BY <1>5, <1>6, <1>7, <1>8

\* The end of a mapping: what it named was numbered from the counter.
LEMMA FinishFine ==
  ASSUME GivenAreOthers, BlanksInv, Finish
  PROVE  BlanksInv'
<1>1. UNCHANGED <<templates, typing>> /\ ~typing.on /\ counter \in Nat /\ JobFine(job, templates, counter) /\ ~job'.on
  BY DEF Finish, BlanksInv, NoJob
<1>2. PICK made, lo, hi, frames : made = ProcessResults(job.frames, job.counter) /\ lo = counter /\ hi = job.counter
                                  /\ frames = job.frames
  OBVIOUS
<1>3. CASE ~made.ok
  <2>1. UNCHANGED <<counter, named>>
    BY <1>2, <1>3 DEF Finish
  <2> QED
    BY <1>1, <2>1 DEF BlanksInv, BlanksApart
<1>4. CASE made.ok
  <2>1. lo \in Nat /\ hi \in Nat /\ lo <= hi /\ IsVector(frames) /\ \A i \in DOMAIN frames : FineFrame(frames[i], lo, hi)
    BY <1>1, <1>2 DEF JobFine
  <2>2. PICK new : new = BlanksIn(made.triples)
    OBVIOUS
  <2>3. made = ProcessResults(frames, hi)
    BY <1>2
  <2>4. /\ made.counter \in Nat /\ hi <= made.counter
        /\ \A x \in new : NumberOf(x.v) \in Nat /\ lo <= NumberOf(x.v) /\ NumberOf(x.v) < made.counter
    BY <1>4, <2>1, <2>2, <2>3, ResultsNumbered
  <2>5. PICK top : top = made.counter
    OBVIOUS
  <2>6. counter' = top /\ named' = Append(named, new)
    BY <1>2, <1>4, <2>2, <2>5 DEF Finish
  <2>7. top \in Nat /\ lo <= top
    BY <2>1, <2>4, <2>5
  <2>8. Len(named) \in Nat /\ DOMAIN named = 1..Len(named) /\ named \in Seq(ToSet(named))
    BY DEF BlanksInv, IsVector
  <2>9. PICK n : n = Len(named)
    OBVIOUS
  <2>10. /\ IsVector(named') /\ DOMAIN named' = 1..(n + 1) /\ named'[n + 1] = new
         /\ \A i \in 1..n : named'[i] = named[i]
    <3>1. IsVector(named')
      BY <2>6, AppendedIs DEF BlanksInv
    <3>2. named \in Seq(ToSet(named) \cup {new}) /\ new \in ToSet(named) \cup {new}
      BY <2>8
    <3>3. Len(named') = n + 1 /\ named'[n + 1] = new /\ \A i \in 1..n : named'[i] = named[i]
      BY <2>6, <2>9, <3>2
    <3>4. DOMAIN named' = 1..Len(named')
      BY <3>1 DEF IsVector
    <3> QED
      BY <3>1, <3>3, <3>4
  <2>11. n \in Nat /\ DOMAIN named = 1..n
    BY <2>8, <2>9
  <2>12. ASSUME NEW i \in 1..n, NEW x \in named[i]
         PROVE  NumberOf(x.v) \in Nat /\ NumberOf(x.v) < lo
    BY <1>2, <2>11 DEF BlanksInv
  <2>13. \A i \in DOMAIN named' : \A x \in named'[i] : NumberOf(x.v) \in Nat /\ NumberOf(x.v) < top
    <3> TAKE i \in DOMAIN named'
    <3> TAKE x \in named'[i]
    <3>1. CASE i = n + 1
      BY <2>4, <2>5, <2>10, <3>1
    <3>2. CASE i # n + 1
      <4>1. i \in 1..n
        BY <2>10, <2>11, <3>2
      <4>2. PICK k : k = NumberOf(x.v)
        OBVIOUS
      <4>3. k \in Nat /\ k < lo
        BY <2>10, <2>12, <4>1, <4>2
      <4>4. k < top
        BY <2>1, <2>7, <4>3
      <4> QED
        BY <4>2, <4>3, <4>4
    <3> QED
      BY <3>1, <3>2
  <2>14. ASSUME NEW i \in 1..n
         PROVE  named[i] \cap new = {}
    <3> SUFFICES ASSUME NEW x \in named[i], x \in new PROVE FALSE
      OBVIOUS
    <3>1. PICK k : k = NumberOf(x.v)
      OBVIOUS
    <3>2. k \in Nat /\ k < lo /\ lo <= k
      BY <2>4, <2>12, <3>1
    <3> QED
      BY <2>1, <3>2
  <2>15. ASSUME NEW i \in DOMAIN named', NEW m \in DOMAIN named', i # m
         PROVE  named'[i] \cap named'[m] = {}
    <3>1. CASE i = n + 1
      <4>1. m \in 1..n
        BY <2>10, <2>11, <2>15, <3>1
      <4> QED
        BY <2>10, <2>14, <3>1, <4>1
    <3>2. CASE m = n + 1
      <4>1. i \in 1..n
        BY <2>10, <2>11, <2>15, <3>2
      <4> QED
        BY <2>10, <2>14, <3>2, <4>1
    <3>3. CASE i # n + 1 /\ m # n + 1
      <4>1. i \in 1..n /\ m \in 1..n
        BY <2>10, <2>11, <3>3
      <4>2. named[i] \cap named[m] = {}
        BY <2>11, <2>15, <4>1 DEF BlanksInv, BlanksApart
      <4> QED
        BY <2>10, <4>1, <4>2
    <3> QED
      BY <3>1, <3>2, <3>3
  <2>16. HeldGiven(templates)
    BY DEF BlanksInv
  <2> QED
    BY <1>1, <2>6, <2>7, <2>10, <2>13, <2>15, <2>16 DEF BlanksInv, BlanksApart
<1> QED
  BY <1>3, <1>4

\* The invariant holds at first.
LEMMA BlanksInit ==
  Init => BlanksInv
<1> HAVE Init
<1>1. templates = Start /\ counter = 0 /\ ~job.on /\ ~typing.on /\ named = <<>>
  BY DEF Init, NoJob, NoTyping
<1>2. IsVector(<<>>) /\ DOMAIN <<>> = {}
  BY DEF IsVector
<1> QED
  BY <1>1, <1>2, StartGiven DEF BlanksInv, BlanksApart

\* Steps that name nothing and start nothing keep it.
LEMMA BlanksKept ==
  ASSUME BlanksInv, UNCHANGED <<counter, named>>, HeldGiven(templates'), ~job'.on,
         typing'.on => typing'.call.table \in TablesMapped
  PROVE  BlanksInv'
BY DEF BlanksInv, BlanksApart

\* What is expanded has given constants, and starts fine.
LEMMA ExpandGiven ==
  ASSUME CallsGiveOthers, BlanksInv, NEW ts, NEW known, Held(ts, known), HeldGiven(ts),
         NEW call, call.table \in TablesMapped, Expand(ts, known, call)
  PROVE  BlanksInv'
<1>1. templates' = ts /\ UNCHANGED <<counter, named>> /\ counter \in Nat /\ Library(ts)
  BY DEF Expand, BlanksInv, Held
<1>2. CASE inferred
  <2>1. PICK j : j = Begun(ts, call)
    OBVIOUS
  <2>2. job' = j /\ ~typing'.on
    BY <1>2, <2>1 DEF Expand, NoTyping
  <2>3. j.on => JobFine(j, ts, counter)
    BY <1>1, <2>1, BegunFine
  <2> QED
    BY <1>1, <2>2, <2>3 DEF BlanksInv, BlanksApart
<1>3. CASE ~inferred
  <2>1. ~job'.on
    BY <1>3 DEF Expand, NoJob
  <2>2. typing'.call = call
    BY <1>3 DEF Expand, Typing
  <2> QED
    BY <1>1, <2>1, <2>2, BlanksKept
<1> QED
  BY <1>2, <1>3

\* Every step keeps it.
LEMMA BlanksNext ==
  CallsGiveOthers /\ HeldInv /\ BlanksInv /\ [Next]_vars => BlanksInv'
<1> SUFFICES ASSUME CallsGiveOthers, HeldInv, BlanksInv, [Next]_vars PROVE BlanksInv'
  OBVIOUS
<1>0. Held(templates, order) /\ Library(templates) /\ HeldGiven(templates) /\ GivenAreOthers /\ counter \in Nat
  BY DEF HeldInv, Held, BlanksInv, CallsGiveOthers
<1>1. ASSUME NEW new, IsVector(new), \A i \in DOMAIN new : ConstantsAreGiven(new[i]), Called, AddAll(new)
      PROVE  BlanksInv'
  <2>1. HeldGiven(templates') /\ UNCHANGED <<counter, named, job, typing>> /\ ~job.on /\ ~typing.on
    BY <1>0, <1>1, PutGiven DEF AddAll, Called
  <2> QED
    BY <2>1, BlanksKept
<1>2. ASSUME NEW doc \in Documents, AddTemplatesFromString(doc)
      PROVE  BlanksInv'
  <2>1. PICK new : new = FromDocuments(doc)
    OBVIOUS
  <2>2. IsVector(new)
    BY <2>1, TemplatesAssumption, TripleIsTemplate DEF AreTemplates
  <2>3. \A i \in DOMAIN new : ConstantsAreGiven(new[i])
    <3>1. IsVector(doc) /\ \A i \in DOMAIN doc : ConstantsAreGiven(doc[i])
      BY TemplatesAssumption DEF CallsGiveOthers
    <3>2. PICK last0, x : last0 = <<x>> /\ x = TripleTemplate
      OBVIOUS
    <3>3. IsVector(last0) /\ DOMAIN last0 = {1} /\ last0[1] = x
      BY <3>2 DEF IsVector, ToSet
    <3>4. new = doc \o last0
      BY <2>1, <3>2 DEF FromDocuments
    <3>5. \A i \in DOMAIN new : new[i] \in ToSet(doc) \cup ToSet(last0)
      BY <3>1, <3>3, <3>4, JoinedIs
    <3>6. \A y \in ToSet(doc) \cup ToSet(last0) : ConstantsAreGiven(y)
      BY <3>1, <3>2, <3>3, TripleIsGiven DEF ToSet
    <3> QED
      BY <3>5, <3>6
  <2> QED
    BY <1>1, <1>2, <2>1, <2>2, <2>3 DEF AddTemplatesFromString
<1>3. ASSUME NEW t \in Singles, AddTemplate(t)
      PROVE  BlanksInv'
  <2>1. PICK new : new = <<t>>
    OBVIOUS
  <2>2. IsVector(new) /\ DOMAIN new = {1} /\ new[1] = t
    BY <2>1 DEF IsVector, ToSet
  <2>3. ConstantsAreGiven(t)
    BY DEF CallsGiveOthers
  <2> QED
    BY <1>1, <1>3, <2>1, <2>2, <2>3 DEF AddTemplate
<1>4. ASSUME LoseTemplates, ~job.on PROVE BlanksInv'
  <2>1. templates' = <<>> /\ UNCHANGED <<counter, named, job>> /\ ~typing'.on
    BY <1>4 DEF LoseTemplates, NoTyping
  <2>2. HeldGiven(templates')
    BY <2>1, StartGiven
  <2> QED
    BY <1>4, <2>1, <2>2, BlanksKept
<1>5. ASSUME NEW call \in Calls, Map(call)
      PROVE  BlanksInv'
  <2>1. call.table \in TablesMapped
    BY DEF TablesMapped
  <2> QED
    BY <1>0, <1>5, <2>1, ExpandGiven DEF Map
<1>6. ASSUME NEW d \in Defaults, MapDefault(d)
      PROVE  BlanksInv'
  <2>1. PICK new, ts, known : new = <<DefaultTemplate(d)>> /\ ts = Put(templates, new) /\ known = Append(order, DefaultName)
    OBVIOUS
  <2>2. PICK call : call.table = KeysAsStrings(d) /\ Expand(ts, known, call)
    BY <1>6, <2>1 DEF MapDefault
  <2>4. AreTemplates(new) /\ {new[i].name : i \in DOMAIN new} = {DefaultName}
    BY <2>1, DefaultIsTemplate
  <2>5. Library(ts) /\ DOMAIN ts = DOMAIN templates \cup {DefaultName}
    <3>1. Library(templates) /\ ts = Put(templates, new) /\ AreTemplates(new)
      BY <1>0, <2>1, <2>4
    <3>2. Library(ts) /\ DOMAIN ts = DOMAIN templates \cup {new[i].name : i \in DOMAIN new}
      BY <3>1, PutIs
    <3> QED
      BY <2>4, <3>2
  <2>6. Held(ts, known)
    <3>1. order \in Seq(DOMAIN ts) /\ known \in Seq(DOMAIN ts)
      BY <1>0, <2>1, <2>5 DEF Held
    <3> QED
      BY <2>5, <3>1 DEF Held
  <2>7. HeldGiven(ts)
    <3>1. PICK V, cols : V = ToSet(d.columns) /\ cols = d.columns
      OBVIOUS
    <3>2. d.columns \in Seq(V) /\ d.pk \in V
      BY <3>1, TemplatesAssumption DEF IsVector
    <3>3. \A c \in V : ConstantIsGiven(IriConst(<<"default", c>>))
      BY <3>1 DEF CallsGiveOthers
    <3>4. ConstantsAreGiven(DefaultTemplate(d))
      BY <3>1, <3>2, <3>3, DefaultHasGiven
    <3>5. IsVector(new) /\ \A i \in DOMAIN new : ConstantsAreGiven(new[i])
      BY <2>1, <2>4, <3>4 DEF AreTemplates
    <3> QED
      BY <1>0, <2>1, <3>5, PutGiven
  <2>8. KeysAsStrings(d) \in TablesMapped
    BY DEF TablesMapped
  <2> QED
    BY <2>2, <2>6, <2>7, <2>8, ExpandGiven
<1>7. ASSUME InferFirst \/ InferAgain PROVE BlanksInv'
  <2>1. ~job.on /\ typing.call.table \in TablesMapped
    BY <1>7 DEF BlanksInv, InferFirst, InferAgain
  <2>2. PICK n \in DOMAIN templates : \E a, b : Infer(n, a, b) /\ a.call = typing.call /\ b.call = typing.call
    BY <1>7, InferSteps
  <2>3. PICK a, b : Infer(n, a, b) /\ a.call = typing.call /\ b.call = typing.call
    BY <2>2
  <2>4. CASE ~LoseTemplates
    <3>1. /\ DOMAIN templates' = DOMAIN templates
          /\ \A m \in DOMAIN templates : SameButTypes(templates'[m], templates[m])
          /\ typing' \in {a, b}
          /\ UNCHANGED <<counter, named, job>>
      BY <2>3, <2>4, InferKeeps
    <3>2. HeldGiven(templates')
      BY <1>0, <3>1, InferredGiven
    <3> QED
      BY <2>1, <2>3, <3>1, <3>2, BlanksKept
  <2> QED
    BY <1>4, <2>1, <2>4
<1>13. ASSUME InferDone PROVE BlanksInv'
  <2>1. PICK j : j = Begun(templates, typing.call)
    OBVIOUS
  <2>2. templates' = templates /\ job' = j /\ ~typing'.on /\ UNCHANGED <<counter, named>>
    BY <1>13, <2>1 DEF InferDone, NoTyping
  <2>3. typing.call.table \in TablesMapped
    BY <1>13 DEF BlanksInv, InferDone
  <2>4. j.on => JobFine(j, templates, counter)
    BY <1>0, <2>1, <2>3, BegunFine
  <2> QED
    BY <1>0, <2>2, <2>4 DEF BlanksInv, BlanksApart
<1>8. ASSUME Proceed PROVE BlanksInv'
  BY <1>0, <1>8, ProceedFine
<1>9. ASSUME Finish PROVE BlanksInv'
  BY <1>0, <1>9, FinishFine
<1>10. ASSUME TemplatesToGraph PROVE BlanksInv'
  <2>1. UNCHANGED <<templates, counter, named, job, typing>> /\ ~job.on /\ ~typing.on
    BY <1>10 DEF TemplatesToGraph, Called
  <2> QED
    BY <1>0, <2>1, BlanksKept
<1>11. ASSUME Reload PROVE BlanksInv'
  <2>1. templates' = Start /\ counter' = 0 /\ named' = <<>> /\ UNCHANGED <<job, typing>> /\ ~job.on /\ ~typing.on
    BY <1>11 DEF Reload, Called
  <2>2. IsVector(<<>>) /\ DOMAIN <<>> = {}
    BY DEF IsVector
  <2> QED
    BY <2>1, <2>2, StartGiven DEF BlanksInv, BlanksApart
<1>12. ASSUME UNCHANGED vars PROVE BlanksInv'
  <2>1. UNCHANGED <<templates, counter, named, job, typing>>
    BY <1>12 DEF vars
  <2> QED
    BY <2>1 DEF BlanksInv, BlanksApart
<1> QED
  BY <1>2, <1>3, <1>5, <1>6, <1>7, <1>8, <1>9, <1>10, <1>11, <1>12, <1>13 DEF Next

\* No two mappings of a session name the same blank node, if what they are
\* given has other names.
THEOREM BlanksCorrect ==
  ASSUME CallsGiveOthers
  PROVE  Spec => []BlanksApart
<1>1. Init => HeldInv /\ BlanksInv
  BY GraphInit, BlanksInit DEF GraphInv
<1>2. HeldInv /\ BlanksInv /\ [Next]_vars => HeldInv' /\ BlanksInv'
  BY HeldNext, BlanksNext
<1>3. BlanksInv => BlanksApart
  BY DEF BlanksInv
<1> QED
  BY <1>1, <1>2, <1>3, PTL DEF Spec

-----------------------------------------------------------------------------
(* TypesFromUse.                                                           *)

\* Every template that is held was added, up to the types of its parameters.
Versions(ts, lib) == \A n \in DOMAIN ts : \E t \in lib : SameButTypes(ts[n], t)
\* Every type that a parameter has is among those that were found.
TypesIn(ts, found) ==
  \A n \in DOMAIN ts : \A k \in DOMAIN ts[n].params :
    ts[n].params[k].type = Untyped \/ <<n, k, ts[n].params[k].type>> \in found
\* The inductive invariant: a type comes from the templates that were added,
\* and what is held is called and passes on as one of them does.
TypesInv ==
  /\ changes \in Nat
  /\ Versions(templates, added)
  /\ TypesFromUse

\* The types that are declared are found, after however many steps.
LEMMA DeclaredFound ==
  ASSUME NEW lib, NEW n \in Nat
  PROVE  Declared(lib) \subseteq Sources(lib)[n]
<1>1. PICK p, D : p = Sources(lib) /\ D = Declared(lib)
  OBVIOUS
<1>2. p[0] = D /\ \A m \in Nat : p[m] \subseteq p[m + 1]
  <2>1. p[0] = D
    BY <1>1, SourcesAre
  <2>2. lib \subseteq lib
    OBVIOUS
  <2> QED
    BY <1>1, <2>1, <2>2, SourcesRise
<1> DEFINE Bad == {m \in Nat : ~(D \subseteq p[m])}
<1>3. CASE Bad # {}
  <2>1. PICK m \in Bad : \A k \in Bad : m <= k
    <3>1. Bad \in SUBSET Nat
      OBVIOUS
    <3> HIDE DEF Bad
    <3> QED
      BY <1>3, <3>1, LeastExists
  <2>2. m \in Nat /\ ~(D \subseteq p[m]) /\ m # 0
    BY <1>2, <2>1
  <2>3. m - 1 \in Nat /\ (m - 1) + 1 = m /\ ~(m <= m - 1)
    BY <2>2
  <2>4. D \subseteq p[m - 1]
    BY <2>1, <2>3
  <2>5. p[m - 1] \subseteq p[(m - 1) + 1]
    BY <1>2, <2>3
  <2> QED
    BY <2>2, <2>3, <2>4, <2>5
<1>4. CASE Bad = {}
  BY <1>1, <1>4
<1> QED
  BY <1>3, <1>4

\* Templates that are added bring the types they declare.
LEMMA PutTypes ==
  ASSUME NEW ts, Library(ts), NEW new, AreTemplates(new), NEW put, put = Put(ts, new),
         NEW lib, NEW more, more = lib \cup ToSet(new), NEW n \in Nat,
         Versions(ts, lib), TypesIn(ts, Sources(lib)[n])
  PROVE  Versions(put, more) /\ TypesIn(put, Sources(more)[n])
<1> DEFINE Of(m) == {i \in DOMAIN new : new[i].name = m}
<1>1. put = [m \in DOMAIN ts \cup {new[i].name : i \in DOMAIN new} |-> IF Of(m) = {} THEN ts[m] ELSE new[Highest(Of(m))]]
  BY DEF Put
<1>2. Len(new) \in Nat /\ DOMAIN new = 1..Len(new)
  BY DEF AreTemplates, IsVector
<1>3. ASSUME NEW m \in DOMAIN put
      PROVE  (m \in DOMAIN ts /\ put[m] = ts[m]) \/ (\E i \in DOMAIN new : put[m] = new[i] /\ new[i].name = m)
  <2>1. CASE Of(m) = {}
    BY <1>1, <2>1
  <2>2. CASE Of(m) # {}
    <3>1. PICK T : T = Of(m)
      OBVIOUS
    <3>2. T \in SUBSET Nat /\ \A x \in T : x <= Len(new)
      BY <1>2, <3>1
    <3>3. Highest(T) \in T
      BY <1>2, <2>2, <3>1, <3>2, HighestIs
    <3>4. put[m] = new[Highest(T)]
      BY <1>1, <2>2, <3>1
    <3> QED
      BY <3>1, <3>3, <3>4
  <2> QED
    BY <2>1, <2>2
<1> HIDE DEF Of
<1>4. PICK p, q : p = Sources(lib)[n] /\ q = Sources(more)[n]
  OBVIOUS
<1>5. p \subseteq q /\ Declared(more) \subseteq q
  <2>1. lib \subseteq more
    OBVIOUS
  <2> QED
    BY <1>4, <2>1, SourcesRise, DeclaredFound
<1>6. \A i \in DOMAIN new : new[i] \in more
  BY DEF ToSet
<1>7. Versions(put, more)
  <2> SUFFICES ASSUME NEW m \in DOMAIN put PROVE \E t \in more : SameButTypes(put[m], t)
    BY DEF Versions
  <2>1. CASE m \in DOMAIN ts /\ put[m] = ts[m]
    <3>1. PICK t \in lib : SameButTypes(ts[m], t)
      BY <2>1 DEF Versions
    <3> QED
      BY <2>1, <3>1
  <2>2. CASE \E i \in DOMAIN new : put[m] = new[i] /\ new[i].name = m
    <3>1. PICK i \in DOMAIN new : put[m] = new[i]
      BY <2>2
    <3>2. SameButTypes(new[i], new[i])
      BY DEF SameButTypes
    <3> QED
      BY <1>6, <3>1, <3>2
  <2> QED
    BY <1>3, <2>1, <2>2
<1>8. TypesIn(put, q)
  <2> SUFFICES ASSUME NEW m \in DOMAIN put, NEW k \in DOMAIN put[m].params, put[m].params[k].type # Untyped
               PROVE  <<m, k, put[m].params[k].type>> \in q
    BY DEF TypesIn
  <2>1. CASE m \in DOMAIN ts /\ put[m] = ts[m]
    BY <1>4, <1>5, <2>1 DEF TypesIn
  <2>2. CASE \E i \in DOMAIN new : put[m] = new[i] /\ new[i].name = m
    <3>1. PICK i \in DOMAIN new : put[m] = new[i] /\ new[i].name = m
      BY <2>2
    <3>2. PICK t : t = new[i]
      OBVIOUS
    <3>3. t \in more /\ k \in DOMAIN t.params /\ t.params[k].type # Untyped /\ t.name = m
      BY <1>6, <3>1, <3>2
    <3>4. <<t.name, k, t.params[k].type>> \in Declared(more)
      BY <3>3 DEF Declared
    <3> QED
      BY <1>5, <3>1, <3>2, <3>3, <3>4
  <2> QED
    BY <1>3, <2>1, <2>2
<1> QED
  BY <1>4, <1>7, <1>8

\* A type that a pass over a template gives to one of its parameters is found
\* in one step more.
LEMMA PassFound ==
  ASSUME NEW ts, Library(ts), NEW n \in DOMAIN ts, NEW t, t = ts[n], NEW others, others = Without(ts, n),
         NEW lib, Versions(ts, lib), NEW found, TypesIn(ts, found),
         NEW u \in Uses(t), Has(others, t.body[u[1]].of),
         Len(t.body[u[1]].args) = Len(others[t.body[u[1]].of].params),
         NEW type, type = TypeAfter(t, u, others), type # t.params[u[3]].type, type # Clash
  PROVE  <<n, u[3], type>> \in Deeper(lib, found)
<1>1. PICK i, j, k, of, arg : i = u[1] /\ j = u[2] /\ k = u[3] /\ of = t.body[i].of /\ arg = t.body[i].args[j]
  OBVIOUS
<1>2. i \in DOMAIN t.body /\ j \in DOMAIN t.body[i].args /\ k \in DOMAIN t.params
  BY <1>1 DEF Uses
<1>3. PICK s : s = others[of]
  OBVIOUS
<1>4. of \in DOMAIN ts /\ s = ts[of] /\ s.name = of /\ IsTemplate(s) /\ t.name = n /\ IsTemplate(t)
  BY <1>1, <1>3 DEF Has, Without, Library
<1>5. j \in DOMAIN s.params
  <2>1. IsVector(s.params) /\ IsVector(t.body[i].args) /\ Len(t.body[i].args) = Len(s.params)
    BY <1>1, <1>2, <1>3, <1>4 DEF IsTemplate
  <2>2. DOMAIN s.params = 1..Len(s.params) /\ DOMAIN t.body[i].args = 1..Len(t.body[i].args)
    BY <2>1 DEF IsVector
  <2> QED
    BY <1>2, <2>1, <2>2
<1>6. PICK param, p : param = s.params[j] /\ p = t.params[k]
  OBVIOUS
<1>7. type = IF param.type = Untyped THEN p.type ELSE Updated(p, Needed(arg, param))
  BY <1>1, <1>3, <1>6 DEF TypeAfter
<1>8. param.type # Untyped /\ type = Updated(p, Needed(arg, param)) /\ type # p.type
  BY <1>1, <1>6, <1>7
<1>9. <<of, j, param.type>> \in found
  BY <1>4, <1>5, <1>6, <1>8 DEF TypesIn
<1>10. PICK v \in lib : SameButTypes(t, v)
  BY DEF Versions
<1>11. PICK c \in lib : SameButTypes(s, c)
  BY <1>4 DEF Versions
<1>12. c.name = of /\ j \in DOMAIN c.params /\ c.params[j].optional = param.optional
  BY <1>4, <1>5, <1>6, <1>11 DEF SameButTypes
<1>13. v.name = n /\ v.body = t.body /\ u \in Uses(v)
  <2>1. v.name = n /\ v.body = t.body /\ DOMAIN v.params = DOMAIN t.params
        /\ \A m \in DOMAIN t.params : v.params[m].v = t.params[m].v
    BY <1>4, <1>10 DEF SameButTypes
  <2> QED
    BY <1>1, <1>2, <2>1 DEF Uses
<1>14. PICK need : need = Needed(arg, param)
  OBVIOUS
<1>15. need = PassedAs(arg, c.params[j], param.type)
  BY <1>12, <1>14 DEF Needed, PassedAs
<1>16. PICK f : f = <<of, j, param.type>>
  OBVIOUS
<1>17. f \in {g \in found : g[1] = c.name /\ g[2] = u[2]}
  BY <1>1, <1>9, <1>12, <1>16
<1>18. <<v.name, u[3], PassedAs(v.body[u[1]].args[u[2]], c.params[u[2]], f[3])>> \in PassedOn(lib, found)
  <2>1. c \in {x \in lib : x.name = v.body[u[1]].of /\ u[2] \in DOMAIN x.params}
    BY <1>1, <1>12, <1>13
  <2> QED
    BY <1>13, <1>17, <2>1 DEF PassedOn
<1>19. <<n, k, need>> \in PassedOn(lib, found)
  <2>1. f[3] = param.type
    BY <1>16
  <2> QED
    BY <1>1, <1>13, <1>15, <1>18, <2>1
<1>20. PICK more : more = found \cup PassedOn(lib, found)
  OBVIOUS
<1>21. Deeper(lib, found) = more \cup Joined(more)
  BY <1>20 DEF Deeper
<1>22. type = need \/ (p.type # Untyped /\ type = LubOf(p.type, need))
  BY <1>8, <1>14, Zenon DEF Updated
<1>23. CASE type = need
  BY <1>1, <1>19, <1>20, <1>21, <1>23
<1>24. CASE p.type # Untyped /\ type = LubOf(p.type, need)
  <2>1. PICK a, b : a = <<n, k, p.type>> /\ b = <<n, k, need>>
    OBVIOUS
  <2>2. a \in found
    BY <1>2, <1>6, <1>24, <2>1 DEF TypesIn
  <2>3. a \in more /\ b \in more
    BY <1>19, <1>20, <2>1, <2>2
  <2>4. <<a, b>> \in {x \in more \X more : x[1][1] = x[2][1] /\ x[1][2] = x[2][2]}
    BY <2>1, <2>3
  <2>5. <<n, k, type>> = <<a[1], a[2], LubOf(a[3], b[3])>>
    BY <1>24, <2>1
  <2>6. <<n, k, type>> \in Joined(more)
    BY <2>4, <2>5 DEF Joined
  <2> QED
    BY <1>1, <1>21, <2>6
<1> QED
  BY <1>22, <1>23, <1>24

\* A pass of the inference keeps the invariant.
LEMMA InferTypesFound ==
  ASSUME HeldInv, TypesInv, NEW n \in DOMAIN templates, NEW a, NEW b, Infer(n, a, b), ~LoseTemplates
  PROVE  TypesInv'
<1>1. PICK lib, ts, t, others, r, found :
        /\ lib = added /\ ts = templates /\ t = ts[n] /\ others = Without(ts, n) /\ r = InferTemplateTypes(t, others)
        /\ found = Sources(lib)[changes]
  OBVIOUS
<1>2. /\ r.ok
      /\ templates' = [ts EXCEPT ![n] = r.t]
      /\ changes' = (IF r.changed THEN changes + 1 ELSE changes)
      /\ added' = lib
  BY <1>1 DEF Infer
<1>3. Library(ts) /\ IsTemplate(t) /\ t.name = n /\ changes \in Nat /\ Versions(ts, lib) /\ TypesIn(ts, found) /\ n \in DOMAIN ts
  BY <1>1 DEF HeldInv, Held, Library, TypesInv, TypesFromUse, TypesIn
<1>4. IsTemplate(r.t) /\ SameButTypes(r.t, t)
  BY <1>1, <1>2, <1>3, InferOne
<1>5. PICK next : next = templates'
  OBVIOUS
<1>6. DOMAIN next = DOMAIN ts /\ next[n] = r.t /\ \A m \in DOMAIN ts : m # n => next[m] = ts[m]
  BY <1>2, <1>3, <1>5
<1>7. Versions(next, lib)
  <2> SUFFICES ASSUME NEW m \in DOMAIN ts PROVE \E v \in lib : SameButTypes(next[m], v)
    BY <1>6 DEF Versions
  <2>1. PICK v \in lib : SameButTypes(ts[m], v)
    BY <1>3 DEF Versions
  <2>2. CASE m = n
    <3>1. SameButTypes(r.t, v)
      BY <1>1, <1>4, <2>1, <2>2 DEF SameButTypes
    <3> QED
      BY <1>6, <2>2, <3>1
  <2>3. CASE m # n
    BY <1>6, <2>1, <2>3
  <2> QED
    BY <2>2, <2>3
<1>8. \/ ~r.changed /\ r.t = t
      \/ /\ r.changed
         /\ \E u \in Uses(t) : /\ Has(others, t.body[u[1]].of)
                               /\ Len(t.body[u[1]].args) = Len(others[t.body[u[1]].of].params)
                               /\ TypeAfter(t, u, others) \notin {t.params[u[3]].type, Clash}
                               /\ r.t = Retyped(t, u[3], TypeAfter(t, u, others))
  <2>1. IsTemplate(t) /\ r = InferTemplateTypes(t, others) /\ r.ok
    BY <1>1, <1>2, <1>3
  <2> QED
    BY <2>1, InferOne, Zenon
<1>9. CASE ~r.changed /\ r.t = t
  <2>1. changes' = changes
    BY <1>2, <1>9
  <2>2. \A m \in DOMAIN ts : next[m] = ts[m]
    BY <1>1, <1>6, <1>9
  <2>3. TypesIn(next, found)
    BY <1>3, <1>6, <2>2 DEF TypesIn
  <2>4. found = Sources(lib)[changes']
    BY <1>1, <2>1
  <2> QED
    BY <1>2, <1>3, <1>5, <1>7, <2>1, <2>3, <2>4 DEF TypesInv, TypesFromUse, TypesIn
<1>10. CASE /\ r.changed
            /\ \E u \in Uses(t) : /\ Has(others, t.body[u[1]].of)
                                  /\ Len(t.body[u[1]].args) = Len(others[t.body[u[1]].of].params)
                                  /\ TypeAfter(t, u, others) \notin {t.params[u[3]].type, Clash}
                                  /\ r.t = Retyped(t, u[3], TypeAfter(t, u, others))
  <2>1. PICK u \in Uses(t) : /\ Has(others, t.body[u[1]].of)
                             /\ Len(t.body[u[1]].args) = Len(others[t.body[u[1]].of].params)
                             /\ TypeAfter(t, u, others) \notin {t.params[u[3]].type, Clash}
                             /\ r.t = Retyped(t, u[3], TypeAfter(t, u, others))
    BY <1>10
  <2>2. PICK type, k, s : type = TypeAfter(t, u, others) /\ k = u[3] /\ s = r.t
    OBVIOUS
  <2>3. type # t.params[u[3]].type /\ type # Clash
    BY <2>1, <2>2
  <2>4. <<n, k, type>> \in Deeper(lib, found)
    BY <1>1, <1>3, <2>1, <2>2, <2>3, PassFound
  <2>5. k \in DOMAIN t.params
    BY <2>2 DEF Uses
  <2>6. s = Retyped(t, k, type)
    BY <2>1, <2>2
  <2>7. s.params[k].type = type /\ DOMAIN s.params = DOMAIN t.params
        /\ \A m \in DOMAIN t.params : m # k => s.params[m] = t.params[m]
    <3>1. SameButTypes(s, t) /\ s.params[k].type = type /\ \A m \in DOMAIN t.params : m # k => s.params[m] = t.params[m]
      BY <1>3, <2>5, <2>6, RetypedIs
    <3> QED
      BY <3>1 DEF SameButTypes
  <2>8. PICK deeper : deeper = Deeper(lib, found)
    OBVIOUS
  <2>9. changes' = changes + 1 /\ Sources(lib)[changes'] = deeper
    <3>1. changes' = changes + 1
      BY <1>2, <1>10
    <3>2. Sources(lib)[changes + 1] = Deeper(lib, Sources(lib)[changes])
      BY <1>3, SourcesAre
    <3> QED
      BY <1>1, <2>8, <3>1, <3>2
  <2>10. found \subseteq deeper
    BY <2>8 DEF Deeper
  <2>11. TypesIn(next, deeper)
    <3> SUFFICES ASSUME NEW m \in DOMAIN ts, NEW i \in DOMAIN next[m].params, next[m].params[i].type # Untyped
                 PROVE  <<m, i, next[m].params[i].type>> \in deeper
      BY <1>6 DEF TypesIn
    <3>1. CASE m # n
      <4>1. next[m] = ts[m]
        BY <1>6, <3>1
      <4> QED
        BY <1>3, <2>10, <4>1 DEF TypesIn
    <3>2. CASE m = n /\ i = k
      BY <1>6, <2>2, <2>4, <2>7, <2>8, <3>2
    <3>3. CASE m = n /\ i # k
      <4>1. next[m] = s /\ i \in DOMAIN t.params /\ s.params[i] = t.params[i]
        BY <1>6, <2>2, <2>7, <3>3
      <4>2. t.params[i].type # Untyped /\ t = ts[n]
        BY <1>1, <4>1
      <4>3. <<n, i, t.params[i].type>> \in found
        BY <1>3, <4>1, <4>2 DEF TypesIn
      <4> QED
        BY <2>10, <3>3, <4>1, <4>3
    <3> QED
      BY <3>1, <3>2, <3>3
  <2>12. changes' \in Nat
    BY <1>3, <2>9
  <2> QED
    BY <1>2, <1>5, <1>7, <2>9, <2>11, <2>12 DEF TypesInv, TypesFromUse, TypesIn
<1> QED
  BY <1>8, <1>9, <1>10

\* Adding templates keeps the invariant.
LEMMA AddedTypes ==
  ASSUME HeldInv, TypesInv, NEW new, AreTemplates(new), templates' = Put(templates, new),
         added' = added \cup ToSet(new), UNCHANGED changes
  PROVE  TypesInv'
<1>1. PICK ts, put, lib, more, n : /\ ts = templates /\ put = templates' /\ lib = added /\ more = added' /\ n = changes
  OBVIOUS
<1>2. /\ Library(ts) /\ put = Put(ts, new) /\ more = lib \cup ToSet(new) /\ n \in Nat /\ n = changes'
      /\ Versions(ts, lib) /\ TypesIn(ts, Sources(lib)[n])
  BY <1>1 DEF HeldInv, Held, TypesInv, TypesFromUse, TypesIn
<1>3. Versions(put, more) /\ TypesIn(put, Sources(more)[n])
  BY <1>2, PutTypes
<1> QED
  BY <1>1, <1>2, <1>3 DEF TypesInv, TypesFromUse, TypesIn

\* The invariant holds of the first templates, and of none.
LEMMA TypesStart ==
  /\ templates' = Start /\ added' = {TripleTemplate} /\ changes' = 0 => TypesInv'
  /\ templates' = <<>> /\ changes' = 0 => TypesInv'
  /\ Init => TypesInv
<1>1. Versions(<<>>, {}) /\ TypesIn(<<>>, Sources({})[0])
  BY DEF Versions, TypesIn
<1>2. Versions(Start, {TripleTemplate}) /\ TypesIn(Start, Sources({TripleTemplate})[0])
  <2>1. PICK none, new, put, lib, more, n :
          /\ none = <<>> /\ new = <<TripleTemplate>> /\ put = Put(none, new) /\ lib = {}
          /\ more = lib \cup ToSet(new) /\ n = 0
    OBVIOUS
  <2>2. Library(none) /\ AreTemplates(new) /\ n \in Nat /\ Versions(none, lib) /\ TypesIn(none, Sources(lib)[n])
    BY <1>1, <2>1, StartHeld, TripleIsTemplate DEF Held
  <2>3. Versions(put, more) /\ TypesIn(put, Sources(more)[n])
    BY <2>1, <2>2, PutTypes
  <2>4. more = {TripleTemplate}
    BY <2>1 DEF ToSet
  <2>5. put = Start
    BY <2>1 DEF Start, OfTemplates
  <2> QED
    BY <2>1, <2>3, <2>4, <2>5
<1>3. ASSUME templates' = Start, added' = {TripleTemplate}, changes' = 0
      PROVE  TypesInv'
  BY <1>2, <1>3 DEF TypesInv, TypesFromUse, TypesIn
<1>4. ASSUME templates' = <<>>, changes' = 0
      PROVE  TypesInv'
  BY <1>4 DEF TypesInv, TypesFromUse, Versions
<1>5. ASSUME Init PROVE TypesInv
  BY <1>2, <1>5 DEF Init, TypesInv, TypesFromUse, TypesIn
<1> QED
  BY <1>3, <1>4, <1>5

\* Every step keeps the invariant.
LEMMA TypesNext ==
  HeldInv /\ TypesInv /\ [Next]_vars => TypesInv'
<1> SUFFICES ASSUME HeldInv, TypesInv, [Next]_vars PROVE TypesInv'
  OBVIOUS
<1>1. ASSUME UNCHANGED <<templates, added, changes>> PROVE TypesInv'
  BY <1>1 DEF TypesInv, TypesFromUse, Versions
<1>2. ASSUME NEW doc \in Documents, AddTemplatesFromString(doc)
      PROVE  TypesInv'
  <2>1. AreTemplates(doc)
    BY TemplatesAssumption DEF AreTemplates
  <2>2. AreTemplates(FromDocuments(doc))
    BY <2>1, TripleIsTemplate
  <2> QED
    BY <1>2, <2>2, AddedTypes DEF AddTemplatesFromString, AddAll
<1>3. ASSUME NEW t \in Singles, AddTemplate(t)
      PROVE  TypesInv'
  <2>1. AreTemplates(<<t>>)
    <3>1. IsTemplate(t)
      BY TemplatesAssumption
    <3>2. IsVector(<<t>>)
      BY DEF IsVector, ToSet
    <3> QED
      BY <3>1, <3>2 DEF AreTemplates
  <2> QED
    BY <1>3, <2>1, AddedTypes DEF AddTemplate, AddAll
<1>4. ASSUME NEW call \in Calls, Map(call)
      PROVE  TypesInv'
  BY <1>1, <1>4 DEF Map, Expand
<1>5. ASSUME NEW d \in Defaults, MapDefault(d)
      PROVE  TypesInv'
  <2>1. PICK new : new = <<DefaultTemplate(d)>>
    OBVIOUS
  <2>2. AreTemplates(new)
    BY <2>1, DefaultIsTemplate
  <2>3. ToSet(new) = {DefaultTemplate(d)}
    BY <2>1 DEF ToSet
  <2>4. templates' = Put(templates, new) /\ UNCHANGED changes /\ added' = added \cup ToSet(new)
    BY <1>5, <2>1, <2>3 DEF MapDefault, Expand
  <2> QED
    BY <2>2, <2>4, AddedTypes
<1>6. ASSUME InferFirst \/ InferAgain PROVE TypesInv'
  <2>1. PICK n \in DOMAIN templates : \E a, b : Infer(n, a, b)
    BY <1>6, InferSteps
  <2>2. CASE LoseTemplates
    BY <2>2, TypesStart DEF LoseTemplates
  <2>3. CASE ~LoseTemplates
    BY <2>1, <2>3, InferTypesFound
  <2> QED
    BY <2>2, <2>3
<1>7. ASSUME Reload PROVE TypesInv'
  BY <1>7, TypesStart DEF Reload
<1>8. ASSUME InferDone \/ Proceed \/ Finish \/ TemplatesToGraph \/ UNCHANGED vars
      PROVE  TypesInv'
  BY <1>1, <1>8 DEF InferDone, Proceed, Finish, TemplatesToGraph, vars
<1> QED
  BY <1>2, <1>3, <1>4, <1>5, <1>6, <1>7, <1>8 DEF Next

\* No parameter ever has a type that neither a template that was added declares
\* for it, nor one passes it on to, alone or joined (infer_types): whatever the
\* order, and in the middle of an inference.
THEOREM TypesCorrect ==
  Spec => []TypesFromUse
<1>1. Init => HeldInv /\ TypesInv
  BY GraphInit, TypesStart DEF GraphInv
<1>2. HeldInv /\ TypesInv /\ [Next]_vars => HeldInv' /\ TypesInv'
  BY HeldNext, TypesNext
<1>3. TypesInv => TypesFromUse
  BY DEF TypesInv
<1> QED
  BY <1>1, <1>2, <1>3, PTL DEF Spec
=============================================================================
