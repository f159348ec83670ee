---------------------------- MODULE Triplestore ----------------------------
(***************************************************************************)
(* The triplestore (lib/triplestore): graphs of asserted and of transient  *)
(* triples over one set of encoders, and the calls that change them: add,  *)
(* update, garbage collection, compaction, truncation, detaching a graph   *)
(* and copying one from another model.                                     *)
(*                                                                         *)
(* A table is seen through its rows only (module Triples models its        *)
(* inside): a map holds rows <<graph, predicate, object type, subject id,  *)
(* object id>>, and a table exists when it has rows.  The keys of the two  *)
(* outer hash maps, graphs and predicates, can be there without a table    *)
(* and are kept apart.  Subjects are IRIs.                                 *)
(***************************************************************************)
EXTENDS CatMaps, Sequences, FiniteSetsExt

CONSTANTS Iri,       \* IRIs, as strings of CatMaps
          Lit,       \* literals of one datatype
          Pred,      \* the predicates among the IRIs
          Named,     \* the graph names among the IRIs
          Default,   \* the default graph
          Quad,      \* the quads calls are about
          Batches,   \* sequences of batches that calls add
          Deletions, \* sets of quads that updates delete
          GcLimit,   \* GC_LIMIT
          MaxId,     \* bound on the counters
          MaxCalls   \* bound on the number of calls that change a store

Graph == Named \cup {Default}
Cat == {"iri", "lit"}

ASSUME NamesAssumption ==
  /\ Iri \subseteq Str /\ Lit \subseteq Str
  /\ Pred \subseteq Iri /\ Named \subseteq Iri
  /\ Default \notin Iri
ASSUME QuadAssumption ==
  /\ Quad \subseteq ((Graph \X Pred \X {"iri"} \X Iri \X Iri)
                      \cup (Graph \X Pred \X {"lit"} \X Iri \X Lit))
  /\ IsFiniteSet(Quad)
ASSUME InputAssumption ==
  /\ Deletions \subseteq SUBSET Quad
  /\ \A Qs \in Batches : Qs \in Seq(SUBSET Quad) /\ Len(Qs) \in {1, 2}
  /\ \A Qs \in Batches : \A i \in DOMAIN Qs :
       /\ Qs[i] # {}
       /\ \A q, r \in Qs[i] : <<q[1], q[2], q[3]>> = <<r[1], r[2], r[3]>>
ASSUME LimitsAssumption == GcLimit \in Nat \ {0} /\ MaxId \in Nat /\ MaxCalls \in Nat

VARIABLES store,     \* the model in use
          other,     \* a second model: a graph that was detached
          status,    \* "ok", or "panicked" once a call unwound
          call,      \* ghost: what the last call was asked to do
          calls      \* number of calls so far

vars == <<store, other, status, call, calls>>

-----------------------------------------------------------------------------
(* Stores.                                                                 *)

GraphOf(r) == r[1]
PredKey(r) == <<r[1], r[2]>>
Key(r) == <<r[1], r[2], r[3]>>

\* A map from graphs to predicates to tables.
EmptyMap == [graphs |-> {Default}, preds |-> {}, rows |-> {}]
NoMap == [graphs |-> {}, preds |-> {}, rows |-> {}]

\* Triplestore::new.  isDetached is a ghost: the store was made by detach_graph.
NewStore ==
  [asserted |-> EmptyMap, transient |-> EmptyMap,
   present |-> {}, enc |-> [c \in Cat |-> EmptyEnc], counter |-> [c \in Cat |-> 0],
   deleted |-> 0, isDetached |-> FALSE]

MapType(m) == /\ m.graphs \subseteq Graph
              /\ m.preds \subseteq Graph \X Pred
              /\ m.rows \subseteq Graph \X Pred \X Cat \X Nat \X Nat

StoreType(st) ==
  /\ MapType(st.asserted) /\ MapType(st.transient)
  /\ \A r \in st.asserted.rows : PredKey(r) \in st.asserted.preds
  /\ \A r \in st.transient.rows : PredKey(r) \in st.transient.preds
  /\ \A k \in st.asserted.preds : k[1] \in st.asserted.graphs
  /\ \A k \in st.transient.preds : k[1] \in st.transient.graphs
  /\ st.present \subseteq Cat
  /\ \A c \in Cat : /\ Strings(st.enc[c]) \subseteq Iri \cup Lit
                    /\ Ids(st.enc[c]) \subseteq Nat
                    /\ c \notin st.present => st.enc[c] = EmptyEnc
  /\ st.counter \in [Cat -> Nat] /\ st.deleted \in Nat /\ st.isDetached \in BOOLEAN

\* The terms of a row; an identifier the encoder does not know has none.
Unknown == -1
Term(enc, u) == IF u \in Ids(enc) THEN enc.rev[u] ELSE Unknown
Decode(st, r) == <<r[1], r[2], r[3], Term(st.enc["iri"], r[4]), Term(st.enc[r[3]], r[5])>>
Quads(st, m) == {Decode(st, r) : r \in m.rows}

\* The row of a quad whose terms are known.
KnownQuad(st, q) == q[4] \in Strings(st.enc["iri"]) /\ q[5] \in Strings(st.enc[q[3]])
Encode(st, q) == <<q[1], q[2], q[3], st.enc["iri"].map[q[4]], st.enc[q[3]].map[q[5]]>>

\* Names that are keys of the maps and not columns.
NamesOf(m) == {k[2] : k \in m.preds} \cup (m.graphs \cap Named)

\* The identifiers of a category in the rows R.
IdsIn(R, c) == {r[5] : r \in {x \in R : x[3] = c}}
               \cup (IF c = "iri" THEN {r[4] : r \in R} ELSE {})

-----------------------------------------------------------------------------
(* Adding.                                                                 *)

\* Merging the strings S of category c into the encoders of a store.
MergeInto(st, c, S) ==
  [st EXCEPT !.present = @ \cup {c},
             !.enc[c] = MergeEnc(@, S, st.counter[c]),
             !.counter[c] = MergeCounter(st.enc[c], S, @)]

\* globalize for one batch of quads of one key: the unknown strings of the
\* subject column are merged, then those of the object column.  A column
\* without unknown strings has no local encoder.
MergeColumn(st, c, S) == IF S \subseteq Strings(st.enc[c]) THEN st ELSE MergeInto(st, c, S)
GlobalizeBatch(st, Q) ==
  LET subjects == MergeColumn(st, "iri", {q[4] : q \in Q})
  IN  MergeColumn(subjects, (CHOOSE q \in Q : TRUE)[3], {q[5] : q \in Q})

\* encode_predicates_and_named_graphs: new names are numbered in the order of
\* a HashSet, which can be any; ids is the numbering.
NewNames(st, Q) ==
  ({q[2] : q \in Q} \cup ({GraphOf(q) : q \in Q} \cap Named)) \ Strings(st.enc["iri"])
NameNumberings(st, Q) ==
  LET n == NewNames(st, Q)
      c == st.counter["iri"]
  IN  {ids \in [n -> c..(c + Cardinality(n) - 1)] : Cardinality(Range(ids)) = Cardinality(n)}
EncodeNames(st, ids) ==
  [st EXCEPT !.present = @ \cup {"iri"},
             !.enc["iri"] = InsertAll(@, ids),
             !.counter["iri"] = @ + Cardinality(DOMAIN ids)]

\* What is left of a batch: a transient one loses the rows that are asserted.
Remaining(st, R, transient) == IF transient THEN R \ st.asserted.rows ELSE R

\* Mutant: the table taken out of the map is not put back.
AddGlobalReplacing(st, Rs, transient) ==
  LET m == IF transient THEN st.transient ELSE st.asserted
      added == UNION {Remaining(st, Rs[i], transient) : i \in DOMAIN Rs}
      new == [graphs |-> m.graphs \cup {GraphOf(r) : r \in UNION {Rs[i] : i \in DOMAIN Rs}},
              preds |-> m.preds \cup {PredKey(r) : r \in added},
              rows |-> {r \in m.rows : \A x \in added : Key(r) # Key(x)} \cup added]
  IN  IF transient THEN [st EXCEPT !.transient = new] ELSE [st EXCEPT !.asserted = new]

\* add_global_cat_triples for a sequence of batches of rows, each of one key.
\* The table of a key is taken out of the map at the first batch of the key; if
\* nothing is left of that batch, `continue` drops the table that was taken.
AddGlobal(st, Rs, transient) ==
  LET m == IF transient THEN st.transient ELSE st.asserted
      Left(i) == Remaining(st, Rs[i], transient)
      First(i) == \A j \in 1..(i - 1) : \A r \in Rs[j], x \in Rs[i] : Key(r) # Key(x)
      dropped == UNION {{Key(r) : r \in Rs[i]} : i \in {j \in DOMAIN Rs : First(j) /\ Left(j) = {}}}
      added == UNION {Left(i) : i \in DOMAIN Rs}
      new == [graphs |-> m.graphs \cup UNION {{GraphOf(r) : r \in Rs[i]} : i \in DOMAIN Rs},
              preds |-> m.preds \cup {PredKey(r) : r \in added},
              rows |-> {r \in m.rows : Key(r) \notin dropped} \cup added]
  IN  IF transient THEN [st EXCEPT !.transient = new] ELSE [st EXCEPT !.asserted = new]

\* add_triples_vec for a sequence of at most two batches: every result it can
\* have.  The strings of all batches are merged, then the names, then the rows
\* are added.
AddTriplesVec(st, Qs, transient) ==
  LET merged == IF Len(Qs) = 1 THEN GlobalizeBatch(st, Qs[1])
                ELSE GlobalizeBatch(GlobalizeBatch(st, Qs[1]), Qs[2])
      all == UNION {Qs[i] : i \in DOMAIN Qs}
      Rows(named) == [i \in DOMAIN Qs |-> {Encode(named, q) : q \in Qs[i]}]
      Result(ids) == LET named == EncodeNames(merged, ids)
                     IN  AddGlobal(named, Rows(named), transient)
  IN  IF Qs = <<>> THEN {st} ELSE {Result(ids) : ids \in NameNumberings(merged, all)}

-----------------------------------------------------------------------------
(* Deleting.                                                               *)

\* delete_global_cat_triples on one map: the tables of the keys of D are
\* rebuilt without the rows of D; `hidden` are the rows a rebuilt table loses
\* because add_global_cat_triples finds them asserted.  A predicate that has no
\* table left loses its key.
DeleteFromMap(m, st, D, hidden) ==
  LET del == {Encode(st, q) : q \in {d \in D : KnownQuad(st, d)}}
      touched == {Key(q) : q \in D}
      left == {r \in m.rows : /\ r \notin del
                              /\ Key(r) \in touched => r \notin hidden}
      bare == {k \in {PredKey(q) : q \in D} : \A r \in left : PredKey(r) # k}
  IN  [m EXCEPT !.rows = left, !.preds = @ \ bare]

\* Mutant: transient triples are not deleted.
DeleteTriplesAsserted(st, D) ==
  [st EXCEPT !.asserted = DeleteFromMap(st.asserted, st, D, {}),
             !.deleted = @ + Cardinality(D)]

\* delete_triples_vec for quads of graphs that exist, from both maps.
DeleteTriples(st, D) ==
  LET asserted == DeleteFromMap(st.asserted, st, D, {})
  IN  [st EXCEPT !.asserted = asserted,
                 !.transient = DeleteFromMap(st.transient, st, D, asserted.rows),
                 !.deleted = @ + Cardinality(D)]

-----------------------------------------------------------------------------
(* Garbage collection and compaction.                                      *)

\* The assertion in garbage_collect: the names of both maps are encoded.
GcPanics(st) ==
  ~(NamesOf(st.asserted) \cup NamesOf(st.transient) \subseteq Strings(st.enc["iri"]))

\* Mutant: transient tables do not keep their strings.
UsedIdsAsserted(st, c) ==
  IdsIn(st.asserted.rows, c)
  \cup (IF c # "iri" THEN {}
        ELSE {st.enc[c].map[n] : n \in NamesOf(st.asserted) \cup NamesOf(st.transient)})

\* The identifiers of category c in use: in columns of both maps, and the names.
UsedIds(st, c) ==
  IdsIn(st.asserted.rows \cup st.transient.rows, c)
  \cup (IF c # "iri" THEN {}
        ELSE {st.enc[c].map[n] : n \in NamesOf(st.asserted) \cup NamesOf(st.transient)})

GarbageCollected(st) ==
  [st EXCEPT !.enc = [c \in Cat |-> CollectEnc(st.enc[c], Ids(st.enc[c]) \ UsedIds(st, c))],
             !.deleted = 0]

\* compact unwraps the new identifier of every row, and the largest identifier
\* of every encoder.
CompactPanics(st) ==
  \/ \E c \in Cat : ~(IdsIn(st.asserted.rows \cup st.transient.rows, c) \subseteq Ids(st.enc[c]))
  \/ \E c \in st.present : CounterPanics(st.enc[c])

Renumbered(st, r) ==
  <<r[1], r[2], r[3],
    RankMap(st.enc["iri"], {r[4]})[r[4]], RankMap(st.enc[r[3]], {r[5]})[r[5]]>>

\* The map is drained and filled again from the tables: a graph or a predicate
\* without a table does not come back.
CompactMap(m, st) ==
  LET rows == {Renumbered(st, r) : r \in m.rows}
  IN  [graphs |-> {GraphOf(r) : r \in rows}, preds |-> {PredKey(r) : r \in rows}, rows |-> rows]

\* Mutant: the counter is the number of identifiers.
CountersBySize(present, enc) == [c \in Cat |-> Cardinality(Ids(enc[c]))]

\* recompute_counters.
Counters(present, enc) ==
  [c \in Cat |-> IF c \in present THEN RecomputedCounter(enc[c]) ELSE 0]

Compacted(st) ==
  LET enc == [c \in Cat |-> CompactEnc(st.enc[c])]
  IN  [st EXCEPT !.asserted = CompactMap(st.asserted, st),
                 !.transient = CompactMap(st.transient, st),
                 !.enc = enc,
                 !.counter = Counters(st.present, enc)]

\* What a panic in compact leaves: the maps were drained before the tables were
\* rebuilt.
Drained(st) ==
  [st EXCEPT !.asserted = NoMap, !.transient = NoMap, !.enc = [c \in Cat |-> CompactEnc(@[c])]]

-----------------------------------------------------------------------------
(* Truncating, detaching, copying.                                         *)

Without(m, g) == [graphs |-> m.graphs \ {g},
                  preds |-> {k \in m.preds : k[1] # g},
                  rows |-> {r \in m.rows : GraphOf(r) # g}]

\* The part of a map for graph g, under the name h.
OnlyGraph(m, g, h) ==
  IF g \notin m.graphs THEN NoMap
  ELSE [graphs |-> {h},
        preds |-> {<<h, k[2]>> : k \in {x \in m.preds : x[1] = g}},
        rows |-> {<<h, r[2], r[3], r[4], r[5]>> : r \in {x \in m.rows : GraphOf(x) = g}}]

Truncated(st, g) == [st EXCEPT !.asserted = Without(@, g), !.transient = Without(@, g)]

\* What detach_graph leaves behind: an empty default graph is put back.
LeftBehind(st, g) ==
  LET rest == Without(st.asserted, g)
      graphs == IF g = Default THEN rest.graphs \cup {Default} ELSE rest.graphs
  IN  [st EXCEPT !.asserted = [rest EXCEPT !.graphs = graphs], !.transient = Without(@, g)]

\* Mutant: the encoders of a detached graph cover the columns only.
ImageIdsOfColumns(st, g, c) == IdsIn(OnlyGraph(st.asserted, g, g).rows, c)

\* The identifiers of category c the encoders of a detached graph are made of:
\* the columns of its asserted tables, and its asserted predicates.
ImageIds(st, g, c) ==
  IdsIn(OnlyGraph(st.asserted, g, g).rows, c)
  \cup (IF c # "iri" THEN {}
        ELSE {st.enc[c].map[p] : p \in {k[2] : k \in OnlyGraph(st.asserted, g, g).preds}
                                          \cap Strings(st.enc[c])})

\* The store detach_graph returns.
DetachedStore(st, g, h) ==
  LET enc == [c \in Cat |-> ImageEnc(st.enc[c], ImageIds(st, g, c))]
      present == {c \in Cat : Ids(enc[c]) # {}}
  IN  [asserted |-> OnlyGraph(st.asserted, g, h), transient |-> OnlyGraph(st.transient, g, h),
       present |-> present, enc |-> enc, counter |-> Counters(present, enc),
       deleted |-> 0, isDetached |-> TRUE]

\* add_graph(other, g, h): every table of graph g of the other store is a batch
\* that brings all encoders of the other store with it.
ReEncoded(st, from, h, r) ==
  <<h, r[2], r[3], MergeReEnc(st.enc["iri"], from.enc["iri"])[r[4]],
                   MergeReEnc(st.enc[r[3]], from.enc[r[3]])[r[5]]>>
GraphAdded(st, from, g, h) ==
  LET source == {r \in from.asserted.rows : GraphOf(r) = g}
      merged == [st EXCEPT
        !.present = @ \cup from.present,
        !.enc = [c \in Cat |-> MergeEnc(@[c], Strings(from.enc[c]), st.counter[c])],
        !.counter = [c \in Cat |-> MergeCounter(st.enc[c], Strings(from.enc[c]), @[c])]]
      rows == {ReEncoded(merged, from, h, r) : r \in source}
  IN  IF source = {} THEN {st}
      ELSE {AddGlobal(EncodeNames(merged, ids), <<rows>>, FALSE) :
              ids \in NameNumberings(merged, rows)}

-----------------------------------------------------------------------------
(* Calls.                                                                  *)

\* A call runs under the lock of the model, which a panic poisons.
Calling == status = "ok" /\ calls < MaxCalls /\ calls' = calls + 1

Fits(st) == \A c \in Cat : st.counter[c] <= MaxId

Call(op, D, I, g, h) == [op |-> op, del |-> D, ins |-> I, from |-> g, to |-> h]
Plain(op) == Call(op, {}, {}, Default, Default)
AllOf(Qs) == UNION {Qs[i] : i \in DOMAIN Qs}

Init == /\ store = NewStore
        /\ other = NewStore
        /\ status = "ok"
        /\ call = Plain("new")
        /\ calls = 0

\* add_triples_vec, called by the mapping, the readers and CONSTRUCT-inserts.
AddTriples(Qs, transient) ==
  /\ Calling
  /\ store' \in AddTriplesVec(store, Qs, transient)
  /\ Fits(store')
  /\ call' = IF transient THEN Plain("transient") ELSE Call("change", {}, AllOf(Qs), Default, Default)
  /\ UNCHANGED <<other, status>>

\* maybe_garbage_collect, on the store an update has reached.
MaybeGarbageCollect(st) ==
  \/ st.deleted < GcLimit /\ store' = st /\ UNCHANGED status
  \/ /\ st.deleted >= GcLimit /\ ~GcPanics(st)
     /\ store' = GarbageCollected(st) /\ UNCHANGED status
  \/ st.deleted >= GcLimit /\ GcPanics(st) /\ store' = st /\ status' = "panicked"

MissingGraphs(D) == {GraphOf(q) : q \in D} \ store.asserted.graphs

\* update_parsed, one DELETE/INSERT: deletions, insertions, garbage collection.
Update(D, Qs) ==
  /\ Calling
  /\ MissingGraphs(D) = {}
  /\ \E st \in AddTriplesVec(DeleteTriples(store, D), Qs, FALSE) :
       Fits(st) /\ MaybeGarbageCollect(st)
  /\ call' = Call("change", D, AllOf(Qs), Default, Default)
  /\ UNCHANGED other

\* The deletions run graph by graph in the order of a hash map, and the first
\* graph that is not asserted ends the update with an error: the graphs before
\* it are done, and its own deletions are already counted.
UpdateFails(D) ==
  /\ Calling
  /\ \E bad \in MissingGraphs(D) :
     \E done \in SUBSET ({GraphOf(q) : q \in D} \ MissingGraphs(D)) :
       store' = LET applied == DeleteTriples(store, {q \in D : GraphOf(q) \in done})
                IN  [applied EXCEPT !.deleted = @ + Cardinality({q \in D : GraphOf(q) = bad})]
  /\ call' = Call("fail", D, {}, Default, Default)
  /\ UNCHANGED <<other, status>>

\* garbage_collect, called by serialize.
GarbageCollect ==
  /\ Calling
  /\ \/ ~GcPanics(store) /\ store' = GarbageCollected(store) /\ UNCHANGED status
     \/ GcPanics(store) /\ status' = "panicked" /\ UNCHANGED store
  /\ call' = Plain("collect")
  /\ UNCHANGED other

\* Triplestore::compact.
Compact ==
  /\ Calling
  /\ \/ /\ ~CompactPanics(store)
        /\ store' = Compacted(store)
        /\ call' = Plain("compact")
        /\ UNCHANGED status
     \/ /\ CompactPanics(store)
        /\ store' = Drained(store)
        /\ call' = Plain("crash")
        /\ status' = "panicked"
  /\ UNCHANGED other

Truncate(g) ==
  /\ Calling
  /\ store' = Truncated(store, g)
  /\ call' = Call("clear", {}, {}, g, g)
  /\ UNCHANGED <<other, status>>

\* detach_graph; the second model is replaced by the detached one.
DetachGraph(g, preserveName) ==
  /\ Calling
  /\ g \in store.asserted.graphs
  /\ other' = DetachedStore(store, g, IF preserveName THEN g ELSE Default)
  /\ store' = LeftBehind(store, g)
  /\ call' = Call("split", {}, {}, g, IF preserveName THEN g ELSE Default)
  /\ UNCHANGED status

\* add_graph from the second model.
AddGraph(g, h) ==
  /\ Calling
  /\ store' \in GraphAdded(store, other, g, h)
  /\ Fits(store')
  /\ call' = Call("copy", {}, {}, g, h)
  /\ UNCHANGED <<other, status>>

\* The program goes on with the second model.
Swap == /\ status = "ok"
        /\ store' = other /\ other' = store
        /\ call' = Plain("swap")
        /\ UNCHANGED <<status, calls>>

\* Calls on a poisoned lock fail.
CallOnPoisoned == status = "panicked" /\ UNCHANGED vars

Next ==
  \/ \E Qs \in Batches, t \in BOOLEAN : AddTriples(Qs, t)
  \/ \E D \in Deletions, Qs \in {<<>>} \cup {x \in Batches : Len(x) = 1} : Update(D, Qs)
  \/ \E D \in Deletions : UpdateFails(D)
  \/ GarbageCollect
  \/ Compact
  \/ \E g \in Graph : Truncate(g)
  \/ \E g \in Graph, b \in BOOLEAN : DetachGraph(g, b)
  \/ \E g, h \in Graph : AddGraph(g, h)
  \/ Swap
  \/ CallOnPoisoned

Spec == Init /\ [][Next]_vars

-----------------------------------------------------------------------------
(* Properties.                                                             *)

TypeOK == /\ StoreType(store) /\ StoreType(other)
          /\ status \in {"ok", "panicked"}
          /\ call.del \subseteq Quad /\ call.ins \subseteq Quad
          /\ calls \in Nat

IdsKnown(st, m) == \A c \in Cat : IdsIn(m.rows, c) \subseteq Ids(st.enc[c])

\* Every asserted triple can be decoded, and every asserted predicate has an
\* identifier, in the model in use and in a detached one: no sequence of
\* deleting, collecting, compacting, detaching and copying separates the tables
\* from the encoders.
AssertedDecodes ==
  \A st \in {store, other} :
    IdsKnown(st, st.asserted) /\ {k[2] : k \in st.asserted.preds} \subseteq Strings(st.enc["iri"])

\* In a model that was not made by detaching, the same holds of transient
\* triples and of the names of graphs, so garbage collection never panics.
RootDecodes ==
  \A st \in {store, other} : ~st.isDetached => IdsKnown(st, st.transient) /\ ~GcPanics(st)

\* What an update deletes is gone from both maps when it returns, in a model
\* that was not made by detaching (a transient row that the detached encoders do
\* not know can come to stand for another quad).
DeletedAreGone ==
  call.op = "change" /\ ~store.isDetached =>
    Quads(store, store.transient) \cap (call.del \ call.ins) = {}

\* Two rows of a map never stand for the same quad: an identifier is never
\* given out twice, and a string never encoded twice.
NoAliases ==
  \A st \in {store, other} : \A c \in Cat :
    /\ \A s \in Strings(st.enc[c]) : st.enc[c].rev[st.enc[c].map[s]] = s
    /\ \A u \in Ids(st.enc[c]) : st.enc[c].map[st.enc[c].rev[u]] = u /\ u < st.counter[c]

Abstract == INSTANCE GraphStore WITH quads <- Quads(store, store.asserted),
                                     detached <- Quads(other, other.asserted)

\* The asserted triples behave as a set of quads, whatever happens to the
\* identifiers behind them.
ImplementsGraphStore == Abstract!GSpec

\* Transient triples stay available for querying when more of them are added:
\* only triples that are asserted may leave the transient map.
TransientKept ==
  [][(\E Qs \in Batches : AddTriples(Qs, TRUE)) =>
       Quads(store, store.transient) \subseteq
         Quads(store', store'.transient) \cup Quads(store', store'.asserted)]_vars
=============================================================================
