# maplib: a TLA+ verification project

maplib is an in-memory RDF triplestore in Rust: bulk mapping of data frames
through OTTR templates, SPARQL query and update, RDFS inference, saving and
loading, with bindings for Python (`py_maplib`) and R (`maplibr`). This directory
holds TLA+ modules of the parts that carry its own logic, TLC configurations that
check them on small instances, and TLAPS proofs for every size of instance.
`PROJECT.json` lists components, runs, hazards, theorems and, under `map`, the
source lines each definition stands for.

## 1. Inventory

### How the parts fit together

A call of the Python API (`py_model.rs`) gives up the interpreter lock, locks the
mutex of its model and works on a `Model` (`lib/maplib`), which owns a template
library, a counter for blank nodes and a `Triplestore` (`lib/triplestore`). The
store owns

- two maps from graph to predicate to pair of types to *table*: one of asserted
  and one of transient (inferred, not exported) triples;
- the global *encoders* (`representation/src/cats`, `lib/in_memory`), shared through
  an `Arc<RwLock>`: for every category of terms a map from strings to `u32`
  identifiers, its reverse, and a counter for the next identifier.

Tables hold identifiers only. So every operation that renumbers, collects or
selects identifiers (garbage collection, compaction, detaching a graph, adding a
graph of another model, loading) has to change tables and encoders in step, and
whoever keeps identifiers outside a table (a query result) has to use them before
the next renumbering. Most of the hard behaviour of the program is here.

### Components

| Component | State | Operations | Hard behaviour | What makes it correct |
| --- | --- | --- | --- | --- |
| Table of triples: `storage.rs`, `storage/` | segments sorted by subject and by object, hash index of rows, height | new, add a batch, probe, merge segments, compact, reload, delete | lazily rebuilt index, three forms of the same rows, merging policy | a set of rows; all forms agree; few segments |
| Term encoders: `cats*`, `lib/in_memory` | string and identifier maps, counters | encode, merge, collect, compact, image, recompute a counter | reuse of identifiers, emptied encoders | maps inverse, counters fresh, columns decode |
| Triplestore: `lib.rs`, `add_triples.rs`, `sparql/delete.rs` | asserted and transient maps, encoders, count of deletions | add, update, collect, compact, truncate, detach, add graph | the order of drains and panics, two maps with the same triples | asserted triples behave as a set of quads |
| RDFS inference: `rdfs_inferencing.rs` | transient triples | stages of rules, once or to a fixpoint | batches that overlap, inserts that lose rows | complete, counted exactly, terminates |
| Locking in the Python binding: `py_model.rs`, `mutexes.rs`, `udf.rs` | GIL, one mutex per model | every method of the API | lock order, errors and panics under locks, callbacks into Python | no lock leaks, deadlocks characterised |
| Saving and loading: `serialization.rs` | a folder of files | save, load | failures and crashes between file operations | a load gives the last committed save or fails |
| Query engine: `triplestore/src/sparql`, `lib/query_processing`, `dblf.rs` | none between calls | rewrite, patterns, paths, joins, pushdowns, filters, aggregates, modifiers, debugger | restrictions that flow from one pattern into another, the order of joins, scans put together from many tables | same solutions as the algebra |
| Updates: `sparql.rs`, `sparql/insert.rs`, `sparql/delete.rs` | the operations left of a call | delete and insert where, CONSTRUCT into a graph | one graph after another in the order of a hash map, errors in between | each operation as one step, a failure only deletes |
| SPARQL algebra and parser: `spargebra` | none | parse a group into the algebra, print it | precedence, scopes of blank nodes, nested selections | what is printed parses to the same |
| Templates and mapping: `lib/templates`, `lib/maplib` | template library, blank node counter | add, infer types, validate, expand, default template, templates as triples | naming of blank nodes, fixpoint of types, nulls and lists in columns | triples as the instances stand for them, names fresh, inference ends by itself |
| Readers and writers of RDF | none | one document each | partial failure after truncation | round trips |

Full text search, SHACL, Datalog, CIM/XML, OPC UA, Chrontext and disk storage are
stubs in this repository (their engines are closed source). They are listed in
`PROJECT.json` as not modelled.

## 2. Modules

| Module | Models | Correspondence |
| --- | --- | --- |
| `TripleSet` | what a table promises | abstract: a set of rows and the rows a call hands back |
| `Triples` | one table | `segments`, `height`, `index` are the fields of `Triples`; `AddTriples`, `RemoveOverlapping`, `Compact`, `Reload`, `Delete` are its methods, each with the merging or rebuilding that the method ends or begins with |
| `CatMaps` | one encoder | operators for encode, merge, collect, compact, image, rank map and counter |
| `Encoder` | the life of one global encoder with the column that uses it | every sequence of batches, deletions, collections, compactions and detaching |
| `GraphStore` | what a store promises | abstract: asserted quads, and the quads of a detached model |
| `Triplestore` | two models with asserted and transient maps, names of graphs and predicates, encoders and counters | one action per call; uses `CatMaps`; tables are seen through their rows |
| `RdfsInference` | `interesting_rdfs_rules` | the nine rules as set comprehensions, `insert_once` as two steps (query all, insert all), the two loops |
| `ModelLocks` | the threads of a Python program | a program counter per thread along the path of a method, `gil`, `mutex`, `poisoned` |
| `Serialization` | a folder, one writer | one action per file created, completed or removed; `Fail` and `Crash` at any point |
| `SparseIndex`, `SegmentLookups` | the index sampled from the sorted strings of a segment, and the lookups through it | `CreateSparseIndex`, `LookupOffsets`, `Between` are the functions of `storage.rs`; `SegmentLookups` grows a column row by row |
| `Algebra` | graph patterns, updates and quads as records | the types of `spargebra::algebra` and `spargebra::term`; no behaviour |
| `Sparql`, `SparqlParser`, `SparqlPrinter` | which variables a pattern binds, the translation of a group of items into them, and `Display` | one operator per rule of the grammar or arm of the printer; a printed pattern is the text that it would be parsed from |
| `Rewrites` | `rewrite/`: pushdown, common subexpressions, lifting of BIND | one recursive operator per pass, applied in the order of `rewrite.rs` |
| `Pushdowns` | restrictions on values and types of variables | the fields and methods of `Pushdowns` |
| `Tables`, `Expressions` | solutions with types of columns; joins, unions, sorting; expressions on rows | `SolutionMappings` and the functions of `query_processing` |
| `TableScans` | which tables of a predicate, and which rows of them, are read for what is known of subjects and objects | `multiple_tt_to_lf`, `single_triples_to_lf`, `get_lazy_frames`; lookups go through `SparseIndex` |
| `Scans`, `Engine` | the order of joins; the evaluation of patterns through tables, indexes and pushdowns | one operator per kind of `lazy_graph_patterns` |
| `Debugging` | the search for the reason of an empty answer | `debug_gp` |
| `SparqlReference` | what SPARQL 1.1 says of the same algebra | no code: the yardstick for `Engine`, `Rewrites` and `Updates` |
| `Queries` | a query written item by item, parsed, rewritten, evaluated, debugged | each stage of `query` is an action |
| `AtomicUpdates` | what an update promises | abstract: an operation deletes from and inserts into all graphs in one step, or it fails and some graphs have lost what it deletes; a CONSTRUCT query inserts all it describes, and as transient may cost inferred triples of the tables it meets |
| `Updates` | a call with several operations | `Solve`, `DeleteGraph`, `InsertGraph`, ... are the steps of the loop in `update_parsed`; any graph may be next |
| `Templates` | templates and the library that holds them | the types of `ast.rs`, `add_template`; the order of the hash map is a choice |
| `TemplateTypes` | what two types have in common, the check of a table, types and values of constants | `lub`, `validation.rs`, `constant_terms.rs` |
| `Expansion` | what one instance passes to its template, and the triples of a table at the end | `create_remapped`, `create_triples`, `fill_nulls_with_defaults`; types and values of constants are parameters |
| `TemplateReference` | what a template stands for, one row and one instance at a time | no code: the yardstick for `Expansion` |
| `TemplateGraph` | templates as triples | `as_rdf.rs` |
| `Mappings` | a model: adding, inferring types, mapping, default templates, writing the graph, reloading | one action per method of `Model`; inference is one step per template that is taken out of the map (`InferFirst`, `InferAgain`); a mapping is one step per instance of `_expand` (`Proceed`) and one for `process_results` (`Finish`); joining types and checking tables are parameters, given by `TemplateTypes` |
| `CatMapsProofs` | lemmas | one per operator of `CatMaps`, cited by the proofs of encoders and store |
| `StorageProofs`, `EncoderProofs`, `TriplestoreProofs`, `RdfsInferenceProofs`, `ModelLocksProofs`, `UpdatesProofs`, `MappingsProofs` | theorems | see section 5; `StorageProofs` is about tables, lookups, scans and saving |

How they compose: `Queries` stands on `Engine` and `Rewrites`, `SparqlPrinter` and
`Debugging`, which all stand on `Sparql`; `Updates` takes the evaluator of patterns and
their solutions by the recommendation as parameters, and `MCUpdates` gives it the same
`Engine` and `SparqlReference`, on a dataset that changes;
`Engine` reads tables through `Scans`, which goes through `TableScans` to
`SparseIndex`, so a lookup by subject in a query goes through the sampled index.
`Triplestore` uses the encoder of `CatMaps` that `Encoder` checks alone.
`Mappings` takes the join of two types, the check of a table and the types of constants
as parameters, because they are recursive and the proofs about it cannot reach such
definitions; `MCMappings` gives them those of `TemplateTypes`, and checks what the
proofs assume of them on its documents and tables.

`MC*` modules give the constants values for TLC where numbers are not enough
(`ModelLocks` needs none but its symmetry, which it defines itself). Strings are numbers whose order
stands for byte order. A row in `Triples` stands for a pair of terms; renumbering
is invisible there and is the subject of `Encoder` and `Triplestore`.

Definitions marked *Mutant* are plausible slips (a dropped guard, a missing reset)
that replace a definition in a test of the properties; no specification uses them.

## 3. What the runs check

Passing runs:

- `triples` (4 rows; merging considered from the second segment, work limit 8):
  the hash index holds exactly the stored rows, no row is in two segments, the
  assertions of `ensure_subject_object_index` hold, a scan through the object
  sorts sees every row, the number of segments stays bounded, and the table
  implements `TripleSet`. Four rows give tables of up to four segments, so each
  merge with and without object sorts happens on both sides of the limits.
- `segment_lookups` (4 strings, 9 rows, a sample every 2 rows): a lookup of any set
  of strings finds all rows with them and none twice; reading between two strings
  misses no row, and reads no other while no string fills more than a step. Nine
  rows give five samples with the last at and off the end of the column.
- `encoder` (4 strings, identifiers to 7): maps stay inverse, the counter stays
  above every identifier, the column decodes to the strings put there, collection
  removes all that is unused, and compaction numbers in string order. Seven
  identifiers let each string be collected and encoded again, also after
  compaction; sequences beyond the bound repeat these.
- `triplestore` (2 graphs, 1 predicate, 2 nodes, 1 literal, 4 calls): asserted
  rows decode, stores not made by detaching decode all of their rows, deletions
  are complete, no identifier is given out twice, and asserted triples implement
  `GraphStore`. Four calls are enough for add, delete, collect or compact (or
  detach and continue in the detached model), add again, which is the shortest
  way to reuse an identifier wrongly. Properties of transient rows exclude
  detached models for a reason that section 4 explains.
- `rdfs` (every subset of 12 triples as input): the stages derive everything the
  rules entail, count it exactly, and end, as long as no insert loses a table. The
  triples contain chains of four classes and of three properties, so each loop
  needs more than one round, and cyclic uses of a property, so that two rules of
  one batch derive the same triple.
- `model_locks` (3 threads, 2 models, symmetric): each lock is held by exactly
  the thread whose place needs it, errors and panics included, and a deadlock
  always contains `add_graph` into the same model, two calls of `add_graph`, or
  one with a query in a user-defined function. Three threads make the longest
  minimal cycle (copy, query in a function, bystander with the interpreter).
  Deadlock checking is off because such deadlocks are reachable; the property
  says which.
- `serialization` (2 tables, one of them with an object sort, 1 category, 2 saves):
  a load has the triples and the encoders of the last committed save, and a
  committed save stays loadable until the next begins (types are proved, not checked). The second save overwrites
  the first and can fail or crash at any file; a third would meet the same states.
- `queries` (groups of up to three items: 36 first ones, 27 second, 6 third; three
  selections; seven triples): the answer to a plain query is that of the algebra,
  rewriting keeps its meaning, the answer does not depend on what is asserted and
  what is inferred, a query that is printed parses to the same meaning, and a part
  that is blamed for an empty answer is empty. The items are one of each kind of
  pattern, path, filter and modifier; two make every kind meet every other on both
  sides, and the third adds a filter or an OPTIONAL over what two made. A step of
  the index of 2 makes lookups cross samples in tables of three rows.
- `updates` (ten updates, two CONSTRUCT queries, two calls): an operation that ends
  is the deletion and then the insertion of what its pattern found before, in
  every graph and whatever the order, with blank nodes of its own for each label and
  solution (`OperationAsOneStep` compares with the recommendation,
  `ImplementsAtomicUpdates` with the abstract specification); one that fails has
  inserted nothing. A CONSTRUCT query inserts all that it describes; as transient it can
  lose what was inferred before (section 4), and `AtomicUpdates` says from which tables.
  The bounds reach the loss: a query inserted as asserted and then again as transient. `OperationAsOneStep` speaks of datasets in which no
  triple is both asserted and transient (`Once`; see section 4). The updates contain each form of operation, the forms that panic, and
  graphs that do not exist; the second call meets what the first left.
- `templates` (four documents, two more templates, ten mappings, a default template;
  three calls): the triples of a mapping are those that its instances stand for,
  no two mappings share a blank node, the types of parameters come, at every step
  of an inference, from declarations and uses, and the graph of the templates tells
  them all; every inference ends by itself, though `Ping` and `Pong` call each other
  crosswise, so that types go round several times before they settle. Three calls
  let a document follow or replace another before a mapping, or two mappings follow
  one document; nesting goes to four layers.

`queries` speaks of *plain* queries, and `templates` of *plain* rows: `Plain` in
`Queries` and `plain` in `TemplateReference` define them, and section 4 says what
happens to the rest. `AnswersIgnoreLayout` and `BlanksApart` have no such proviso.

### Fairness

Liveness is stated where one thread does the work and waits for nobody. RDFS
inference has weak fairness of its steps. So has the inference of types
(`InferFirst`, `InferAgain`: the two loops of `infer_types`); the formula `Progress` writes
it without ENABLED, which would make TLC infer types once more in every state. It follows
that the set of changed templates empties; the limit of 10000 rounds is left out of the
model, so that `InferenceEnds` says that it is never what ends the loop. No fairness is assumed elsewhere: Python's interpreter lock and the
mutexes promise no order, and a save may fail.

### Bounds

Every bound is a constant: rows (`MaxRows`), identifiers (`MaxId`), calls
(`MaxCalls`, `MaxRequests`), saves, items of a query (`MaxItems`), layers of templates
(`MaxLayer`). They cut behaviours off; no action is disabled by them otherwise.

## 4. Where the code does not do what it says

Two runs have a counterexample; each is quoted in `PROJECT.json` with the line it
contradicts.

- `transient_loss`: `add_global_cat_triples` removes the stored transient table
  from its map and, when the whole new batch is asserted already, continues
  without putting it back: transient triples of that predicate are gone.
- `query_results`: `query` decodes its result after it has unlocked the model; a
  compaction by another thread in between renumbers the shared encoders.

The rest was met while modelling. The models do what the code does, and the
properties are stated for the cases that are left.

Store.

- As a consequence of the lost table `infer_rdfs` does not return on a declared class
  that is asserted to be its own subclass: each round drops the transient subclass
  table and derives it anew. The table of inferred types can be lost in the last
  stage in the same way; hence the proviso `~lost` of `TerminatesUnlessLost`.
- `detach_graph` with `preserve_name` builds encoders without the name of the graph,
  and the collector then fails its assertion. Transient predicates and rows of a
  detached graph can be missing from its encoders too: the image is taken of
  asserted columns. An identifier missing there can later be given to a new term,
  so transient rows of detached models may decode to another quad; `RootDecodes`
  and `DeletedAreGone` are about the other models.
- Deleting all literals of a datatype, collecting and compacting panics on the empty
  encoder after both maps were drained.
- Asserting a triple that is inferred already leaves it in both maps; the lookup
  between two strings reads more rows than it should when a string fills more than
  a step of the index (`storage.rs`, the comment at `get_data_frame_between_subject_strings`).

Queries (what `Plain` and `Printable` exclude).

- A filter is dropped next to a variable predicate when some leaf has none
  (`{ ?s :a ?x OPTIONAL { ?s ?p ?o } FILTER(?x = 1) }`); `?x :p ?x` panics.
- An OPTIONAL about a predicate without triples, joined with another pattern, gives a
  cross product. Restrictions and the solutions of the left side flow into
  LIMIT and OFFSET, MINUS and BIND of the right side; `only_vars` of
  `add_filter_variable_pushdowns` keeps what it should leave out; UNDEF in VALUES
  is taken for a restriction. NOT EXISTS is moved before its variables are bound.
- Joins on columns with nulls join nulls, and a column without values joins nothing.
- Alternative paths remove duplicates; paths of length zero do not reach constants or
  nodes outside the path.
- GROUP BY without solutions gives a group with count 0; COUNT(DISTINCT) counts the
  unbound; two strings with one language are equal whatever they say; IF of an
  unbound condition has a value; `strlen` of what is no string has one too.
- A filter of an OPTIONAL about an outer variable is an error; a MINUS over columns of
  different types fails; an all-UNDEF column of VALUES panics or empties the table.
- `a - b - c` parses as `a - (b - c)`. It is printed without parentheses, as are signs.
  A LIMIT over a sub-select with a LIMIT overwrites it, DISTINCT over one is merged
  with it, and a group that begins with a filtered group prints the filter for all.
- Lifting of BIND is the identity, and the search for common subexpressions does not
  descend.

Updates. INSERT DATA, WITH and USING panic; COPY, MOVE, CLEAR and DROP do nothing (so
that a MOVE is its last step only). An error in the insert template comes after the
deletions were done, and nothing is undone. A triple that is asserted after it was
inserted as transient is in both maps (only the other order is looked for, in
`add_triples.rs`), and a scan lists both rows: every pattern that matches it has a
solution too many, COUNT counts it twice, and an INSERT mints its blank nodes twice. Three
calls are enough (a CONSTRUCT query into the transient triples, the same into the
asserted ones, an update with a blank node); `Once` excludes such datasets, and those of
`queries` have no such triple. A CONSTRUCT query inserted as transient meets the line
of finding `transient_loss` too: the stored transient table is taken out before the
batch is compared with what is asserted, and if nothing of the first batch for a table
is left, it is not put back (`WithTransient`).

Templates (what `plain` and `Apart` exclude).

- `changed = changed || lub_update(..)` stops updating after the first change, and
  callers are inferred again only after a second one: a third untyped parameter can
  stay untyped. The more general of two types is chosen by the order of their names.
- A failed inference leaves the model without templates. Overwriting a template
  leaves the types that its callers inferred from it, although the API says
  "Overwrites any existing template with the same IRI" (`__init__.pyi`);
  `TypesFromUse` therefore counts every template that was added, replaced ones too.
- Blank nodes that are constants have one name when a template is called twice at
  positions that agree, and it calls one that has some too.
- A null in a row for a required parameter drops single triples, where a missing
  column leaves out the whole instance. Defaults for nulls are looked up by the
  name of the parameter of the callee among the columns of the caller.
- An instance of constants makes its triple for zero rows too; a blank node in a
  template that is called with constants only is dropped. zipMin and zipMax over
  lists of unequal length panic. Empty lists leave heads without a list, and nulls
  in lists repeat nodes.
- The counter of blank nodes starts at 0 when a model is loaded and is cut to 32 bits
  for lists; `templates_to_graph` numbers from 0 in every call, so writing twice into
  one graph mixes the parts.

## 5. What is proved

TLAPS checks these for all values of the constants.

**Tables** (`StorageProofs`, from `RowAssumption`: rows are finite in number and
`NoIndex` is no set of rows, and `LimitAssumption`). The invariant `IInv` adds two
facts to the checked ones. `ObjectSortsMatch`: the object sort of a segment has the
rows of its subject sort, without which a merge of object sorts says nothing about
a scan. `HeightCountsSegments`: every segment but one adds a row, which turns the
code's limit on height times segments squared into a bound on segments. One lemma
per method shows that it keeps the invariant. `Refinement` then maps steps to
`TripleSet`: merging is a stutter because it keeps `RowsOf(segments)`, and what a
call returns is the difference to the index, which the invariant equates with the
rows.

**Locks** (`ModelLocksProofs`, `NoThread` is no thread). `LocksHeld` is inductive
together with types and `CopiesApart`, that a copy past its first lock is not one
of a model into itself. `DeadlocksNeedCopies` follows by following the cycle: the
holder of the interpreter waits only as a copy at its source; the holder of a
mutex without a copy waits only for the interpreter.

**Saving** (`StorageProofs`). All files in the folder are of one save
(`OneSave`), in a writing stage of the running one; the earlier stages are complete
(`StagesDone`); and a whole last file belongs to the committed save (`LastFile`).
Hence a load cannot mix saves, and a committed save has all of its files until a
removal starts. Any number of tables, categories, saves, failures and crashes.

**Encoders** (`EncoderProofs`, from `StrAssumption`: strings are numbers, which stand
for their order, and finitely many). `Good` says that the two maps of an encoder
are inverse to each other. `CatMapsProofs` shows what each operator keeps of a good
encoder and which strings and identifiers it has afterwards; the hard one is
compaction, where numbering by position reaches each number below the number of
strings exactly once (`CountedOff`). The invariant is the conjunction of the checked
ones: a merge keeps the maps inverse only if the counter is fresh, and a column
keeps its meaning only if its identifiers are known.

**Lookups** (`StorageProofs`, for columns of any length and any step of the index).
Reading between two strings misses no row, and is exact when no string fills more than
a step. The proof follows the sampled index: the last sample below and the first above
a string bound the rows with it. A lookup of any finite set of strings finds all of
their rows and none twice (`LookupCorrect`). The intervals of greater strings neither
start nor end earlier, so one pass that joins each with the one before keeps them
sorted and apart and covers what they cover; the pass is a recursive function, and the
argument about it follows the least prefix for which it would fail.

**Scans** (`ScanCorrect` in `StorageProofs`). Whatever is known of subjects and objects,
for any asserted and transient triples, any predicates with a sort by object and any
step of the index: reading a predicate misses no triple that matches what is known,
reads none twice, and a single known value is compared exactly, so that rows too many
only come from lookups of several values. The hypotheses are `Stored` (finitely many
triples, whose terms are told apart by type and place in the order, as encoding makes them)
and `KnownTerms` (finite sets). The sorts list each row once; the intervals
of a lookup lie apart, so their slices repeat nothing; a table that is left out for
its height of zero has no row that matches.

**Updates** (`UpdatesProofs`, for every evaluator of patterns, every set of requests, and
every dataset to start from that is a map of graphs). An operation that has begun has
deleted from the graphs it is done with what its template describes of the
solutions found before, and nothing from the others (`DeletionsExact`); one that fails
has inserted nothing (`FailureCorrect`); and the loop implements `AtomicUpdates`
(`UpdatesAtomic`): the step of the abstract operation is `BeginInserts`, when all deletions are done and
all insertions are known; what follows it cannot fail any more. An insertion of a
CONSTRUCT query (`ConstructInserted`) inserts all or nothing; what it loses when it inserts
as transient lies in tables (`TableOf`) in which a triple it describes is asserted
(`Covered`). That it may lose these is part of the abstract specification: without it
the code would be no refinement, which TLC shows with two calls. The evaluator is a
parameter because patterns are recursive; nothing is assumed of what it returns.

That an operation that ends did what the recommendation says (`OperationsCorrect`) needs
two hypotheses. `RequestsFine`: the templates are what the grammar allows (no blank nodes
in what is deleted or as a predicate; labels are no names of variables, since their
columns begin with `_:`), and neither they nor the first dataset have a term that will be minted.
`EvaluatorRight`, of each state between two operations: the table that the evaluator
returns has one row for each solution of the recommendation, up to order, if no triple is
both asserted and transient, and no term that is not in the data. What is proved is
everything around the evaluator. The inductive invariant (`JInv`) says of an
operation that is inserting that each graph is its content before, less what the delete
template describes of the table, with what the insert template describes if the
graph is done; that the table answers the pattern about the dataset before; and
that no term at hand has a number that is still to be minted (`KnownData`). The numbers that
`MintBlankNodes` gives to labels and rows are then new and different (`NumbersApart`,
`NumbersNew`), so renaming what the recommendation calls a new node is injective
(`NamerIs`), and it maps each triple of the recommendation to the one of the row
(`FilledIs`).

**Triplestore** (`TriplestoreProofs`, from the assumptions of `Triplestore` and
`StrAssumption`; any strings, graphs and batches). The invariant says of both models
that they are `Sound` (each encoder is good and its counter fresh, and a category
without an entry has no identifiers) and `Linked` (the encoders know the identifiers
and the predicates of the asserted tables). Each call has one lemma that says it
keeps both and what it does to the quads: merging, naming and adding grow the
encoders without changing what an identifier stands for (`Grows`); collection keeps
what rows and names use; compaction moves tables and encoders by the same ranks; the
image of a detached graph covers its rows and predicates; copying goes through the
strings. A panic in the middle of compaction leaves no tables and sound encoders.
From these, identifiers have no aliases, asserted rows decode, and the store
implements `GraphStore`. Deleting needs the converse too, that a row which decodes to a
quad is the row of that quad (`DecodeKnown`), or a deletion could miss it. The two
properties of transient rows need a second invariant on top, `RInv`: in a model that was
not made by detaching, the encoders know all of both maps, with the names of graphs
(`Rooted`). It does not follow for a detached one, whose encoders are made of its
asserted part (section 4), but copying out of such a model keeps the target rooted,
since only asserted rows are copied. Nothing deleted is then left in transient tables:
the deletion finds each row by its quad, insertions go to the other map, and collection
keeps what both maps stand for.

**RDFS inference** (`RdfsInferenceProofs`, under `PlainVocabulary`: nothing is asserted
about the properties of RDFS themselves, apart from instances). One pass over the
stages derives what the nine rules entail, unless an insertion loses a table, and the
count is exact. The argument is the order of the stages: each adds triples of
predicates that no earlier stage joins on (`Chained` and `Using` name the joins), so
what an earlier stage completed stays complete. Without the assumption (a
subproperty of `rdfs:subPropertyOf`, say) one pass is not enough. Soundness needs no
assumption and survives lost tables: at any moment each visible triple is in every set
that contains the asserted ones and is closed under the rules (`SoundnessCorrect`).
Together: if nothing is lost, the visible triples at the end are the least such set,
and the transient ones are what it has beyond the asserted (`LeastModelCorrect`).

**Templates** (`MappingsProofs`, from `TemplatesAssumption`: templates have lists of
parameters, instances and arguments; any templates, tables and calls, and any way of
joining two types). Inference and mappings are steps of the model, so the induction over
them is the induction over steps, and nothing recursive is left to assume but the
check of a table: `BlanksCorrect` has the hypothesis `CallsGiveOthers`, that a checked
table has a value for each column in each row, lists hold values, no table has no
columns, and a blank node that a table or a constant gives is not named in the
way a mapping names its own. The last is a duty of the caller that the
code does not check. `TablesHere` and `ConstantsHere` in `MCMappings` are
instances of it that TLC evaluates for `Validate`.

`TypesCorrect`: at every moment of an inference a parameter has a type only if a template
declared it, or passes the parameter on to one that has it, as a list where
it is expanded, or if it is what two such types have in common. `TypesInv` says that
every template held is, up to types, one that was added (`Versions`), and that its
types are found after as many rounds of `Deeper` as there were changes: a pass changes one type
(`InferOne`), which the round after finds (`PassFound`), and templates added on the way
only add to what is found (`SourcesRise`). It says nothing of types that are missed,
and some are (section 4).

`GraphCorrect`: what is held is always a library (`Held`: each template under its own
name, finitely many, in an order that names them), so the graph written first tells
each template and no other. The argument is about the numbers of blank nodes: each
part starts where the part before it ends (`Starts`), so a number belongs to one
parameter, instance or argument of one template, and reading its predicates finds
the facts of that part alone.

`BlanksCorrect`: no two mappings of a session name the same blank node. It is not
inductive: while a mapping is under way the counter of the model stands still, and the names
are in the columns of frames that wait. `BlanksInv` therefore says of a mapping that is
under way (`JobFine`) that every value in a frame at hand is given or a blank node
with a number from the counter of the model up to the counter of the mapping
(`FineFrame`). Each operator keeps this: filling nulls, renaming columns, numbering rows
by position, exploding lists in any way, and the maximum over the instances of a
body (`Gathered`), without which the deeper layers would not be counted. At the end all
numbers are below the new counter, and at or above the old one, where no earlier
mapping has named any.

Only model-checked are the properties of queries (so `EvaluatorRight` is a hypothesis
above) and `TriplesAsInstances` of templates: they are about definitions that are
recursive over patterns, expressions, templates and types, and what a recursive definition computes for every
input is out of the prover's reach. So are liveness and ENABLED
(`TerminatesUnlessLost`, `InferenceEnds`).

## 6. What the models leave out

- Widths: identifiers are `u32` and never near their limit in practice; the
  models bound them by constants (`MaxId`) for TLC, not by overflow.
- `Serialization`: process crashes, not power loss (a completed file stays); one
  writer per folder; the order of removals is arbitrary, which includes the
  code's. The files of encoders are written by a crate that is a stub here and
  are modelled from their use in `cats/serialization.rs`.
- `ModelLocks`: a user-defined function calls no model. Calling its own model would
  wait for itself, which the R documentation notes for its binding.
- `Triplestore`: predicates come from columns that are encoded; the full text
  index and `create_index` are not there; updates have one operation (`Updates` has
  them with several, on terms instead of identifiers).
- `Triples`: the order inside a segment. The k-way merge that keeps it is not modelled.
- Query engine: tables hold terms, not identifiers, so local encoders that results
  travel with are not there; a string literal is a run of one letter; blank nodes
  of `[ ]` get their labels from the text. SERVICE, lateral joins, full text,
  replaced bindings, limits on rows, dates, regular expressions and most functions
  are not modelled; min, max and sum are on numbers. Answers are compared as bags
  without nulls. Ground triples in patterns and templates, and predicates that are
  literals, are not among the inputs.
- The grammar below a group: tokens, prefixes, escapes, numbers.
- Templates: a document is a sequence of templates, not a text; errors and panics are
  one outcome; non-blank parameters, type `lub`, lists of variables (a `todo!`), the
  triples with `referencesIri`, columns of several types and columns with blank
  nodes given by the user are not there; a default template can be made once per
  session, for its name is random.
- Readers and writers of RDF, conversions of data frames, SHACL reports and the
  forwarding of the bindings: conversions of one input to one output without state.
- Full text search, SHACL, Datalog, CIM/XML, disk storage and the engines of
  virtualized queries: stubs.

## 7. What would come next

1. `LocalCats`: local encoders that travel with query results, joined and merged.
2. The k-way merge of segments, with the order of rows in it, and the writer of pretty
   Turtle, which reads blocks of subjects through `Between`.
3. `replace_graph` and predicates of graphs that only one of the two maps knows.
