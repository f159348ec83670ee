------------------------------ MODULE Mappings ------------------------------
(***************************************************************************)
(* A model that holds templates and is mapped to.  Types are inferred by   *)
(* the first mapping after a template was added, one template at a time; a *)
(* failed inference leaves no template.  A mapping then goes through the   *)
(* instances of its template and theirs, one after the other and the first *)
(* of a body first (the code takes those of one body in parallel: they     *)
(* share nothing).  The triples are stored together at its end, and only   *)
(* then does the model count the blank nodes that were named.  Nothing     *)
(* else is called meanwhile.                                               *)
(* How types are joined and tables are checked comes in as constants.      *)
(***************************************************************************)
EXTENDS Expansion, TemplateGraph

CONSTANTS Documents,         \* sequences of templates, read as one text
          Singles,           \* templates added by the program
          Calls,             \* [name, table, iris]: what is mapped
          Defaults,          \* [table, columns, pk, fks]: tables mapped without a template
          MaxCalls,          \* bound: calls of the model
          LubOf(_, _),       \* two types -> the type of both, or Clash
          Checked(_, _, _),  \* table, parameters, check IRIs? -> its rows and types
          ParameterType(_, _)     \* table, column -> the type of a parameter for it

\* Templates have lists of parameters, instances and arguments, and a table
\* that is mapped without one has its key among its columns.
IsVector(s)    == s \in Seq(ToSet(s))
IsParam(p)     == p = [v |-> p.v, type |-> p.type, optional |-> p.optional, default |-> p.default]
IsTemplate(t)  == /\ t = Template(t.name, t.params, t.body)
                  /\ IsVector(t.params) /\ \A i \in DOMAIN t.params : IsParam(t.params[i])
                  /\ IsVector(t.body) /\ \A i \in DOMAIN t.body : IsVector(t.body[i].args)
ASSUME TemplatesAssumption ==
  /\ \A doc \in Documents : IsVector(doc) /\ \A i \in DOMAIN doc : IsTemplate(doc[i])
  /\ \A t \in Singles : IsTemplate(t)
  /\ \A d \in Defaults : IsVector(d.columns) /\ d.pk \in ToSet(d.columns)

VARIABLES templates,         \* name -> template
          order,             \* what is known of the order they are held in
          inferred,          \* are the types inferred?
          triples,           \* the triples stored
          counter,           \* blank_node_counter
          job,               \* the mapping that is under way
          graph,             \* the templates as triples
          typing,            \* the inference that is under way
          added,             \* all templates added, as they were then (history)
          changes,           \* how often a type was inferred since (history)
          last,              \* the mapping made last (history)
          named,             \* per mapping, the blank nodes it named (history)
          told,              \* the templates the graph was made of (history)
          calls              \* calls so far
vars == <<templates, order, inferred, triples, counter, job, graph, typing, added, changes, last, named, told, calls>>

NoMapping  == [k |-> "none"]
NoJob      == [on |-> FALSE]
NoTyping   == [on |-> FALSE]
Start      == OfTemplates(<<TripleTemplate>>)

Init == /\ templates = Start
        /\ order = <<OttrTriple>>
        /\ inferred = FALSE
        /\ triples = {}
        /\ counter = 0
        /\ job = NoJob
        /\ graph = {}
        /\ typing = NoTyping
        /\ added = {TripleTemplate}
        /\ changes = 0
        /\ last = NoMapping
        /\ named = <<>>
        /\ told = <<>>
        /\ calls = 0

Called == ~job.on /\ ~typing.on /\ calls < MaxCalls /\ calls' = calls + 1

\* add_template: one of the same name goes, the new one comes last.
AddAll(ts) ==
  /\ templates' = Put(templates, ts)
  /\ order' = AllMovedLast(order, ts)
  /\ inferred' = FALSE
  /\ added' = added \cup ToSet(ts)
  /\ UNCHANGED <<triples, counter, job, graph, typing, changes, last, named, told>>
AddTemplate(t)              == Called /\ AddAll(<<t>>)
AddTemplatesFromString(doc) == Called /\ AddAll(FromDocuments(doc))

---------------------------------------------------------------------------
(* Inference.  A parameter that is passed on takes the type of the         *)
(* parameter it is passed to.                                              *)

\* Mutant: what is expanded is not taken to be a list.
NeededFlat(arg, param) == param.type
Needed(arg, param) == CASE ~arg.expand -> param.type
                        [] arg.expand /\ param.optional -> ListType(param.type)
                        [] OTHER -> NEListType(param.type)

Updated(p, ty) == CASE p.type = Untyped -> ty
                    [] p.type # Untyped /\ p.type = ty -> ty
                    [] OTHER -> LubOf(p.type, ty)

\* Where a template passes on which of its parameters: in an instance of its
\* body, for an argument.  They are looked at in this order.
Uses(t) == {u \in UNION {{i} \X (DOMAIN t.body[i].args) \X (DOMAIN t.params) : i \in DOMAIN t.body} :
              t.body[u[1]].args[u[2]].t = VarTerm(t.params[u[3]].v)}
NotAfter(u, w) == \/ u[1] < w[1]
                  \/ u[1] = w[1] /\ u[2] < w[2]
                  \/ u[1] = w[1] /\ u[2] = w[2] /\ u[3] <= w[3]

\* The type of a parameter after a use of it was looked at.
TypeAfter(t, u, others) ==
  LET inst  == t.body[u[1]]
      param == others[inst.of].params[u[2]]
  IN  IF param.type = Untyped THEN t.params[u[3]].type
      ELSE Updated(t.params[u[3]], Needed(inst.args[u[2]], param))

\* One pass over the body.  The first use that changes a type is the last one
\* that is looked at: "changed = changed || lub_update(..)".
InferTemplateTypes(t, others) ==
  LET callable == \A i \in DOMAIN t.body : /\ Has(others, t.body[i].of)
                                           /\ Len(t.body[i].args) = Len(others[t.body[i].of].params)
      news     == {u \in Uses(t) : TypeAfter(t, u, others) # t.params[u[3]].type}
      first    == CHOOSE u \in news : \A w \in news : NotAfter(u, w)
      type     == TypeAfter(t, first, others)
  IN  CASE ~callable -> Failed
        [] callable /\ news = {} -> [ok |-> TRUE, t |-> t, changed |-> FALSE]
        [] OTHER -> IF type = Clash THEN Failed
                    ELSE [ok |-> TRUE, t |-> [t EXCEPT !.params[first[3]].type = type], changed |-> TRUE]

Without(ts, n)  == [m \in DOMAIN ts \ {n} |-> ts[m]]
Affected(ts, n) == {m \in DOMAIN ts : \E i \in DOMAIN ts[m].body : ts[m].body[i].of = n}

\* A failed inference has taken the templates out and does not put them back.
LoseTemplates ==
  /\ templates' = <<>>
  /\ order' = <<>>
  /\ typing' = NoTyping
  /\ added' = {}
  /\ changes' = 0
  /\ UNCHANGED <<inferred, triples, counter, job, graph, last, named, told, calls>>

\* A template is taken out of the map while its types are inferred.  What is
\* left to do then depends on whether one changed.
Infer(n, ifNot, ifChanged) ==
  LET r == InferTemplateTypes(templates[n], Without(templates, n))
  IN  \/ ~r.ok /\ LoseTemplates
      \/ /\ r.ok
         /\ templates' = [templates EXCEPT ![n] = r.t]
         /\ typing' = IF r.changed THEN ifChanged ELSE ifNot
         /\ changes' = IF r.changed THEN changes + 1 ELSE changes
         /\ UNCHANGED <<order, inferred, triples, counter, job, graph, added, last, named, told, calls>>

\* The first pass, in the order of the vector, notes which templates changed.
FirstUnseen(n) ==
  LET left == [typing EXCEPT !.unseen = @ \ {n}]
  IN  Infer(n, left, [left EXCEPT !.todo = @ \cup {n}])
FirstSeen ==
  LET n    == Head(typing.seen)
      left == [typing EXCEPT !.seen = Tail(@)]
  IN  Infer(n, left, [left EXCEPT !.todo = @ \cup {n}])
InferFirst ==
  /\ typing.on
  /\ \/ \E n \in typing.unseen : FirstUnseen(n)
     \/ typing.unseen = {} /\ typing.seen # <<>> /\ FirstSeen

Round(todo, next) ==
  [typing EXCEPT !.todo = IF todo = {} THEN next ELSE todo, !.next = IF todo = {} THEN {} ELSE next]
\* Mutant: the callers follow whether it changed or not.
InferAgainAlways ==
  /\ typing.on /\ typing.unseen = {} /\ typing.seen = <<>>
  /\ \E n \in typing.todo :
       LET follow == Round(typing.todo \ {n}, typing.next \cup Affected(templates, n)) IN Infer(n, follow, follow)
\* They are then done again, in the order of a hash set, and whoever calls one
\* that changes again follows in the next round.  (The bound of 10000 rounds is
\* left out.)
InferAgain ==
  /\ typing.on /\ typing.unseen = {} /\ typing.seen = <<>>
  /\ \E n \in typing.todo :
       Infer(n, Round(typing.todo \ {n}, typing.next), Round(typing.todo \ {n}, typing.next \cup Affected(templates, n)))

---------------------------------------------------------------------------
(* A mapping.                                                              *)

\* An instance still to be expanded: of a template, by a frame, called at a
\* layer from the num-th place of a body.
Node(layer, num, name, fr) == [layer |-> layer, num |-> num, name |-> name, frame |-> fr]

\* expand, up to the call of _expand.
Begun(ts, call) ==
  LET params == ts[call.name].params
      valid  == Checked(call.table, params, call.iris)
      frame  == WithDefaults([ok |-> TRUE, skip |-> FALSE, table |-> call.table # NoTable, rows |-> valid.rows,
                              dyn |-> valid.dyn, static |-> <<>>, counter |-> counter], params)
  IN  IF Has(ts, call.name) /\ valid.ok /\ frame.ok
      THEN [on |-> TRUE, todo |-> <<Node(0, 0, call.name, frame)>>, frames |-> <<>>, counter |-> counter,
            name |-> call.name, table |-> call.table, valid |-> valid]
      ELSE NoJob

\* What comes after the types are inferred waits until they are.
Typing(ts, known, call) ==
  [on |-> TRUE, unseen |-> DOMAIN ts \ ToSet(known), seen |-> known, todo |-> {}, next |-> {}, call |-> call]
Expand(ts, known, call) ==
  /\ templates' = ts
  /\ order' = known
  /\ typing' = IF inferred THEN NoTyping ELSE Typing(ts, known, call)
  /\ job' = IF inferred THEN Begun(ts, call) ELSE NoJob
  /\ last' = NoMapping
  /\ UNCHANGED <<inferred, triples, counter, graph, changes, named, told>>

\* The templates are put back in any order.
InferDone ==
  /\ typing.on /\ typing.unseen = {} /\ typing.seen = <<>> /\ typing.todo = {}
  /\ inferred' = TRUE
  /\ order' = <<>>
  /\ job' = Begun(templates, typing.call)
  /\ typing' = NoTyping
  /\ UNCHANGED <<templates, triples, counter, graph, added, changes, last, named, told, calls>>

Map(call) == Called /\ Expand(templates, order, call) /\ UNCHANGED added

\* A template made for the table: its key and what refers to others are cast
\* to strings and are IRIs, every other column is an attribute.  It is added
\* without a new inference, under a name of its own (here: once).
DefaultName == "default"
DefaultPredicate(c) == ConstTerm(IriConst(<<"default", c>>))
DefaultTemplate(d) ==
  LET cols     == d.columns
      Type(c)  == IF c \in {d.pk} \cup d.fks THEN Basic("ottr:IRI") ELSE ParameterType(d.table, c)
      Null1(c) == \E i \in DOMAIN d.table.rows : IsNull(d.table.rows[i][c])
      IsList(c) == d.table.dtype[c].k = "List"
      rest     == RemoveAt(cols, CHOOSE i \in DOMAIN cols : cols[i] = d.pk)
      Attribute(c) ==
        Instance(IF IsList(c) THEN "cross" ELSE "none", OttrTriple,
                 <<Arg(VarTerm(d.pk)), Arg(DefaultPredicate(c)), IF IsList(c) THEN Expanded(VarTerm(c)) ELSE Arg(VarTerm(c))>>)
  IN  Template(DefaultName,
               [i \in DOMAIN cols |-> [Param(cols[i], Type(cols[i])) EXCEPT !.optional = Null1(cols[i])]],
               [i \in DOMAIN rest |-> Attribute(rest[i])])
KeysAsStrings(d) ==
  [d.table EXCEPT !.dtype = [c \in DOMAIN @ |-> IF c \in {d.pk} \cup d.fks THEN Dtype("String") ELSE @[c]]]
MapDefault(d) ==
  /\ Called
  /\ ~Has(templates, DefaultName)
  /\ Expand(Put(templates, <<DefaultTemplate(d)>>), Append(order, DefaultName),
            [name |-> DefaultName, table |-> KeysAsStrings(d), iris |-> TRUE])
  /\ added' = added \cup {DefaultTemplate(d)}

\* _expand: what is at hand is an instance of ottr:Triple, or of a template
\* whose instances come next.
Reached(node)  == node.name = OttrTriple /\ node.frame.table
Children(node) == RemapInstances(templates, counter, node.layer, node.num, node.name, node.frame)
Fails(node) ==
  \/ node.layer > MaxLayer
  \/ node.name = OttrTriple /\ ~node.frame.table
  \/ node.name # OttrTriple /\ \E i \in DOMAIN Children(node) : ~Children(node)[i].ok
Descended(node) ==
  LET made == Children(node)
      body == templates[node.name].body
  IN  [job EXCEPT !.todo = [i \in DOMAIN made |-> Node(node.layer + 1, i - 1, body[i].of, made[i])] \o Tail(@),
                  !.counter = Gathered(@, made)]

Proceed ==
  /\ job.on /\ job.todo # <<>>
  /\ LET node == Head(job.todo)
     IN  job' = CASE node.frame.skip -> [job EXCEPT !.todo = Tail(@)]
                  [] ~node.frame.skip /\ Fails(node) -> NoJob
                  [] ~node.frame.skip /\ ~Fails(node) /\ Reached(node) ->
                       [job EXCEPT !.todo = Tail(@), !.frames = Append(@, node.frame)]
                  [] OTHER -> Descended(node)
  /\ UNCHANGED <<templates, order, inferred, triples, counter, graph, typing, added, changes, last, named, told, calls>>

\* The blank nodes that were named by a number, and the number.
BlanksIn(ts) == {x \in UNION {{t[1], t[2], t[3]} : t \in ts} : x.type = "Blank" /\ x.v[1] \in {"c", "l"}}
NumberOf(v)  == IF v[1] = "c" THEN v[5] ELSE v[3]

\* process_results.
Finish ==
  /\ job.on /\ job.todo = <<>>
  /\ LET made == ProcessResults(job.frames, job.counter)
     IN  IF made.ok
         THEN /\ triples' = triples \cup made.triples
              /\ counter' = made.counter
              /\ last' = [k |-> "map", name |-> job.name, table |-> job.table, valid |-> job.valid,
                          ts |-> templates, triples |-> made.triples]
              /\ named' = Append(named, BlanksIn(made.triples))
         ELSE UNCHANGED <<triples, counter, last, named>>
  /\ job' = NoJob
  /\ UNCHANGED <<templates, order, inferred, graph, typing, added, changes, told, calls>>

---------------------------------------------------------------------------
(* The templates as triples, and saving.                                   *)

\* templates_to_graph: what was there before stays.
TemplatesToGraph ==
  /\ Called
  /\ \E names \in Orders(templates, order) :
       graph' = graph \cup TemplatesToTriples([i \in DOMAIN names |-> templates[names[i]]])
  /\ told' = Append(told, templates)
  /\ last' = NoMapping
  /\ UNCHANGED <<templates, order, inferred, triples, counter, job, typing, added, changes, named>>

\* Saved and loaded: the templates go and the counter starts anew, so that
\* names may come again that stand in the saved triples.
Reload ==
  /\ Called
  /\ templates' = Start
  /\ order' = <<OttrTriple>>
  /\ inferred' = FALSE
  /\ counter' = 0
  /\ added' = {TripleTemplate}
  /\ changes' = 0
  /\ named' = <<>>
  /\ last' = NoMapping
  /\ UNCHANGED <<triples, job, graph, typing, told>>

Next == \/ \E doc \in Documents : AddTemplatesFromString(doc)
        \/ \E t \in Singles : AddTemplate(t)
        \/ \E call \in Calls : Map(call)
        \/ \E d \in Defaults : MapDefault(d)
        \/ InferFirst
        \/ InferAgain
        \/ InferDone
        \/ Proceed
        \/ Finish
        \/ TemplatesToGraph
        \/ Reload
NothingToInfer == typing.on => typing.unseen = {} /\ typing.seen = <<>> /\ typing.todo = {}
\* An inference goes on once it has begun: it is a loop of one thread, which
\* nothing else in the model waits for.  A call need not be made.  This is the
\* weak fairness of InferFirst and InferAgain without ENABLED, for which TLC
\* would infer the types of every template once more in every state.
Progress == []<>NothingToInfer \/ []<><<typing.on>>_<<typing, templates>>
Spec == Init /\ [][Next]_vars /\ Progress

---------------------------------------------------------------------------
(* Properties.                                                             *)

\* The types that templates give to parameters: what they declare, what they
\* pass them on as, as a list where it is expanded, and what both have in
\* common; after some steps of this, as triples of name, position and type.
Declared(lib) == {f \in UNION {{<<t.name, k, t.params[k].type>> : k \in DOMAIN t.params} : t \in lib} : f[3] # Untyped}
PassedAs(arg, param, type) ==
  IF ~arg.expand THEN type ELSE IF param.optional THEN ListType(type) ELSE NEListType(type)
PassedOn(lib, found) ==
  LET Callees(t, u) == {c \in lib : c.name = t.body[u[1]].of /\ u[2] \in DOMAIN c.params}
      As(t, u, c) == {<<t.name, u[3], PassedAs(t.body[u[1]].args[u[2]], c.params[u[2]], f[3])>> :
                        f \in {g \in found : g[1] = c.name /\ g[2] = u[2]}}
  IN  UNION {UNION {UNION {As(t, u, c) : c \in Callees(t, u)} : u \in Uses(t)} : t \in lib}
Joined(found) ==
  LET pairs == {x \in found \X found : x[1][1] = x[2][1] /\ x[1][2] = x[2][2]}
  IN  {f \in {<<x[1][1], x[1][2], LubOf(x[1][3], x[2][3])>> : x \in pairs} : f[3] # Clash}
Deeper(lib, found) ==
  LET more == found \cup PassedOn(lib, found)
  IN  more \cup Joined(more)
Sources(lib) ==
  LET after[n \in Nat] == IF n = 0 THEN Declared(lib) ELSE Deeper(lib, after[n - 1])
  IN  after

\* No parameter has a type that neither it nor a parameter it is passed to was
\* given, by a template that was added: however the templates are ordered, and
\* at every moment of the inference (infer_types).
TypesFromUse ==
  \A n \in DOMAIN templates : \A k \in DOMAIN templates[n].params :
    LET type == templates[n].params[k].type
    IN  type = Untyped \/ <<n, k, type>> \in Sources(added)[changes]

\* Every inference comes to an end by itself, though templates that call each
\* other put each other back into the set while types go round, in the order of
\* a hash set: it is not the limit of 10000 rounds that ends it, which would
\* leave types half inferred (the while loop of infer_types).
InferenceEnds == []<>NothingToInfer

\* No two mappings of a session name the same blank node: the counter has
\* passed every row that was numbered, in whatever layer, and every list
\* (blank_node_counter in expand and process_results).
BlanksApart == \A i, j \in DOMAIN named : i # j => named[i] \cap named[j] = {}

\* The graph that the templates were written to, once, tells them all: every
\* parameter, instance and argument is found by its index and with its own
\* facts, so no two parts share a blank node (templates_to_triples).
GraphTells == Len(told) = 1 => Tells(graph, told[1])
=============================================================================
