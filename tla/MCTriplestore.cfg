\* Two graphs, one predicate, four quads and four calls: enough to add, delete,
\* detach, collect or compact and add again in every order.
SPECIFICATION Spec
CONSTANTS
  Str = {1, 2, 3, 4, 5}
  Iri = {1, 2, 3, 4}
  Lit = {5}
  Pred = {1}
  Named = {2}
  Default = 0
  Quad <- MCQuad
  Batches <- MCBatches
  Deletions <- MCDeletions
  GcLimit = 2
  MaxId = 8
  MaxCalls = 4
INVARIANTS
  AssertedDecodes
  RootDecodes
  DeletedAreGone
  NoAliases
PROPERTIES
  ImplementsGraphStore
