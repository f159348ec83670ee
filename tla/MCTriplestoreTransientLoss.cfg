\* A transient batch that is asserted already, after another one of its table.
SPECIFICATION Spec
CONSTANTS
  Str = {1, 2, 3, 4, 5}
  Iri = {1, 2, 3, 4}
  Lit = {5}
  Pred = {1}
  Named = {2}
  Default = 0
  Quad <- MCQuad
  Batches <- MCBatches
  Deletions <- MCDeletions
  GcLimit = 2
  MaxId = 8
  MaxCalls = 4
PROPERTY
  TransientKept
