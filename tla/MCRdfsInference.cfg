\* Every subset of twelve triples as input.
SPECIFICATION Spec
CONSTANTS
  Type = type
  SubClassOf = subClassOf
  SubPropertyOf = subPropertyOf
  Domain = domain
  Rng = range
  Class = Class
  Property = Property
  Resource = Resource
  A = A
  B = B
  C = C
  D = D
  p = p
  q = q
  r = r
  x = x
  y = y
  Universe <- MCUniverse
INVARIANTS
  StagesComplete
  CountExact
PROPERTIES
  TerminatesUnlessLost
