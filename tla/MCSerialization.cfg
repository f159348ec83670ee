\* A table with and one without an object sort, one category, and two saves: the
\* second can fail anywhere on top of the first.
SPECIFICATION SaveSpec
CONSTANTS
  Table = {t1, t2}
  Indexed = {t1}
  Cat = {iri}
  MaxSaves = 2
INVARIANTS
  LoadsLastCommitted
  CommittedIsDurable
