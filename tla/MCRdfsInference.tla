-------------------------- MODULE MCRdfsInference --------------------------
(* Instance of RdfsInference for TLC: classes A, B, C, D, properties p, q,   *)
(* r and individuals x, y; every subset of MCUniverse is asserted in turn.  *)
EXTENDS RdfsInference

CONSTANTS A, B, C, D, p, q, r, x, y

MCUniverse ==
  {<<A, Type, Class>>, <<A, SubClassOf, A>>, <<A, SubClassOf, B>>, <<B, SubClassOf, C>>, <<C, SubClassOf, D>>,
   <<p, Type, Property>>, <<p, SubPropertyOf, q>>, <<q, SubPropertyOf, r>>,
   <<p, Domain, A>>, <<r, Rng, A>>, <<x, p, y>>, <<y, p, x>>}

\* The universe says nothing about the vocabulary itself.
ASSUME PlainVocabulary
=============================================================================
