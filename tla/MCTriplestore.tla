--------------------------- MODULE MCTriplestore ---------------------------
(* Instance of Triplestore for TLC: predicate 1, graph name 2, nodes 3 and  *)
(* 4, literal 5 and the default graph 0.                                    *)
EXTENDS Triplestore

Knows == <<0, 1, "iri", 3, 4>>
Label == <<0, 1, "lit", 3, 5>>
InGraph == <<2, 1, "iri", 3, 4>>
Back == <<2, 1, "iri", 4, 3>>

MCQuad == {Knows, Label, InGraph, Back}
MCBatches == {<<{Knows}>>, <<{Label}, {InGraph}>>, <<{InGraph}, {Back}>>}
MCDeletions == {{Knows, Label}, {InGraph}, {Knows, InGraph, Back}}
=============================================================================
