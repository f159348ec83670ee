----------------------------- MODULE TripleSet -----------------------------
(***************************************************************************)
(* What one table of triples promises its callers: it is a set of rows.    *)
(* Adding a batch returns exactly the rows that were not there, probing    *)
(* for overlap returns the rows that are not there and changes nothing,    *)
(* deleting removes exactly the rows named, and reorganising the storage   *)
(* is invisible.                                                           *)
(***************************************************************************)
CONSTANT Row

VARIABLES contents,  \* the rows the table holds
          returned   \* the rows the last call handed back

vars == <<contents, returned>>

Init == contents = {} /\ returned = {}

Add(df) == /\ returned' = df \ contents
           /\ contents' = contents \cup df

Overlap(df) == /\ returned' = df \ contents
               /\ UNCHANGED contents

Delete(df) == /\ contents' = contents \ df
              /\ UNCHANGED returned

Next == \E df \in SUBSET Row : Add(df) \/ Overlap(df) \/ Delete(df)

Spec == Init /\ [][Next]_vars
=============================================================================
