----------------------------- MODULE MCRecords ------------------------------
(***************************************************************************)
(* Instances of Records for TLC.                                           *)
(***************************************************************************)
EXTENDS Records, TLC

\* Requests of one kind are interchangeable, and so are numbers.
Symmetry ==
    Permutations(Adds) \cup Permutations(Samples) \cup Permutations(Walks)
        \cup Permutations(Phones)

\* Bound: any three of the writes are sent, of either kind.
ThreeWrites == Cardinality({r \in Writes : pc[r] # "idle"}) <= 3

=============================================================================
