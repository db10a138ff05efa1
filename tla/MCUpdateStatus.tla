--------------------------- MODULE MCUpdateStatus ---------------------------
(***************************************************************************)
(* Instances of UpdateStatus for TLC.                                      *)
(***************************************************************************)
EXTENDS UpdateStatus, TLC

\* Requests, like users, are interchangeable.
Symmetry == Permutations(Requests) \cup Permutations(Users)

=============================================================================
