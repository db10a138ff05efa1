---------------------------- MODULE MCTriggerSos ----------------------------
(***************************************************************************)
(* Instances of TriggerSos for TLC.                                        *)
(***************************************************************************)
EXTENDS TriggerSos, TLC

\* Requests, like contacts, are interchangeable.
RequestSymmetry == Permutations(Requests) \cup Permutations(Contacts)

=============================================================================
