--------------------------- MODULE EventLifecycle ---------------------------
(***************************************************************************)
(* The status lifecycle of an emergency event: the rule of the domain      *)
(* entity, without any store.                                              *)
(***************************************************************************)

EventStatus == {"active", "acknowledged", "resolved", "cancelled"}

\* Mutant: an acknowledged event may be put back to active.
AllowedTransitions_Reopen ==
    [s \in EventStatus |->
        IF s = "active" THEN {"acknowledged", "resolved", "cancelled"}
        ELSE IF s = "acknowledged" THEN {"active", "resolved", "cancelled"}
        ELSE {}]

AllowedTransitions ==
    [s \in EventStatus |->
        IF s = "active" THEN {"acknowledged", "resolved", "cancelled"}
        ELSE IF s = "acknowledged" THEN {"resolved", "cancelled"}
        ELSE {}]

CanTransition(from, to) == to \in AllowedTransitions[from]

Terminal == {s \in EventStatus : AllowedTransitions[s] = {}}

=============================================================================
