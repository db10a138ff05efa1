-------------------------- MODULE MCBackendStatus ---------------------------
(***************************************************************************)
(* Instances of BackendStatus for TLC.  The configurations give the        *)
(* constants; there is no symmetry, as liveness is checked.                *)
(***************************************************************************)
EXTENDS BackendStatus

=============================================================================
