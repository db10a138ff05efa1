---------------------------- MODULE MCDeployment ----------------------------
(***************************************************************************)
(* An instance of Deployment for TLC.                                      *)
(***************************************************************************)
EXTENDS Deployment

=============================================================================
