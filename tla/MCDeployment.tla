---------------------------- MODULE MCDeployment ----------------------------
(***************************************************************************)
(* Deployment with the bounds of its configuration.                        *)
(***************************************************************************)
EXTENDS Deployment
=============================================================================
