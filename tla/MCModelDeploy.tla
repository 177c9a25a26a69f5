---------------------------- MODULE MCModelDeploy ----------------------------
(***************************************************************************)
(* Instances of the model deployment for TLC.                              *)
(***************************************************************************)
EXTENDS ModelDeploy
=============================================================================
