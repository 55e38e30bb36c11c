---------------------------- MODULE MCDeployment ----------------------------
(* Small instances of DeploymentController for TLC. *)
EXTENDS DeploymentController
=============================================================================
