------------------------ MODULE MCDeployReconcile --------------------------
(* Small instances of DeployReconcile for TLC.                             *)
EXTENDS DeployReconcile

CONSTANTS p1, p2, d1, d2

AllOfP1 == [d \in Deploys |-> p1]
=============================================================================
