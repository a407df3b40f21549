------------------------------ MODULE MCProjectEnv ------------------------------
(* Instances of ProjectEnv for TLC. *)
EXTENDS ProjectEnv, TLC

CONSTANTS k1, k2, k3, m0, m1, r1, r2
================================================================================
