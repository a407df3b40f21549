---------------------------- MODULE MCDeployPipeline ----------------------------
(* Instances of DeployPipeline for TLC. *)
EXTENDS DeployPipeline, TLC

CONSTANTS d1, d2, p1, p2, w1, w2

OneProject  == [d \in Deployments |-> p1]
ProjectEach == [d \in Deployments |-> IF d = d1 THEN p1 ELSE p2]

Symmetry == Permutations(Deployments) \union Permutations(Slots)
================================================================================
