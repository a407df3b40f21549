------------------------------ MODULE MCEgressSync ------------------------------
(* Instances of EgressSync for TLC. *)
EXTENDS EgressSync, TLC

CONSTANTS p1, p2, r1, r2, d1, any, e1
================================================================================
