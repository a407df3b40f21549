---------------------------- MODULE MCAdministration ----------------------------
(* Instances of Administration for TLC. *)
EXTENDS Administration, TLC

CONSTANTS u1, u2, u3, i1, i2, r1, r2
================================================================================
