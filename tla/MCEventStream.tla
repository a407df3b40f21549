----------------------------- MODULE MCEventStream -----------------------------
(* Instances of EventStream for TLC. *)
EXTENDS EventStream, TLC

CONSTANTS tick, request, build

TwoTicks == [w \in Writers |-> IF w = tick THEN 2 ELSE 1]
OneEach  == [w \in Writers |-> 1]
================================================================================
