------------------------------ MODULE MCCutover ------------------------------
(* Two deliveries of one order and one of another. *)
EXTENDS Cutover
CONSTANTS o1, o2
MCOrderOf == [e \in Deliveries |-> IF e < 3 THEN o1 ELSE o2]
==============================================================================
