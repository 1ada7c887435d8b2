---------------------------- MODULE MCCycleLock ----------------------------
(* A Friday order: for Monday's delivery, or for Thursday's when Monday's  *)
(* cycle was closed by hand.                                               *)
EXTENDS CycleLock, MCBillText, TLC

CONSTANT h1

MCTimes == {5 * DayTicks + 10}
MCSymmetry == Permutations(Products) \cup Permutations(Bills)
MCHouseholdOf == [o \in Orders |-> h1]
=============================================================================
