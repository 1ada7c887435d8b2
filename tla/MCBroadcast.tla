---------------------------- MODULE MCBroadcast ----------------------------
(* A broadcast to two numbers, two instances, a brake after two refusals.   *)
EXTENDS Broadcast
MCCasts == {1}
MCPhones == {1, 2}
=============================================================================
