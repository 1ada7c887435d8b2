---------------------------- MODULE MCOrderSource ----------------------------
(***************************************************************************)
(* Instances of OrderSource for TLC.                                       *)
(***************************************************************************)
EXTENDS OrderSource, TLC

CONSTANTS o1, o2, d1, d2, d3, l1, l2, s1

\* One order delivered twice with different content.
OneOrderOf == d1 :> o1 @@ d2 :> o1
OneLinesOf == d1 :> {l1, l2} @@ d2 :> {l1}

\* One order, and an unusable delivery.
LiveOrderOf == d1 :> o1 @@ d3 :> NoOrder
LiveLinesOf == d1 :> {l1} @@ d3 :> {}

OneSlot == [o \in Orders |-> s1]
OnlyFirst == {d1}

\* Worker runs are interchangeable.
WorkerSymmetry == Permutations(Workers)
=============================================================================
