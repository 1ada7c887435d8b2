------------------------- MODULE MCCommunityIntake -------------------------
(* One product, one variant and one line of it, two sweepers, three tries.  *)
EXTENDS CommunityIntake
MCProductOf == [v \in Variants |-> CHOOSE p \in Products : TRUE]
MCLines == {1}
MCFacts ==
  [l \in Lines |-> [variant |-> CHOOSE v \in Variants : TRUE, sku |-> "ASB-COM-1", one |-> TRUE]]
=============================================================================
