SPECIFICATION FairSpec
CONSTANTS
  Products = {p1}
  Variants = {v1}
  ProductOf <- MCProductOf
  Skus = {"ASB-COM-1", "plain"}
  CommunitySkus = {"ASB-COM-1"}
  Lines <- MCLines
  Facts <- MCFacts
  Workers = {w1, w2}
  MAX_ATTEMPTS = 3
  MaxRequeues = 1
  MaxFaults = 1
  NoLine = NoLine
INVARIANTS RegistryFailsClosed
PROPERTIES DecisionStands EveryLineDecided
CHECK_DEADLOCK FALSE
