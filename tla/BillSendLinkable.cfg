SPECIFICATION Spec
CONSTANTS
  Workers = {w1}
  MaxBillAttempts = 1
  MaxSends = 1
  MayReport <- AnyReceipt
  MayChange = {"uncomposed", "held", "stale", "cancelled", "prior_log"}
PROPERTIES CandidateIsLinkable
CHECK_DEADLOCK FALSE
