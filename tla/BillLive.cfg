SPECIFICATION FairSpec
CONSTANTS
  Workers = {w1}
  MaxBillAttempts = 2
  MaxSends = 2
  MayReport <- OfTheFirstTwo
  MayChange = {"uncomposed", "held", "stale", "cancelled", "prior_log", "aged"}
INVARIANTS ReceiptOrderIsIrrelevant StopIsAlerted
PROPERTIES InFlightEnds PendingEnds ReceiptsAreApplied
CHECK_DEADLOCK FALSE
