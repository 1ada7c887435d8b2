SPECIFICATION Spec
CONSTANTS
  Workers = {w1, w2}
  MaxBillAttempts = 2
  MaxSends = 3
  MayReport <- OfTheFirst
  MayChange = {}
INVARIANTS AtMostOnceAutomatic BillBudget OneInFlight SentIsProved
PROPERTIES BillGuard
SYMMETRY WorkerSymmetry
CHECK_DEADLOCK FALSE
