CONSTANTS
  o1 = o1
  o2 = o2
  Orders = {o1, o2}
  Deliveries = {1, 2, 3}
  OrderOf <- MCOrderOf
  Late = {3}
  MayBeCommunity = {o1}
  MayRevoke = {"bills"}
  Runs = {r1}
  MaxRollbacks = 1
SPECIFICATION Spec
INVARIANTS HandledIsWritten BilledOnce OneBillAfterStop
PROPERTIES WrittenOnce
CHECK_DEADLOCK FALSE
