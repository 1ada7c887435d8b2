SPECIFICATION FairSpec
CONSTANTS
  o1 = o1 o2 = o2 d1 = d1 d2 = d2 d3 = d3 l1 = l1 l2 = l2 s1 = s1
  NoOrder = NoOrder NoDelivery = NoDelivery
  Orders = {o1}
  Deliveries = {d1, d3}
  Lines = {l1}
  Priced = {l1}
  Slots = {s1}
  Workers = {w1, w2}
  OrderOf <- LiveOrderOf
  LinesOf <- LiveLinesOf
  WithPhone = {d1}
  Lossy = {d1}
  SlotOf <- OneSlot
  MaxAttempts = 2
  MaxClaims = 4
PROPERTIES AckedOrderSettles
CHECK_DEADLOCK FALSE
