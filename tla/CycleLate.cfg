SPECIFICATION Spec
CONSTANTS
  h1 = h1
  Households = {h1}
  Products = {p, q}
  Writers = {w1}
  Times <- MCTimes
  Orders = {o1}
  Bills = {b1, b2}
  HouseholdOf <- MCHouseholdOf
  Prices = {0, 1}
  Weights = {0, 1}
  NoLine = NoLine NoBill = NoBill NoCycle = NoCycle Unavailable = Unavailable
  NoValue = NoValue NoRow = NoRow Names = {"old", "new"}
PROPERTY LockedBagIsImmutable
CHECK_DEADLOCK FALSE
SYMMETRY MCSymmetry
