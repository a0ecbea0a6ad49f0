SPECIFICATION WithdrawalsSpec
CONSTANTS
  Sellers = {rich, poor}
  Withdrawals = {w1, w2}
  Sums = {1, 2}
  Funds <- MCFunds
  SellerCalls = {c1}
  AdminCalls = {a1}
  PageSize = 1
  MaxTime = 1
  rich = rich
  poor = poor
  w1 = w1
  w2 = w2
  c1 = c1
  a1 = a1
SYMMETRY MCSymmetry
INVARIANTS
  CostsItsAmount
CHECK_DEADLOCK FALSE
