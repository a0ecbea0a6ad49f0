SPECIFICATION WithdrawalsSpec
CONSTANTS
  Sellers = {poor}
  Withdrawals = {w1, w2, w3}
  Sums = {1, 2}
  Funds <- MCFunds
  SellerCalls = {c1, c2}
  AdminCalls = {a1, a2}
  PageSize = 1
  MaxTime = 1
  rich = rich
  poor = poor
  w1 = w1
  w2 = w2
  w3 = w3
  c1 = c1
  c2 = c2
  a1 = a1
  a2 = a2
SYMMETRY MCSymmetry
CONSTRAINT Focus
INVARIANTS
  WithdrawalsTypeOK
  HoldsAreCovered
  OneStory
  PagesAreComplete
CHECK_DEADLOCK FALSE
