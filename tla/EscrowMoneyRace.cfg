SPECIFICATION EscrowSpec
CONSTANTS
  Deals = {d1}
  Users = {u1, u2}
  Terms = {cheap, dear}
  cheap = cheap
  dear = dear
  Requests = {r1, r2}
  Nobody = Nobody
  Escrow = Escrow
  Amount <- MCAmount
  InitialBalance <- MCInitialBalance
  MaxReceipts = 1
  d1 = d1
  u1 = u1
  u2 = u2
  r1 = r1
  r2 = r2
SYMMETRY MCSymmetry
PROPERTIES
  MoneyFollowsStatus
CHECK_DEADLOCK FALSE
