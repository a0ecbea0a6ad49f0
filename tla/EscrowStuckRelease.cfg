SPECIFICATION EscrowFairSpec
CONSTANTS
  Deals = {d1}
  Users = {u1, u2}
  Terms = {cheap, dear}
  cheap = cheap
  dear = dear
  Requests = {r1}
  Nobody = Nobody
  Escrow = Escrow
  Amount <- MCAmount
  InitialBalance <- MCInitialBalance
  MaxReceipts = 0
  d1 = d1
  u1 = u1
  u2 = u2
  r1 = r1
PROPERTIES
  ReleasePendingEnds
CHECK_DEADLOCK FALSE
