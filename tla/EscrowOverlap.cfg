SPECIFICATION EscrowSpec
CONSTANTS
  Deals = {d1}
  Users = {u1, u2}
  Terms = {cheap, dear}
  cheap = cheap
  dear = dear
  Requests = {r1, r2}
  Nobody = Nobody
  Escrow = Escrow
  Amount <- MCAmount
  InitialBalance <- MCInitialBalance
  MaxReceipts = 2
  d1 = d1
  u1 = u1
  u2 = u2
  r1 = r1
  r2 = r2
SYMMETRY MCSymmetry
INVARIANTS
  EscrowTypeOK
  BooksBalance
  NoOverdraft
  AutoReleaseOnce
CHECK_DEADLOCK FALSE
