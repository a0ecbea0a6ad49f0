SPECIFICATION SoundReleaseSpec
CONSTANTS
  Deals = {d1}
  Users = {u1, u2}
  Terms = {cheap, dear}
  dear = dear
  cheap = cheap
  Requests = {r1}
  Nobody = Nobody
  Escrow = Escrow
  Amount <- MCAmount
  InitialBalance <- MCInitialBalance
  MaxReceipts = 1
  d1 = d1
  u1 = u1
  u2 = u2
  r1 = r1
  CompleteTerms = {cheap, dear}
  Defaulted <- MCDefaulted
  Details = {x1}
  Notes = {n1}
PROPERTIES
  KeepsContract
  ConfirmedIsReleased
CHECK_DEADLOCK FALSE
