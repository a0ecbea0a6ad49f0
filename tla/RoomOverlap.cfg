SPECIFICATION HistorySpec
CONSTANTS
  Deals = {d1}
  Users = {u1, u2}
  Terms = {bare, plain}
  bare = bare
  plain = plain
  Requests = {r1, r2}
  Nobody = Nobody
  Escrow = Escrow
  Amount <- MCAmount
  InitialBalance <- MCInitialBalance
  MaxReceipts = 1
  d1 = d1
  u1 = u1
  u2 = u2
  r1 = r1
  r2 = r2
  CompleteTerms = {bare, plain}
  Defaulted <- MCDefaulted
  Details = {}
  Notes = {}
SYMMETRY MCSymmetry
CONSTRAINT Focus
INVARIANTS
  ConsentBeforeMoney
  LateEditsAreFew
  ConsentStands
  ApprovedMeansPayable
  OneLiveApproval
  PaidOutIffSettled
  HeldMatchesStatus
  DisputeMatchesStatus
PROPERTIES
  IntactDealsKeepContract
CHECK_DEADLOCK FALSE
