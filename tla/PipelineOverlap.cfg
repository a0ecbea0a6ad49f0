SPECIFICATION PipelineSpec
CONSTANTS
  Conns = {c1, c2}
  Tokens = {t1}
  Owner <- MCOwner
  Keys = {k1}
  NoKey = NoKey
  Bodies = {b1, b2}
  Logout = Logout
  MaxTime = 3
  MaxServing = 1
  MaxLate = 2
  SessionTTL = 1
  KeyTTL = 3
  c1 = c1
  c2 = c2
  t1 = t1
  k1 = k1
  b1 = b1
  b2 = b2
SYMMETRY MCSymmetry
INVARIANTS
  PipelineTypeOK
  OncePerKey
  ReplayIsFaithful
  IdleSessionsDie
PROPERTIES
  RevokedStaysRevoked
CHECK_DEADLOCK FALSE
