SPECIFICATION NegotiationSpec
CONSTANTS
  Deals = {d1}
  Users = {u1, u2, u3}
  Terms = {t1, t2}
  CompleteTerms = {t1}
  Defaulted <- MCDefaulted
  Requests = {r1, r2}
  Nobody = Nobody
  d1 = d1
  u1 = u1
  u2 = u2
  u3 = u3
  t1 = t1
  t2 = t2
  r1 = r1
  r2 = r2
SYMMETRY MCSymmetry
INVARIANTS
  NegotiationTypeOK
  AgreedByBoth
  SpentIffJoined
  StoredHashIsCurrent
