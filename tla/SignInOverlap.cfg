SPECIFICATION SignInSpec
CONSTANTS
  Emails = {e1}
  TelegramIds = {t1}
  GoogleSubs = {g1}
  EmailOf <- MCEmailOf
  Clients = {c1, c2}
  MaxFails = 2
  Window = 1
  e1 = e1
  t1 = t1
  g1 = g1
  c1 = c1
  c2 = c2
SYMMETRY MCSymmetry
INVARIANTS
  SignInTypeOK
  LockoutHolds
  AccountsAreWhole
PROPERTIES
  RightUser
