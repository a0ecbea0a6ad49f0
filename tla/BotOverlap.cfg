SPECIFICATION BotSpec
CONSTANTS
  Chats = {x1}
  Messages = {m1, m2, m3}
  MaxRetries = 3
  x1 = x1
  m1 = m1
  m2 = m2
  m3 = m3
INVARIANTS
  BotTypeOK
  FieldsMatchState
  RetriesAreOwed
PROPERTIES
  ConfirmationEnds
